----------------------------- MODULE GateProofs -----------------------------
(***************************************************************************)
(* Machine-checked proofs about Gate, for any number of connections,       *)
(* addresses, tokens and forwarded chains and any size of the bounded      *)
(* maps.  First what Throttle's operators return, then the invariant: what *)
(* each request in flight may still rely on, and what the shared           *)
(* structures hold.  Last the windows of the rate limits: what an address  *)
(* was granted and could still be given is within its budget.              *)
(***************************************************************************)
EXTENDS Gate, FiniteSetTheorems, SequenceTheorems, WellFoundedInduction, TLAPS

(* The bounds are naturals, as the configuration's defaults make them.     *)
LEMMA Sizes ==
  /\ MaxEntries \in Nat /\ MaxEntries # 0
  /\ MaxConns \in Nat /\ MaxHeavy \in Nat /\ Rate \in Nat /\ Burst \in Nat
  /\ MaxTime \in Nat /\ IsFiniteSet(Req)
BY GateAssumption, Zenon

(* The numbers of the rate limits.                                         *)
LEMMA RateSizes ==
  /\ Rate \in Nat /\ Burst \in Nat /\ GlobalRate \in Nat /\ GlobalBurst \in Nat /\ MaxTime \in Nat
  /\ TTL \in Nat /\ Pause \in Nat /\ Pause < TTL /\ Burst <= Rate * (TTL - Pause)
BY GateAssumption, EvictionAssumption

-----------------------------------------------------------------------------
(* Least and greatest elements.                                            *)

(* A non-empty set of naturals has a least element.                        *)
LEMMA LeastExists ==
  ASSUME NEW S, S \subseteq Nat, S # {}
  PROVE  \E x \in S : \A y \in S : x <= y
<1>1. PICK x \in S : \A y \in S : ~(<<y, x>> \in OpToRel(<, Nat))
  BY NatLessThanWellFounded, WFMin, Zenon
<1>2. ASSUME NEW y \in S PROVE x <= y
  <2>1. ~(<<y, x>> \in OpToRel(<, Nat))
    BY <1>1
  <2>2. x \in Nat /\ y \in Nat
    OBVIOUS
  <2>3. ~(y < x)
    BY <2>1, <2>2 DEF OpToRel
  <2> QED BY <2>2, <2>3
<1> QED BY <1>2

(* A bounded non-empty one has a greatest.                                 *)
LEMMA GreatestExists ==
  ASSUME NEW n \in Nat, NEW S, S \subseteq 0 .. n, S # {}
  PROVE  \E x \in S : \A y \in S : y <= x
<1> DEFINE T == {n - x : x \in S}
<1>1. \A x \in S : x \in Nat /\ n - x \in Nat
  OBVIOUS
<1>2. T \subseteq Nat /\ T # {}
  BY <1>1
<1>3. PICK z \in T : \A y \in T : z <= y
  BY <1>2, LeastExists
<1>4. PICK x \in S : z = n - x
  BY <1>3
<1>5. ASSUME NEW y \in S PROVE y <= x
  <2>1. n - x <= n - y
    BY <1>3, <1>4
  <2> QED BY <1>1, <2>1
<1> QED BY <1>5

-----------------------------------------------------------------------------
(* clientIP.                                                               *)

(* Whether it connects directly or through the trusted proxy, and whatever *)
(* chain it sends, a client is known by its own address: the proxy appends *)
(* that address, and the walk from the right stops there.                  *)
LEMMA ClientIsItself ==
  ASSUME NEW c \in Client, NEW chain \in Chains
  PROVE  /\ clientIP([remote |-> c, xff |-> chain, realIP |-> ""], {Proxy}) = c
         /\ clientIP([remote |-> Proxy, xff |-> Append(chain, c), realIP |-> ""], {Proxy}) = c
<1>1. c # Proxy /\ c \notin {"", "garbled"}
  BY GateAssumption
<1>2. clientIP([remote |-> c, xff |-> chain, realIP |-> ""], {Proxy}) = c
  BY <1>1 DEF clientIP, addrTrusted
<1> DEFINE xff == Append(chain, c)
           others == {i \in DOMAIN xff : xff[i] # Proxy}
           n == Len(chain) + 1
<1>3. chain \in Seq(ToSet(chain))
  BY GateAssumption
<1>4. n \in Nat /\ DOMAIN xff = 1 .. n /\ xff[n] = c /\ xff # <<>>
  BY <1>3
<1>5. n \in others /\ \A j \in others : j <= n
  <2> HIDE DEF n, xff
  <2>0. 1 <= n
    BY <1>3 DEF n
  <2>1. n \in DOMAIN xff /\ xff[n] # Proxy
    <3>1. n \in DOMAIN xff
      BY <1>4, <2>0
    <3>2. xff[n] = c
      BY <1>4
    <3> QED BY <1>1, <3>1, <3>2
  <2>2. \A j \in DOMAIN xff : j <= n
    BY <1>4
  <2> QED BY <2>1, <2>2
<1>6. (CHOOSE i \in others : \A j \in others : j <= i) = n
  <2>1. \A i \in others : i \in Nat
    BY <1>4
  <2>2. \A i \in others : (\A j \in others : j <= i) => i = n
    BY <1>4, <1>5, <2>1
  <2> HIDE DEF others, n
  <2> QED BY <1>5, <2>2
<1>7. forwardedClientIP([remote |-> Proxy, xff |-> xff, realIP |-> ""], {Proxy}) = parseHeaderAddr(xff[n])
  <2>1. {i \in DOMAIN xff : ~addrTrusted(xff[i], {Proxy})} = others
    BY DEF addrTrusted
  <2> HIDE DEF others, n, xff
  <2> QED BY <1>4, <1>5, <1>6, <2>1 DEF forwardedClientIP
<1>8. parseHeaderAddr(xff[n]) = c
  BY <1>1, <1>4 DEF parseHeaderAddr
<1> HIDE DEF others, n, xff
<1>9. clientIP([remote |-> Proxy, xff |-> xff, realIP |-> ""], {Proxy}) = c
  BY <1>1, <1>7, <1>8 DEF clientIP, addrTrusted
<1> QED BY <1>2, <1>9 DEF xff

-----------------------------------------------------------------------------
(* The token bucket.                                                       *)

Bucket(burst) == [tokens : 0 .. burst, at : Nat]

(* allow keeps a bucket between empty and its burst, however long it was   *)
(* idle.                                                                   *)
LEMMA AllowBounded ==
  ASSUME NEW burst \in Nat, NEW rate \in Nat, NEW at \in Nat, NEW b \in Bucket(burst)
  PROVE  AfterAllow(b, at, rate, burst) \in Bucket(burst)
<1> DEFINE r == Refilled(b, at, rate, burst)
<1>1. r \in Bucket(burst)
  <2>1. CASE at <= b.at
    BY <2>1 DEF Refilled
  <2>2. CASE ~(at <= b.at)
    <3>1. PICK d \in Nat : d = (at - b.at) * rate
      <4>1. at - b.at \in Nat
        BY <2>2 DEF Bucket
      <4>2. \A x, y \in Nat : x * y \in Nat
        OBVIOUS
      <4> QED BY <4>1, <4>2
    <3>2. r = [tokens |-> IF b.tokens + d > burst THEN burst ELSE b.tokens + d, at |-> at]
      BY <2>2, <3>1 DEF Refilled
    <3> QED BY <3>1, <3>2 DEF Bucket
  <2> QED BY <2>1, <2>2
<1> HIDE DEF r
<1>2. CASE r.tokens >= 1
  <2>1. AfterAllow(b, at, rate, burst) = [r EXCEPT !.tokens = @ - 1]
    BY <1>2 DEF AfterAllow, r
  <2>2. r.tokens - 1 \in 0 .. burst
    BY <1>1, <1>2 DEF Bucket
  <2> QED BY <1>1, <2>1, <2>2 DEF Bucket
<1>3. CASE ~(r.tokens >= 1)
  BY <1>1, <1>3 DEF AfterAllow, r
<1> QED BY <1>2, <1>3

-----------------------------------------------------------------------------
(* The bounded map of buckets.                                             *)

Entry == [key : Client, id : Ids, last : Nat]

(* In order of the last access, the newest first, one entry for a key.     *)
Ordered(m) ==
  \A i, j \in 1 .. Len(m) : i < j => m[i].last >= m[j].last /\ m[i].key # m[j].key
NoneLater(m, at) == \A i \in 1 .. Len(m) : m[i].last <= at
MapFits(m, at) == m \in Seq(Entry) /\ Ordered(m) /\ NoneLater(m, at)

(* r is the first k entries of m. *)
IsFront(r, m, k) ==
  /\ r \in Seq(Entry) /\ Len(r) = k /\ k \in 0 .. Len(m) /\ \A i \in 1 .. k : r[i] = m[i]

(* The front of a list in order is in order.                               *)
LEMMA FrontFits ==
  ASSUME NEW at \in Nat, NEW m, MapFits(m, at), NEW r, NEW k \in Nat, IsFront(r, m, k)
  PROVE  MapFits(r, at)
<1>1. m \in Seq(Entry) /\ Len(m) \in Nat /\ Len(r) = k /\ k <= Len(m) /\ \A i \in 1 .. k : i \in 1 .. Len(m)
  BY DEF MapFits, IsFront
<1>2. Ordered(r)
  BY <1>1 DEF MapFits, IsFront, Ordered
<1>3. NoneLater(r, at)
  BY <1>1 DEF MapFits, IsFront, NoneLater
<1> QED BY <1>2, <1>3 DEF MapFits, IsFront

(* SubSeq from the front.                                                  *)
LEMMA SubSeqIsFront ==
  ASSUME NEW m \in Seq(Entry), NEW k \in 0 .. Len(m)
  PROVE  IsFront(SubSeq(m, 1, k), m, k)
<1>1. Len(m) \in Nat /\ k \in Nat /\ k <= Len(m) /\ \A i \in 1 .. k : i \in 1 .. Len(m)
  OBVIOUS
<1>2. SubSeq(m, 1, k) \in Seq(Entry) /\ Len(SubSeq(m, 1, k)) = k
  BY <1>1, SubSeqProperties
<1>3. \A i \in 1 .. k : SubSeq(m, 1, k)[i] = m[i]
  BY <1>1, SubSeqProperties
<1> QED BY <1>1, <1>2, <1>3 DEF IsFront

(* Eviction by age leaves the front of a list up to its last fresh entry.  *)
LEMMA ExpiredGone ==
  ASSUME NEW at \in Nat, NEW m0, MapFits(m0, at)
  PROVE  \E k \in 0 .. Len(m0) :
           /\ IsFront(evictExpiredLocked(m0, at), m0, k)
           /\ \A i \in 1 .. Len(m0) : k < i => at - m0[i].last >= TTL
<1> DEFINE fresh == {i \in DOMAIN m0 : at - m0[i].last < TTL}
           n == Len(m0)
<1>1. m0 \in Seq(Entry) /\ n \in Nat /\ DOMAIN m0 = 1 .. n /\ TTL \in Nat
  BY RateSizes DEF MapFits
<1>2. \A i \in 1 .. n : i \notin fresh => at - m0[i].last >= TTL
  <2> SUFFICES ASSUME NEW i \in 1 .. n, i \notin fresh PROVE at - m0[i].last >= TTL
    OBVIOUS
  <2>1. m0[i] \in Entry
    BY <1>1
  <2> QED BY <1>1, <2>1 DEF Entry
<1>3. CASE fresh = {}
  <2>1. evictExpiredLocked(m0, at) = <<>>
    BY <1>3 DEF evictExpiredLocked
  <2>2. IsFront(<<>>, m0, 0)
    BY <1>1 DEF IsFront
  <2> QED BY <1>1, <1>2, <1>3, <2>1, <2>2
<1>4. CASE fresh # {}
  <2>1. fresh \subseteq 0 .. n /\ fresh \subseteq 1 .. n
    BY <1>1
  <2> DEFINE k == CHOOSE i \in fresh : \A j \in fresh : j <= i
  <2>2. evictExpiredLocked(m0, at) = SubSeq(m0, 1, k)
    BY <1>4 DEF evictExpiredLocked
  <2> HIDE DEF fresh
  <2>3. k \in fresh /\ \A j \in fresh : j <= k
    BY <1>1, <1>4, <2>1, GreatestExists
  <2> HIDE DEF k
  <2>4. k \in 0 .. n
    BY <2>1, <2>3
  <2>5. IsFront(SubSeq(m0, 1, k), m0, k)
    BY <1>1, <2>4, SubSeqIsFront
  <2>6. \A i \in 1 .. n : k < i => i \notin fresh
    BY <1>1, <2>3, <2>4
  <2> QED BY <1>2, <2>2, <2>4, <2>5, <2>6
<1> QED BY <1>3, <1>4

(* Eviction by count leaves the front, and no more than MaxEntries.        *)
LEMMA CapLeavesFront ==
  ASSUME NEW m \in Seq(Entry)
  PROVE  /\ \E k \in 0 .. Len(m) : IsFront(evictOverCapLocked(m), m, k) /\ k <= MaxEntries
                                   /\ (m # <<>> => k # 0)
<1>1. Len(m) \in Nat /\ MaxEntries \in Nat /\ MaxEntries # 0
  BY Sizes
<1>2. CASE Len(m) > MaxEntries
  <2>1. IsFront(SubSeq(m, 1, MaxEntries), m, MaxEntries)
    BY <1>1, <1>2, SubSeqIsFront
  <2> QED BY <1>1, <1>2, <2>1 DEF evictOverCapLocked
<1>3. CASE ~(Len(m) > MaxEntries)
  <2>1. IsFront(m, m, Len(m))
    BY <1>1 DEF IsFront
  <2>2. m # <<>> => Len(m) # 0
    BY EmptySeq
  <2> QED BY <1>1, <1>3, <2>1, <2>2 DEF evictOverCapLocked
<1> QED BY <1>2, <1>3

(* A new entry in front, of a key that is not in the list.                 *)
LEMMA PushFits ==
  ASSUME NEW at \in Nat, NEW m, MapFits(m, at), NEW e \in Entry, e.last = at,
         \A i \in 1 .. Len(m) : m[i].key # e.key
  PROVE  /\ MapFits(<<e>> \o m, at) /\ Len(<<e>> \o m) = Len(m) + 1 /\ (<<e>> \o m)[1] = e
         /\ \A i \in 1 .. Len(m) : (<<e>> \o m)[i + 1] = m[i]
<1> DEFINE p == <<e>> \o m
<1>1. m \in Seq(Entry) /\ Len(m) \in Nat
  BY DEF MapFits
<1>2. p \in Seq(Entry) /\ Len(p) = Len(m) + 1 /\ p[1] = e
  BY <1>1
<1>3. \A i \in 2 .. Len(p) : i - 1 \in 1 .. Len(m) /\ p[i] = m[i - 1]
  BY <1>1
<1>4. \A i \in 1 .. Len(m) : p[i + 1] = m[i]
  BY <1>1
<1> HIDE DEF p
<1>5. NoneLater(p, at)
  <2> SUFFICES ASSUME NEW i \in 1 .. Len(p) PROVE p[i].last <= at
    BY DEF NoneLater
  <2>1. CASE i = 1
    BY <1>2, <2>1 DEF Entry
  <2>2. CASE i \in 2 .. Len(p)
    BY <1>3, <2>2 DEF MapFits, NoneLater
  <2> QED BY <1>1, <1>2, <2>1, <2>2
<1>6. Ordered(p)
  <2> SUFFICES ASSUME NEW i \in 1 .. Len(p), NEW j \in 1 .. Len(p), i < j
               PROVE  p[i].last >= p[j].last /\ p[i].key # p[j].key
    BY DEF Ordered
  <2>0. j \in 2 .. Len(p) /\ j - 1 \in 1 .. Len(m) /\ p[j] = m[j - 1] /\ m[j - 1] \in Entry
    BY <1>1, <1>2, <1>3
  <2>1. CASE i = 1
    BY <1>2, <2>0, <2>1 DEF MapFits, NoneLater, Entry
  <2>2. CASE i \in 2 .. Len(p)
    <3>1. i - 1 \in 1 .. Len(m) /\ p[i] = m[i - 1] /\ i - 1 < j - 1
      BY <1>1, <1>2, <1>3, <2>2
    <3> QED BY <2>0, <3>1 DEF MapFits, Ordered
  <2> QED BY <1>1, <1>2, <2>1, <2>2
<1> QED BY <1>2, <1>4, <1>5, <1>6 DEF MapFits, p

(* RemoveAt keeps every other entry, one place further to the front or     *)
(* where it was.                                                           *)
LEMMA RemoveKeeps ==
  ASSUME NEW m \in Seq(Entry), NEW i \in 1 .. Len(m)
  PROVE  /\ RemoveAt(m, i) \in Seq(Entry) /\ Len(RemoveAt(m, i)) = Len(m) - 1
         /\ \A j \in 1 .. Len(m) - 1 : RemoveAt(m, i)[j] = m[IF j < i THEN j ELSE j + 1]
<1> DEFINE r == RemoveAt(m, i)
           a == SubSeq(m, 1, i - 1)
           b == SubSeq(m, i + 1, Len(m))
<1>1. Len(m) \in Nat /\ i \in Nat /\ 1 <= i /\ i <= Len(m)
  OBVIOUS
<1>2. a \in Seq(Entry) /\ Len(a) = i - 1 /\ \A j \in 1 .. i - 1 : a[j] = m[j]
  <2>1. i - 1 \in 0 .. Len(m)
    BY <1>1
  <2> QED BY <1>1, <2>1, SubSeqIsFront DEF IsFront
<1>3. b \in Seq(Entry) /\ Len(b) = Len(m) - i /\ \A j \in 1 .. Len(m) - i : b[j] = m[i + j]
  <2>1. /\ i + 1 \in 1 .. Len(m) + 1 /\ Len(m) \in i .. Len(m)
        /\ \A j \in i + 1 .. Len(m) : m[j] \in Entry
    BY <1>1
  <2>2. b = [j \in 1 .. Len(m) - i |-> m[i + j]]
    BY <1>1
  <2> HIDE DEF b
  <2>3. Len(m) - i \in Nat /\ \A j \in 1 .. Len(m) - i : m[i + j] \in Entry
    BY <1>1, <2>1
  <2> QED BY <2>2, <2>3
<1>4. r = a \o b
  BY DEF RemoveAt
<1> HIDE DEF a, b, r
<1>5. r \in Seq(Entry) /\ Len(r) = Len(m) - 1
  <2>1. a \o b \in Seq(Entry) /\ Len(a \o b) = Len(a) + Len(b)
    BY <1>2, <1>3, ConcatProperties
  <2> QED BY <1>1, <1>2, <1>3, <1>4, <2>1
<1>6. ASSUME NEW j \in 1 .. Len(m) - 1
      PROVE  r[j] = m[IF j < i THEN j ELSE j + 1]
  <2>1. CASE j < i
    BY <1>1, <1>2, <1>3, <1>4, <2>1
  <2>2. CASE ~(j < i)
    <3>1. j - Len(a) \in 1 .. Len(m) - i /\ i + (j - Len(a)) = j + 1
      BY <1>1, <1>2, <2>2
    <3>2. r[j] = b[j - Len(a)]
      BY <1>1, <1>2, <1>3, <1>4, <2>2
    <3> QED BY <1>3, <2>2, <3>1, <3>2
  <2> QED BY <2>1, <2>2
<1> QED BY <1>5, <1>6 DEF r

(* Without its i-th entry a list stays in order, and that key is gone.     *)
LEMMA RemoveFits ==
  ASSUME NEW at \in Nat, NEW m, MapFits(m, at), NEW i \in 1 .. Len(m)
  PROVE  /\ MapFits(RemoveAt(m, i), at) /\ Len(RemoveAt(m, i)) = Len(m) - 1
         /\ \A j \in 1 .. Len(RemoveAt(m, i)) : RemoveAt(m, i)[j].key # m[i].key
<1> DEFINE r == RemoveAt(m, i)
<1>1. m \in Seq(Entry) /\ Len(m) \in Nat /\ i \in Nat /\ 1 <= i /\ i <= Len(m)
  BY DEF MapFits
<1>4. r \in Seq(Entry) /\ Len(r) = Len(m) - 1
  BY <1>1, RemoveKeeps
<1>5. ASSUME NEW j \in 1 .. Len(m) - 1
      PROVE  r[j] = m[IF j < i THEN j ELSE j + 1]
  BY <1>1, RemoveKeeps
<1> HIDE DEF r
<1> DEFINE at0(j) == IF j < i THEN j ELSE j + 1
<1>6. \A j \in 1 .. Len(r) : at0(j) \in 1 .. Len(m) /\ at0(j) # i /\ r[j] = m[at0(j)]
  BY <1>1, <1>4, <1>5
<1>7. \A j, k \in 1 .. Len(r) : j < k => at0(j) < at0(k)
  BY <1>1, <1>4
<1> HIDE DEF at0
<1>8. Ordered(r)
  <2> SUFFICES ASSUME NEW j \in 1 .. Len(r), NEW k \in 1 .. Len(r), j < k
               PROVE  r[j].last >= r[k].last /\ r[j].key # r[k].key
    BY DEF Ordered
  <2>1. PICK u \in 1 .. Len(m) : u = at0(j) /\ r[j] = m[u]
    BY <1>6
  <2>2. PICK v \in 1 .. Len(m) : v = at0(k) /\ r[k] = m[v]
    BY <1>6
  <2>3. u < v
    BY <1>7, <2>1, <2>2
  <2>4. m[u].last >= m[v].last /\ m[u].key # m[v].key
    BY <2>3 DEF MapFits, Ordered
  <2> QED BY <2>1, <2>2, <2>4
<1>9. NoneLater(r, at)
  BY <1>6 DEF MapFits, NoneLater
<1>10. \A j \in 1 .. Len(r) : r[j].key # m[i].key
  <2> SUFFICES ASSUME NEW j \in 1 .. Len(r) PROVE r[j].key # m[i].key
    OBVIOUS
  <2>1. at0(j) < i \/ i < at0(j)
    BY <1>1, <1>6
  <2> QED BY <1>6, <2>1 DEF MapFits, Ordered
<1> QED BY <1>4, <1>8, <1>9, <1>10 DEF MapFits, r

(* getOrCreate, on a hit or a miss, leaves a list in order and in bounds   *)
(* with the entry asked for in front.                                      *)
LEMMA GetOrCreateFits ==
  ASSUME NEW at \in Nat, NEW m0, MapFits(m0, at), Len(m0) <= MaxEntries,
         NEW key \in Client, NEW fresh \in Ids
  PROVE  /\ MapFits(getOrCreate(m0, key, fresh, at), at)
         /\ Len(getOrCreate(m0, key, fresh, at)) <= MaxEntries
         /\ Head(getOrCreate(m0, key, fresh, at)) \in Entry
<1> DEFINE m == evictExpiredLocked(m0, at)
           hits == HitsOf(m, key)
           i == CHOOSE j \in hits : TRUE
           after == getOrCreate(m0, key, fresh, at)
<1>0. MaxEntries \in Nat /\ MaxEntries # 0
  BY Sizes
<1>1. m0 \in Seq(Entry) /\ Len(m0) \in Nat
  BY DEF MapFits
<1>2. PICK k \in 0 .. Len(m0) : IsFront(m, m0, k)
  BY <1>1, ExpiredGone
<1>3. MapFits(m, at) /\ m \in Seq(Entry) /\ Len(m) \in Nat /\ Len(m) <= MaxEntries
  <2>1. k \in Nat /\ Len(m) = k /\ k <= MaxEntries
    BY <1>0, <1>1, <1>2 DEF IsFront
  <2> QED BY <1>1, <1>2, <2>1, FrontFits DEF MapFits
<1>4. CASE hits # {}
  <2> HIDE DEF m
  <2>1. i \in 1 .. Len(m) /\ m[i].key = key
    <3>1. i \in hits
      BY <1>4
    <3> QED BY <1>3, <3>1 DEF HitsOf
  <2>2. after = <<[m[i] EXCEPT !.last = at]>> \o RemoveAt(m, i)
    BY <1>4 DEF getOrCreate, m
  <2> HIDE DEF i, after
  <2> DEFINE e == [m[i] EXCEPT !.last = at]
  <2>3. e \in Entry /\ e.last = at /\ e.key = key
    <3>1. m[i] \in Entry
      BY <1>3, <2>1
    <3> QED BY <2>1, <3>1 DEF Entry
  <2>4. MapFits(RemoveAt(m, i), at) /\ Len(RemoveAt(m, i)) = Len(m) - 1
        /\ \A j \in 1 .. Len(RemoveAt(m, i)) : RemoveAt(m, i)[j].key # key
    BY <1>3, <2>1, RemoveFits
  <2> HIDE DEF e
  <2>5. MapFits(after, at) /\ Len(after) = Len(m) /\ after[1] = e
    <3>1. after = <<e>> \o RemoveAt(m, i)
      BY <2>2 DEF e
    <3>2. MapFits(after, at) /\ Len(after) = Len(RemoveAt(m, i)) + 1 /\ after[1] = e
      <4> DEFINE rest == RemoveAt(m, i)
      <4>1. MapFits(rest, at) /\ \A j \in 1 .. Len(rest) : rest[j].key # e.key
        BY <2>3, <2>4
      <4> HIDE DEF rest
      <4>2. /\ MapFits(<<e>> \o rest, at) /\ Len(<<e>> \o rest) = Len(rest) + 1
            /\ (<<e>> \o rest)[1] = e
        BY <2>3, <4>1, PushFits
      <4> QED BY <3>1, <4>2 DEF rest
    <3> QED BY <1>3, <2>4, <3>2
  <2>6. Head(after) = after[1]
    BY <2>5 DEF MapFits
  <2> QED BY <1>3, <2>3, <2>5, <2>6 DEF after
<1>5. CASE hits = {}
  <2> DEFINE e == [key |-> key, id |-> fresh, last |-> at]
             p == <<e>> \o m
  <2>1. after = evictOverCapLocked(p)
    BY <1>5 DEF getOrCreate
  <2>2. e \in Entry /\ e.last = at /\ e.key = key
    BY DEF Entry
  <2>3. \A j \in 1 .. Len(m) : m[j].key # key
    BY <1>3, <1>5 DEF HitsOf
  <2> HIDE DEF m, e, after
  <2>4. MapFits(p, at) /\ Len(p) = Len(m) + 1 /\ p[1] = e
    BY <1>3, <2>2, <2>3, PushFits
  <2> HIDE DEF p
  <2>5. p \in Seq(Entry) /\ p # <<>>
    BY <1>3, <2>4 DEF MapFits
  <2>6. PICK n \in 0 .. Len(p) : IsFront(after, p, n) /\ n <= MaxEntries /\ n # 0
    BY <2>1, <2>5, CapLeavesFront
  <2>7. MapFits(after, at) /\ Len(after) <= MaxEntries
    BY <1>3, <2>4, <2>6, FrontFits DEF IsFront
  <2>8. Head(after) = after[1] /\ after[1] = p[1]
    BY <1>3, <2>4, <2>6 DEF IsFront
  <2> QED BY <2>2, <2>4, <2>7, <2>8 DEF after
<1> QED BY <1>4, <1>5

-----------------------------------------------------------------------------
(* There is always a free bucket name: the lists and the requests hold     *)
(* fewer than there are.                                                   *)

(* What a function takes from a finite set is finite and no more.          *)
LEMMA ImageBounded ==
  ASSUME NEW S, IsFiniteSet(S), NEW f, DOMAIN f = S
  PROVE  /\ IsFiniteSet({f[x] : x \in S})
         /\ Cardinality({f[x] : x \in S}) \in Nat /\ Cardinality({f[x] : x \in S}) <= Cardinality(S)
<1> DEFINE T == {f[x] : x \in S}
           g == [x \in S |-> f[x]]
<1>1. g \in Surjection(S, T)
  BY DEF Surjection
<1>2. IsFiniteSet(T) /\ Cardinality(T) <= Cardinality(S)
  BY <1>1, FS_Surjection
<1> QED BY <1>2, FS_CardinalityType

(* A union has no more elements than its parts together.                   *)
LEMMA UnionBounded ==
  ASSUME NEW S, NEW T, IsFiniteSet(S), IsFiniteSet(T),
         NEW n \in Nat, NEW k \in Nat, Cardinality(S) <= n, Cardinality(T) <= k
  PROVE  IsFiniteSet(S \cup T) /\ Cardinality(S \cup T) \in Nat /\ Cardinality(S \cup T) <= n + k
<1>1. IsFiniteSet(S \cup T) /\ Cardinality(S \cup T) = Cardinality(S) + Cardinality(T) - Cardinality(S \cap T)
  BY FS_Union
<1>2. IsFiniteSet(S \cap T)
  BY FS_Subset
<1>3. /\ Cardinality(S) \in Nat /\ Cardinality(T) \in Nat /\ Cardinality(S \cap T) \in Nat
      /\ Cardinality(S \cup T) \in Nat
  BY <1>1, <1>2, FS_CardinalityType
<1> QED BY <1>1, <1>3

IdsOf(m) == {m[i].id : i \in 1 .. Len(m)}
BucketsHeld == {req[r].bucket : r \in Req}

(* One list names at most MaxEntries buckets.                              *)
LEMMA ListBounded ==
  ASSUME NEW m \in Seq(Entry), Len(m) <= MaxEntries
  PROVE  IsFiniteSet(IdsOf(m)) /\ Cardinality(IdsOf(m)) <= MaxEntries
<1> DEFINE f == [i \in 1 .. Len(m) |-> m[i].id]
<1>1. Len(m) \in Nat /\ MaxEntries \in Nat
  BY Sizes
<1>2. IsFiniteSet(1 .. Len(m)) /\ Cardinality(1 .. Len(m)) = Len(m)
  <2>1. PICK c \in Nat : c = Len(m)
    BY <1>1
  <2>2. IsFiniteSet(1 .. c) /\ Cardinality(1 .. c) = IF 1 > c THEN 0 ELSE c - 1 + 1
    <3>1. 1 \in Int /\ c \in Int
      OBVIOUS
    <3> QED BY ONLY <3>1, FS_Interval
  <2> QED BY <2>1, <2>2
<1>3. IdsOf(m) = {f[i] : i \in 1 .. Len(m)} /\ DOMAIN f = 1 .. Len(m)
  BY DEF IdsOf
<1> HIDE DEF f
<1>4. IsFiniteSet(IdsOf(m)) /\ Cardinality(IdsOf(m)) \in Nat /\ Cardinality(IdsOf(m)) <= Len(m)
  BY <1>2, <1>3, ImageBounded
<1> QED BY <1>1, <1>4

(* A miss finds a name for its bucket.                                     *)
LEMMA NewIdFree ==
  ASSUME \A m \in Maps : maps[m] \in Seq(Entry) /\ Len(maps[m]) <= MaxEntries
  PROVE  NewId \in Ids /\ NewId \notin InUse
<1> DEFINE A == IdsOf(maps["request"])
           B == IdsOf(maps["notFound"])
           C == IdsOf(maps["auth"])
           k == MaxEntries
           n == Cardinality(Req)
<1>1. k \in Nat /\ n \in Nat /\ IsFiniteSet(Req)
  BY Sizes, FS_CardinalityType
<1>2. InUse = ((A \cup B) \cup C) \cup BucketsHeld
  <2>1. \A m \in Maps : ToSet(maps[m]) = {maps[m][i] : i \in 1 .. Len(maps[m])}
    BY DEF ToSet
  <2>2. UNION {ToSet(maps[m]) : m \in Maps} =
          ToSet(maps["request"]) \cup ToSet(maps["notFound"]) \cup ToSet(maps["auth"])
    BY Zenon DEF Maps
  <2>3. \A x : (\E e \in UNION {ToSet(maps[m]) : m \in Maps} : x = e.id) <=> x \in (A \cup B) \cup C
    BY <2>1, <2>2 DEF Maps, IdsOf
  <2> QED BY <2>3, Zenon DEF InUse, Referenced, BucketsHeld
<1>3. /\ IsFiniteSet(A) /\ Cardinality(A) <= k /\ IsFiniteSet(B) /\ Cardinality(B) <= k
      /\ IsFiniteSet(C) /\ Cardinality(C) <= k
  BY ListBounded DEF Maps
<1>4. IsFiniteSet(BucketsHeld) /\ Cardinality(BucketsHeld) <= n
  <2> DEFINE f == [r \in Req |-> req[r].bucket]
  <2>1. BucketsHeld = {f[r] : r \in Req} /\ DOMAIN f = Req
    BY DEF BucketsHeld
  <2> HIDE DEF f
  <2> QED BY <1>1, <2>1, ImageBounded
<1> HIDE DEF A, B, C, k, n
<1>5. IsFiniteSet(A \cup B) /\ Cardinality(A \cup B) <= k + k
  BY <1>1, <1>3, UnionBounded
<1>6. IsFiniteSet((A \cup B) \cup C) /\ Cardinality((A \cup B) \cup C) <= (k + k) + k
  <2>1. k + k \in Nat
    BY <1>1
  <2> QED BY <1>1, <1>3, <1>5, <2>1, UnionBounded
<1>7. IsFiniteSet(InUse) /\ Cardinality(InUse) <= ((k + k) + k) + n
  <2>1. (k + k) + k \in Nat
    BY <1>1
  <2> QED BY <1>1, <1>2, <1>4, <1>6, <2>1, UnionBounded
<1>8. Ids = 1 .. (3 * k + n + 1)
  BY DEF Ids, k, n
<1>9. ~(Ids \subseteq InUse)
  <2> SUFFICES ASSUME Ids \subseteq InUse PROVE FALSE
    OBVIOUS
  <2>1. Cardinality(Ids) <= Cardinality(InUse)
    BY <1>7, FS_Subset
  <2>2. Cardinality(Ids) = 3 * k + n + 1
    <3>1. PICK c \in Nat : c = 3 * k + n + 1 /\ c >= 1
      BY <1>1
    <3>2. Cardinality(1 .. c) = IF 1 > c THEN 0 ELSE c - 1 + 1
      BY <3>1, FS_Interval
    <3> QED BY <1>8, <3>1, <3>2
  <2>3. Cardinality(InUse) \in Nat
    BY <1>7, FS_CardinalityType
  <2> QED BY <1>1, <1>7, <2>1, <2>2, <2>3
<1> DEFINE S == Ids \ InUse
<1>10. S # {} /\ S \subseteq Nat
  BY <1>1, <1>8, <1>9
<1>11. PICK i \in S : \A j \in S : i <= j
  BY <1>10, LeastExists
<1>12. \E j \in Ids : j \notin InUse /\ \A l \in Ids : l \notin InUse => j <= l
  BY <1>11
<1> QED BY <1>12 DEF NewId

-----------------------------------------------------------------------------
(* The invariant.                                                          *)

Place == {"none", "global", "perIP", "perIPCharge", "notFound", "notFoundCharge", "tarpit", "auth",
          "reject", "rejectCharge", "dispatch", "heavy", "revoked", "done"}
Code == {"", "200", "201", "204", "401", "403", "404", "429", "429auth", "500"}
Rejected == {"401", "429auth"}
Charging == {"perIPCharge", "notFoundCharge", "rejectCharge"}

ReqState ==
  [pc : Place, from : Client \cup {""}, ip : Client \cup {""},
   op : {"", "found", "missing", "stats", "create", "revoke"},
   cred : Token \cup {"", "wrong"}, target : Token \cup {""}, bucket : Ids \cup {0}, since : Nat,
   closes : Nat, stale : BOOLEAN, valid : BOOLEAN, storeFailed : BOOLEAN, answer : Code]

TokenRow ==
  [state : {"absent", "active", "revoked"}, role : Role \cup {"", "admin"},
   known : BOOLEAN, answered : BOOLEAN]

Addressed(q) == q.pc # "none" => q.ip = q.from /\ q.from \in Client

(* A request about to be charged holds a bucket, and one about to answer a *)
(* revocation has done it.                                                 *)
Underway(q, toks) ==
  /\ q.pc \in Charging => q.bucket \in Ids
  /\ q.op = "revoke" => q.target \in Token
  /\ q.pc = "revoked" => q.target \in Token /\ toks[q.target].state = "revoked"

(* A request that began after its token's 204 still carries that token     *)
(* until it is turned away.                                                *)
StaleFits(q, toks) ==
  q.stale => /\ q.pc \in {"auth", "reject", "rejectCharge", "done"}
             /\ q.pc # "done" => q.cred \in Token /\ toks[q.cred].state = "revoked"
             /\ q.answer \in Rejected \cup {""}

(* One whose token was active when it began and was not revoked since is   *)
(* never on the way to a rejection, unless the store failed.               *)
ValidFits(q, toks) ==
  q.valid => /\ q.pc # "done" => q.cred \in Token /\ toks[q.cred].state = "active"
             /\ ~q.storeFailed => q.pc \notin {"reject", "rejectCharge"} /\ q.answer \notin Rejected

ReqFits(q, toks) ==
  q \in ReqState /\ Addressed(q) /\ Underway(q, toks) /\ StaleFits(q, toks) /\ ValidFits(q, toks)

Tokens(toks) ==
  /\ toks \in [Token -> TokenRow]
  /\ \A t \in Token : toks[t].answered => toks[t].state = "revoked"

Lists(ms, at) ==
  /\ ms \in [Maps -> Seq(Entry)]
  /\ \A m \in Maps : MapFits(ms[m], at) /\ Len(ms[m]) <= MaxEntries

Budgets ==
  /\ now \in 0 .. MaxTime
  /\ heap \in [Ids -> Bucket(Burst)]
  /\ Lists(maps, now)

Requests ==
  /\ Tokens(tokens)
  /\ req \in [Req -> ReqState]
  /\ \A r \in Req : ReqFits(req[r], tokens)

Limits == acceptor \in {"sem", "accept"} /\ slots \in Nat /\ heavy \in Nat /\ ConnLimit /\ HeavyExact

GateIInv == Budgets /\ Requests /\ Limits

-----------------------------------------------------------------------------
(* One request moves on.                                                   *)

Answered(q, code) ==
  [q EXCEPT !.pc = "done", !.answer = code, !.bucket = 0, !.since = 0,
            !.op = "", !.cred = "", !.target = ""]

(* What a step on one request keeps of it. *)
SameConn(q, k) == k.pc # "none" /\ k.closes = q.closes

(* An answer fits if it is not one that the request must not get.          *)
LEMMA AnswerFits ==
  ASSUME NEW toks, NEW q, ReqFits(q, toks), q.pc # "none", NEW code \in Code,
         q.stale => code \in Rejected,
         q.valid /\ ~q.storeFailed => code \notin Rejected
  PROVE  /\ ReqFits(Answered(q, code), toks) /\ SameConn(q, Answered(q, code))
         /\ Answered(q, code).pc = "done"
<1> DEFINE k == Answered(q, code)
<1>0. q \in ReqState
  BY DEF ReqFits
<1>1. k \in ReqState
  BY ZenonT(30), <1>0 DEF ReqState, Answered, Place
<1>2. /\ k.pc = "done" /\ k.answer = code /\ k.op = "" /\ k.closes = q.closes
      /\ k.ip = q.ip /\ k.from = q.from
      /\ k.stale = q.stale /\ k.valid = q.valid /\ k.storeFailed = q.storeFailed
  BY <1>0 DEF ReqState, Answered
<1> HIDE DEF k
<1>3. Addressed(k) /\ Underway(k, toks) /\ SameConn(q, k)
  BY <1>2 DEF ReqFits, Addressed, Underway, SameConn, Charging
<1>4. StaleFits(k, toks)
  BY <1>2 DEF StaleFits
<1>5. ValidFits(k, toks)
  BY <1>2 DEF ValidFits
<1> QED BY <1>1, <1>2, <1>3, <1>4, <1>5 DEF ReqFits, k

(* A request that is not being authenticated goes to another such place.   *)
LEMMA GotoFits ==
  ASSUME NEW toks, NEW q, ReqFits(q, toks), q.pc # "none", ~q.stale,
         NEW p \in Place \ {"none", "reject", "rejectCharge", "revoked", "done"},
         NEW b \in Ids \cup {0}, p \in Charging => b \in Ids, q.pc # "done",
         NEW s \in Nat
  PROVE  /\ ReqFits([q EXCEPT !.pc = p, !.bucket = b, !.since = s], toks)
         /\ SameConn(q, [q EXCEPT !.pc = p, !.bucket = b, !.since = s])
<1> DEFINE k == [q EXCEPT !.pc = p, !.bucket = b, !.since = s]
<1>0. q \in ReqState
  BY DEF ReqFits
<1>1. k \in ReqState
  BY <1>0 DEF ReqState
<1>2. /\ k.pc = p /\ k.answer = q.answer /\ k.op = q.op /\ k.closes = q.closes
      /\ k.ip = q.ip /\ k.from = q.from /\ k.bucket = b /\ k.cred = q.cred /\ k.target = q.target
      /\ k.stale = q.stale /\ k.valid = q.valid /\ k.storeFailed = q.storeFailed
  BY <1>0 DEF ReqState
<1> HIDE DEF k
<1>3. Addressed(k) /\ Underway(k, toks) /\ SameConn(q, k)
  BY <1>2 DEF ReqFits, Addressed, Underway, SameConn, Charging
<1>4. StaleFits(k, toks)
  BY <1>2 DEF StaleFits
<1>5. ValidFits(k, toks)
  BY <1>2 DEF ReqFits, ValidFits
<1> QED BY <1>1, <1>2, <1>3, <1>4, <1>5 DEF ReqFits, k

(* A request on its way to a rejection, which a valid one takes only after *)
(* the store failed.                                                       *)
LEMMA RejectFits ==
  ASSUME NEW toks, NEW q, ReqFits(q, toks), q.pc \in {"auth", "reject"},
         NEW p \in {"reject", "rejectCharge"}, NEW failed \in BOOLEAN,
         q.storeFailed => failed, q.valid => failed,
         NEW b \in Ids \cup {0}, p \in Charging => b \in Ids, NEW s \in Nat
  PROVE  /\ ReqFits([q EXCEPT !.pc = p, !.bucket = b, !.since = s, !.storeFailed = failed], toks)
         /\ SameConn(q, [q EXCEPT !.pc = p, !.bucket = b, !.since = s, !.storeFailed = failed])
<1> DEFINE k == [q EXCEPT !.pc = p, !.bucket = b, !.since = s, !.storeFailed = failed]
<1>0. q \in ReqState
  BY DEF ReqFits
<1>1. k \in ReqState
  BY <1>0 DEF ReqState, Place
<1>2. /\ k.pc = p /\ k.answer = q.answer /\ k.op = q.op /\ k.closes = q.closes
      /\ k.ip = q.ip /\ k.from = q.from /\ k.bucket = b /\ k.cred = q.cred /\ k.target = q.target
      /\ k.stale = q.stale /\ k.valid = q.valid /\ k.storeFailed = failed
  BY <1>0 DEF ReqState
<1> HIDE DEF k
<1>3. Addressed(k) /\ Underway(k, toks) /\ SameConn(q, k)
  BY <1>2 DEF ReqFits, Addressed, Underway, SameConn, Charging
<1>4. StaleFits(k, toks)
  BY <1>2 DEF ReqFits, StaleFits
<1>5. ValidFits(k, toks)
  BY <1>2 DEF ReqFits, ValidFits
<1> QED BY <1>1, <1>2, <1>3, <1>4, <1>5 DEF ReqFits, k

-----------------------------------------------------------------------------
(* One request moves, the rest of the state follows.                       *)

MovesTo(r, k) == req' = [req EXCEPT ![r] = k]

Opened(rq) == {r \in Req : rq[r].pc # "none" /\ rq[r].closes = 0}
Busy(rq) == {r \in Req : rq[r].pc = "heavy"}

(* The requests and the token rows, when the other requests bear the new   *)
(* rows.                                                                   *)
LEMMA RequestsMove ==
  ASSUME Requests, NEW r \in Req, NEW k, MovesTo(r, k), Tokens(tokens'), ReqFits(k, tokens'),
         \A q \in Req \ {r} : ReqFits(req[q], tokens) => ReqFits(req[q], tokens')
  PROVE  Requests'
<1>1. k \in ReqState /\ req \in [Req -> ReqState] /\ \A q \in Req : ReqFits(req[q], tokens)
  BY DEF Requests, ReqFits
<1>2. req' \in [Req -> ReqState] /\ req'[r] = k /\ \A q \in Req \ {r} : req'[q] = req[q]
  BY <1>1 DEF MovesTo
<1>3. \A q \in Req : ReqFits(req'[q], tokens')
  BY <1>1, <1>2
<1> QED BY <1>2, <1>3 DEF Requests

(* The number of members after one came or went.                           *)
LEMMA Recount ==
  ASSUME NEW S, IsFiniteSet(S), NEW x
  PROVE  /\ Cardinality(S) \in Nat /\ (x \in S => Cardinality(S) # 0)
         /\ x \notin S => Cardinality(S \cup {x}) = Cardinality(S) + 1
         /\ x \in S => Cardinality(S \ {x}) = Cardinality(S) - 1
<1>1. Cardinality(S) \in Nat
  BY FS_CardinalityType
<1>2. x \in S => Cardinality(S) # 0
  BY FS_EmptySet
<1> QED BY <1>1, <1>2, FS_AddElement, FS_RemoveElement

(* The two counted sets are finite.                                        *)
LEMMA CountedFinite ==
  ASSUME NEW rq
  PROVE  IsFiniteSet(Opened(rq)) /\ IsFiniteSet(Busy(rq))
BY Sizes, FS_Subset DEF Opened, Busy

(* The limits, in terms of the counted sets.                               *)
LEMMA LimitsCount ==
  Limits <=> /\ acceptor \in {"sem", "accept"} /\ slots \in Nat /\ heavy \in Nat
             /\ slots <= MaxConns /\ heavy <= MaxHeavy
             /\ slots = Cardinality(Opened(req)) + (IF acceptor = "accept" THEN 1 ELSE 0)
             /\ heavy = Cardinality(Busy(req))
BY DEF Limits, ConnLimit, HeavyExact, Opened, Busy, At

(* Neither count changes unless a connection or a heavy handler ends.      *)
LEMMA LimitsStay ==
  ASSUME Requests, Limits, UNCHANGED <<slots, acceptor, heavy>>,
         NEW r \in Req, NEW k, MovesTo(r, k), req[r].pc # "none", SameConn(req[r], k),
         req[r].pc = "heavy" <=> k.pc = "heavy"
  PROVE  Limits'
<1>1. req'[r] = k /\ \A q \in Req \ {r} : req'[q] = req[q]
  BY DEF Requests, MovesTo
<1>2. {q \in Req : req'[q].pc # "none" /\ req'[q].closes = 0} = {q \in Req : req[q].pc # "none" /\ req[q].closes = 0}
  BY <1>1 DEF SameConn
<1>3. {q \in Req : req'[q].pc = "heavy"} = {q \in Req : req[q].pc = "heavy"}
  BY <1>1
<1> QED BY <1>2, <1>3 DEF Limits, ConnLimit, HeavyExact, At

(* A step that only moves one request, and not in or out of a heavy        *)
(* handler.                                                                *)
LEMMA QuietMove ==
  ASSUME Requests, Limits, UNCHANGED <<slots, acceptor, heavy, tokens>>,
         NEW r \in Req, NEW k, MovesTo(r, k), req[r].pc # "none", SameConn(req[r], k),
         req[r].pc # "heavy", k.pc # "heavy", ReqFits(k, tokens)
  PROVE  Requests' /\ Limits'
<1>1. Limits'
  BY LimitsStay
<1>2. Requests'
  BY RequestsMove DEF Requests
<1> QED BY <1>1, <1>2

(* An answer is a move.                                                    *)
LEMMA AnswerMoves ==
  ASSUME Requests, NEW r \in Req, NEW code, req' = Answer(r, code)
  PROVE  MovesTo(r, Answered(req[r], code))
BY DEF Requests, Answer, Answered, MovesTo

(* A budget that is charged stays in its bounds.                           *)
LEMMA ChargeFits ==
  ASSUME Budgets, Requests, NEW r \in Req, req[r].pc \in Charging, Charge(r),
         UNCHANGED <<now, maps>>
  PROVE  Budgets'
<1>1. req[r].bucket \in Ids /\ heap \in [Ids -> Bucket(Burst)] /\ now \in Nat /\ Rate \in Nat /\ Burst \in Nat
  BY Sizes DEF Requests, ReqFits, Underway, Budgets
<1>2. AfterAllow(heap[req[r].bucket], now, Rate, Burst) \in Bucket(Burst)
  BY <1>1, AllowBounded
<1>3. heap' \in [Ids -> Bucket(Burst)]
  BY <1>1, <1>2 DEF Charge
<1> QED BY <1>3 DEF Budgets, Lists, MapFits, Ordered, NoneLater

(* A lookup keeps the lists in order and in bounds and gives the request a *)
(* bucket that exists, although others may evict its entry afterwards.     *)
LEMMA LookupFits ==
  ASSUME Budgets, Requests, NEW r \in Req, req[r].pc # "none", NEW m \in Maps, NEW next,
         Lookup(r, m, next), UNCHANGED now
  PROVE  /\ Budgets' /\ now \in Nat
         /\ \E b \in Ids : MovesTo(r, [req[r] EXCEPT !.pc = next, !.bucket = b, !.since = now])
<1> DEFINE key == req[r].ip
           after == getOrCreate(maps[m], key, NewId, now)
<1>1. key \in Client
  BY DEF Requests, ReqFits, Addressed
<1>2. now \in Nat /\ Burst \in Nat /\ maps \in [Maps -> Seq(Entry)]
      /\ \A l \in Maps : MapFits(maps[l], now) /\ Len(maps[l]) <= MaxEntries
  BY Sizes DEF Budgets, Lists
<1>3. NewId \in Ids
  BY <1>2, NewIdFree
<1>4. MapFits(after, now) /\ Len(after) <= MaxEntries /\ Head(after) \in Entry
  BY <1>1, <1>2, <1>3, GetOrCreateFits
<1>5. /\ maps' = [maps EXCEPT ![m] = after]
      /\ \A i \in Ids : heap'[i] \in {newTokenBucket(Burst, now), heap[i], Free}
      /\ heap' = [i \in Ids |-> heap'[i]]
      /\ req' = [req EXCEPT ![r].pc = next, ![r].bucket = Head(after).id, ![r].since = now]
  BY DEF Lookup
<1> HIDE DEF after
<1>6. Lists(maps', now)
  <2>1. after \in Seq(Entry)
    BY <1>4 DEF MapFits
  <2> QED BY <1>2, <1>4, <1>5, <2>1 DEF Lists
<1>7. heap' \in [Ids -> Bucket(Burst)]
  <2>1. newTokenBucket(Burst, now) \in Bucket(Burst) /\ Free \in Bucket(Burst)
    BY <1>2 DEF newTokenBucket, Free, Bucket
  <2>2. \A i \in Ids : heap[i] \in Bucket(Burst)
    BY DEF Budgets
  <2> QED BY <1>5, <2>1, <2>2
<1>8. Head(after).id \in Ids
  BY <1>4 DEF Entry
<1>9. MovesTo(r, [req[r] EXCEPT !.pc = next, !.bucket = Head(after).id, !.since = now])
  BY <1>5 DEF Requests, MovesTo
<1> QED BY <1>2, <1>6, <1>7, <1>8, <1>9 DEF Budgets

-----------------------------------------------------------------------------
(* The page handler: global budget, address budget, not-found budget.      *)

(* Answering a request that is not in a heavy handler, in a step that      *)
(* changes no token row.                                                   *)
LEMMA AnswerStep ==
  ASSUME Requests, Limits, UNCHANGED <<slots, acceptor, heavy, tokens>>,
         NEW r \in Req, req[r].pc \notin {"none", "heavy"}, NEW code \in Code, req' = Answer(r, code),
         req[r].stale => code \in Rejected,
         req[r].valid /\ ~req[r].storeFailed => code \notin Rejected
  PROVE  Requests' /\ Limits'
<1>1. ReqFits(req[r], tokens)
  BY DEF Requests
<1>2. MovesTo(r, Answered(req[r], code))
  BY AnswerMoves
<1>3. /\ ReqFits(Answered(req[r], code), tokens) /\ SameConn(req[r], Answered(req[r], code))
      /\ Answered(req[r], code).pc = "done"
  BY <1>1, AnswerFits
<1> QED BY <1>2, <1>3, QuietMove

(* Going on to another place of the page handler, with a bucket or without. *)
LEMMA GotoStep ==
  ASSUME Requests, Limits, UNCHANGED <<slots, acceptor, heavy, tokens>>,
         NEW r \in Req, req[r].pc \notin {"none", "heavy", "done"}, ~req[r].stale,
         NEW p \in Place \ {"none", "reject", "rejectCharge", "revoked", "done", "heavy"},
         NEW b \in Ids \cup {0}, p \in Charging => b \in Ids, NEW s \in Nat,
         MovesTo(r, [req[r] EXCEPT !.pc = p, !.bucket = b, !.since = s])
  PROVE  Requests' /\ Limits'
<1> DEFINE k == [req[r] EXCEPT !.pc = p, !.bucket = b, !.since = s]
<1>1. ReqFits(req[r], tokens) /\ req[r] \in ReqState
  BY DEF Requests, ReqFits
<1>2. ReqFits(k, tokens) /\ SameConn(req[r], k)
  BY <1>1, GotoFits
<1>3. k.pc # "heavy"
  BY <1>1 DEF ReqState
<1> QED BY <1>2, <1>3, QuietMove

(* A step that touches no budget.                                          *)
LEMMA BudgetsStay ==
  ASSUME Budgets, UNCHANGED <<now, heap, maps>>
  PROVE  Budgets'
BY DEF Budgets, Lists, MapFits, Ordered, NoneLater

(* The global rate limit.                                                  *)
LEMMA GlobalStep ==
  ASSUME GateIInv, NEW r \in Req, globalRateLimit(r)
  PROVE  GateIInv'
<1> USE DEF GateIInv
<1> DEFINE q == req[r]
<1>0. /\ q.pc = "global" /\ UNCHANGED <<now, heap, maps, heavy, tokens, slots, acceptor>>
      /\ req' = Goto(r, "perIP") \/ req' = Answer(r, "429")
  BY DEF globalRateLimit, At, listenerVars
<1>1. q \in ReqState /\ ~q.stale
  BY <1>0 DEF Requests, ReqFits, StaleFits
<1>2. CASE req' = Goto(r, "perIP")
  <2>1. MovesTo(r, [q EXCEPT !.pc = "perIP", !.bucket = q.bucket, !.since = q.since])
    BY <1>1, <1>2 DEF MovesTo, Goto, ReqState
  <2>2. q.bucket \in Ids \cup {0} /\ q.since \in Nat
    BY <1>1 DEF ReqState
  <2> QED BY <1>0, <1>1, <2>1, <2>2, GotoStep, BudgetsStay DEF Place, Charging
<1>3. CASE req' = Answer(r, "429")
  BY <1>0, <1>1, <1>3, AnswerStep, BudgetsStay DEF Code, Rejected
<1> QED BY <1>0, <1>2, <1>3

(* The per-address budget and the not-found budget: look up.               *)
LEMMA PageLookupStep ==
  ASSUME GateIInv, NEW r \in Req, allowRequestLookup(r) \/ notFoundLookup(r)
  PROVE  GateIInv'
<1> USE DEF GateIInv
<1>0. PICK m \in Maps, p \in {"perIPCharge", "notFoundCharge"} :
        /\ req[r].pc \in {"perIP", "notFound"} /\ Lookup(r, m, p)
        /\ UNCHANGED <<now, heavy, tokens, slots, acceptor>>
  BY DEF allowRequestLookup, notFoundLookup, At, listenerVars, Maps
<1>1. ReqFits(req[r], tokens) /\ ~req[r].stale
  BY <1>0 DEF Requests, ReqFits, StaleFits
<1>2. /\ Budgets' /\ now \in Nat
      /\ \E b \in Ids : MovesTo(r, [req[r] EXCEPT !.pc = p, !.bucket = b, !.since = now])
  BY <1>0, LookupFits
<1>3. PICK b \in Ids : MovesTo(r, [req[r] EXCEPT !.pc = p, !.bucket = b, !.since = now])
  BY <1>2
<1>4. p \in Place \ {"none", "reject", "rejectCharge", "revoked", "done", "heavy"}
  BY DEF Place
<1>5. Requests' /\ Limits'
  BY <1>0, <1>1, <1>2, <1>3, <1>4, GotoStep
<1> QED BY <1>2, <1>5

(* The same budgets: charge, and go on to the page, to notFound or to the  *)
(* tarpit.                                                                 *)
LEMMA PageChargeStep ==
  ASSUME GateIInv, NEW r \in Req, allowRequestCharge(r) \/ notFoundCharge(r)
  PROVE  GateIInv'
<1> USE DEF GateIInv
<1> DEFINE q == req[r]
<1>0. /\ q.pc \in {"perIPCharge", "notFoundCharge"} /\ Charge(r)
      /\ UNCHANGED <<now, maps, heavy, tokens, slots, acceptor>>
      /\ \/ \E code \in {"200", "404", "429"} : req' = Answer(r, code)
         \/ \E p \in {"notFound", "tarpit"} : req' = [Goto(r, p) EXCEPT ![r].bucket = 0]
  BY DEF allowRequestCharge, notFoundCharge, At, listenerVars
<1>1. ReqFits(q, tokens) /\ q \in ReqState /\ ~q.stale
  BY <1>0 DEF Requests, ReqFits, StaleFits
<1>2. Budgets'
  BY <1>0, ChargeFits DEF Charging
<1>3. ASSUME NEW code \in {"200", "404", "429"}, req' = Answer(r, code) PROVE Requests' /\ Limits'
  BY <1>0, <1>1, <1>3, AnswerStep DEF Code, Rejected
<1>4. ASSUME NEW p \in {"notFound", "tarpit"}, req' = [Goto(r, p) EXCEPT ![r].bucket = 0]
      PROVE  Requests' /\ Limits'
  <2>1. MovesTo(r, [q EXCEPT !.pc = p, !.bucket = 0, !.since = q.since])
    BY <1>1, <1>4 DEF MovesTo, Goto, ReqState, Requests
  <2>2. q.since \in Nat
    BY <1>1 DEF ReqState
  <2> QED BY <1>0, <1>1, <2>1, <2>2, GotoStep DEF Place, Charging
<1> QED BY <1>0, <1>2, <1>3, <1>4

(* After the tarpit.                                                       *)
LEMMA TarpitStep ==
  ASSUME GateIInv, NEW r \in Req, tarpitSleep(r)
  PROVE  GateIInv'
<1> USE DEF GateIInv
<1>0. req[r].pc = "tarpit" /\ req' = Answer(r, "404") /\ UNCHANGED <<now, heap, maps, heavy, tokens, slots, acceptor>>
  BY DEF tarpitSleep, At, listenerVars, budgetVars
<1>1. ~req[r].stale
  BY <1>0 DEF Requests, ReqFits, StaleFits
<1>2. Requests' /\ Limits'
  BY <1>0, <1>1, AnswerStep DEF Code, Rejected
<1> QED BY <1>0, <1>2, BudgetsStay

-----------------------------------------------------------------------------
(* Authentication.                                                         *)

(* authMiddleware: a stale token is not found, a valid one is, unless the  *)
(* store fails.                                                            *)
LEMMA AuthStep ==
  ASSUME GateIInv, NEW r \in Req, authMiddleware(r)
  PROVE  GateIInv'
<1> USE DEF GateIInv
<1> DEFINE q == req[r]
<1>0. /\ q.pc = "auth" /\ UNCHANGED <<now, heap, maps, heavy, tokens, slots, acceptor>>
      /\ \/ LookupActiveAPIToken(q.cred) /\ req' = Goto(r, "dispatch")
         \/ ~LookupActiveAPIToken(q.cred) /\ req' = Goto(r, "reject")
         \/ req' = [Goto(r, "reject") EXCEPT ![r].storeFailed = TRUE]
  BY DEF authMiddleware, At, listenerVars, budgetVars
<1>1. ReqFits(q, tokens) /\ q \in ReqState /\ q.bucket \in Ids \cup {0} /\ q.since \in Nat
  BY DEF Requests, ReqFits, ReqState
<1>2. q.stale => q.cred \in Token /\ tokens[q.cred].state = "revoked"
  BY <1>0, <1>1 DEF ReqFits, StaleFits
<1>3. q.valid => q.cred \in Token /\ tokens[q.cred].state = "active"
  BY <1>0, <1>1 DEF ReqFits, ValidFits
<1>4. CASE LookupActiveAPIToken(q.cred) /\ req' = Goto(r, "dispatch")
  <2>1. ~q.stale
    BY <1>2, <1>4 DEF LookupActiveAPIToken
  <2>2. MovesTo(r, [q EXCEPT !.pc = "dispatch", !.bucket = q.bucket, !.since = q.since])
    BY <1>1, <1>4 DEF MovesTo, Goto, ReqState
  <2> QED BY <1>0, <1>1, <2>1, <2>2, GotoStep, BudgetsStay DEF Place, Charging
<1>5. ASSUME NEW failed \in BOOLEAN, q.storeFailed => failed, q.valid => failed,
             MovesTo(r, [q EXCEPT !.pc = "reject", !.bucket = q.bucket, !.since = q.since,
                                  !.storeFailed = failed])
      PROVE  GateIInv'
  <2> DEFINE k == [q EXCEPT !.pc = "reject", !.bucket = q.bucket, !.since = q.since, !.storeFailed = failed]
  <2>1. ReqFits(k, tokens) /\ SameConn(q, k)
    BY <1>0, <1>1, <1>5, RejectFits DEF Charging
  <2>2. k.pc # "heavy"
    BY <1>1 DEF ReqState
  <2> QED BY <1>0, <1>5, <2>1, <2>2, QuietMove, BudgetsStay
<1>6. CASE ~LookupActiveAPIToken(q.cred) /\ req' = Goto(r, "reject")
  <2>1. PICK failed \in BOOLEAN : failed = q.storeFailed
    BY <1>1 DEF ReqState
  <2>2. MovesTo(r, [q EXCEPT !.pc = "reject", !.bucket = q.bucket, !.since = q.since, !.storeFailed = failed])
    BY <1>1, <1>6, <2>1 DEF MovesTo, Goto, ReqState
  <2>3. ~q.valid
    BY <1>3, <1>6 DEF LookupActiveAPIToken
  <2> QED BY <1>5, <2>1, <2>2, <2>3
<1>7. CASE req' = [Goto(r, "reject") EXCEPT ![r].storeFailed = TRUE]
  <2>1. MovesTo(r, [q EXCEPT !.pc = "reject", !.bucket = q.bucket, !.since = q.since, !.storeFailed = TRUE])
    BY <1>1, <1>7 DEF MovesTo, Goto, ReqState, Requests
  <2> QED BY <1>5, <2>1
<1> QED BY <1>0, <1>4, <1>6, <1>7

(* rejectAuth: the failure budget of the address is looked up.             *)
LEMMA RejectLookupStep ==
  ASSUME GateIInv, NEW r \in Req, rejectAuthLookup(r)
  PROVE  GateIInv'
<1> USE DEF GateIInv
<1> DEFINE q == req[r]
<1>0. /\ q.pc = "reject" /\ Lookup(r, "auth", "rejectCharge")
      /\ UNCHANGED <<now, heavy, tokens, slots, acceptor>>
  BY DEF rejectAuthLookup, At, listenerVars
<1>1. ReqFits(q, tokens) /\ q \in ReqState
  BY DEF Requests, ReqFits
<1>2. /\ Budgets' /\ now \in Nat
      /\ \E b \in Ids : MovesTo(r, [q EXCEPT !.pc = "rejectCharge", !.bucket = b, !.since = now])
  BY <1>0, LookupFits DEF Maps
<1>3. PICK b \in Ids : MovesTo(r, [q EXCEPT !.pc = "rejectCharge", !.bucket = b, !.since = now])
  BY <1>2
<1>4. PICK failed \in BOOLEAN : failed = q.storeFailed
  BY <1>1 DEF ReqState
<1> DEFINE k == [q EXCEPT !.pc = "rejectCharge", !.bucket = b, !.since = now, !.storeFailed = failed]
<1>5. MovesTo(r, k)
  BY <1>1, <1>3, <1>4 DEF MovesTo, ReqState
<1>6. q.valid => failed
  BY <1>0, <1>1, <1>4 DEF ReqFits, ValidFits
<1>7. ReqFits(k, tokens) /\ SameConn(q, k)
  BY <1>0, <1>1, <1>2, <1>4, <1>6, RejectFits
<1>8. k.pc # "heavy"
  BY <1>1 DEF ReqState
<1> QED BY <1>0, <1>2, <1>5, <1>7, <1>8, QuietMove

(* rejectAuth: the budget is charged and the request turned away.          *)
LEMMA RejectChargeStep ==
  ASSUME GateIInv, NEW r \in Req, rejectAuthCharge(r)
  PROVE  GateIInv'
<1> USE DEF GateIInv
<1>0. PICK code \in Rejected :
        /\ req[r].pc = "rejectCharge" /\ Charge(r) /\ req' = Answer(r, code)
        /\ UNCHANGED <<now, maps, heavy, tokens, slots, acceptor>>
  BY DEF rejectAuthCharge, At, listenerVars, Rejected
<1>1. ~(req[r].valid /\ ~req[r].storeFailed)
  BY <1>0 DEF Requests, ReqFits, ValidFits
<1>2. Budgets'
  BY <1>0, ChargeFits DEF Charging
<1>3. code \in Code
  BY DEF Code, Rejected
<1> QED BY <1>0, <1>1, <1>2, <1>3, AnswerStep

-----------------------------------------------------------------------------
(* Heavy requests and the administration of tokens.                        *)

(* heavyLimitMiddleware takes a slot or answers 429.                       *)
LEMMA HeavyBeginStep ==
  ASSUME GateIInv, NEW r \in Req, HeavyBegin(r)
  PROVE  GateIInv'
<1> USE DEF GateIInv
<1> DEFINE q == req[r]
<1>0. /\ q.pc = "dispatch" /\ UNCHANGED <<now, heap, maps, tokens, slots, acceptor>>
      /\ \/ heavy < MaxHeavy /\ heavy' = heavy + 1 /\ req' = Goto(r, "heavy")
         \/ heavy' = heavy /\ req' = Answer(r, "429")
  BY DEF HeavyBegin, At, listenerVars, budgetVars
<1>1. ReqFits(q, tokens) /\ q \in ReqState /\ ~q.stale /\ q.bucket \in Ids \cup {0} /\ q.since \in Nat
  BY <1>0 DEF Requests, ReqFits, StaleFits, ReqState
<1>2. CASE heavy' = heavy /\ req' = Answer(r, "429")
  BY <1>0, <1>1, <1>2, AnswerStep, BudgetsStay DEF Code, Rejected
<1>3. CASE heavy < MaxHeavy /\ heavy' = heavy + 1 /\ req' = Goto(r, "heavy")
  <2> DEFINE k == [q EXCEPT !.pc = "heavy", !.bucket = q.bucket, !.since = q.since]
  <2>1. MovesTo(r, k) /\ k.pc = "heavy"
    BY <1>1, <1>3 DEF MovesTo, Goto, ReqState
  <2>2. ReqFits(k, tokens) /\ SameConn(q, k)
    BY <1>0, <1>1, GotoFits DEF Place, Charging
  <2>3. Requests'
    BY <1>0, <2>1, <2>2, RequestsMove DEF Requests
  <2>4. req'[r] = k /\ \A p \in Req \ {r} : req'[p] = req[p]
    BY <2>1 DEF Requests, MovesTo
  <2> HIDE DEF k
  <2>5. Opened(req') = Opened(req) /\ Busy(req') = Busy(req) \cup {r} /\ r \notin Busy(req)
    BY <1>0, <2>1, <2>2, <2>4 DEF Opened, Busy, SameConn
  <2>6. Cardinality(Busy(req')) = Cardinality(Busy(req)) + 1
    BY <2>5, CountedFinite, Recount
  <2>7. Limits'
    <3>1. /\ slots = Cardinality(Opened(req')) + (IF acceptor = "accept" THEN 1 ELSE 0)
          /\ heavy' = Cardinality(Busy(req')) /\ heavy' <= MaxHeavy /\ heavy' \in Nat
      BY <1>3, <2>5, <2>6, LimitsCount, Sizes
    <3>2. acceptor' = acceptor /\ slots' = slots
      BY <1>0
    <3> QED BY <3>1, <3>2, LimitsCount DEF Limits, ConnLimit, HeavyExact, Opened, Busy, At
  <2> QED BY <1>0, <2>3, <2>7, BudgetsStay
<1> QED BY <1>0, <1>2, <1>3

(* The deferred release gives the slot back, however the handler ends.     *)
LEMMA HeavyEndStep ==
  ASSUME GateIInv, NEW r \in Req, HeavyEnd(r)
  PROVE  GateIInv'
<1> USE DEF GateIInv
<1> DEFINE q == req[r]
<1>0. PICK code \in {"200", "403", "500"} :
        /\ q.pc = "heavy" /\ UNCHANGED <<now, heap, maps, tokens, slots, acceptor>>
        /\ heavy' = heavy - 1 /\ req' = Answer(r, code)
  BY DEF HeavyEnd, At, listenerVars, budgetVars
<1>1. ReqFits(q, tokens) /\ ~q.stale
  BY <1>0 DEF Requests, ReqFits, StaleFits
<1> DEFINE k == Answered(q, code)
<1>2. MovesTo(r, k)
  BY <1>0, AnswerMoves
<1>3. ReqFits(k, tokens) /\ SameConn(q, k) /\ k.pc = "done"
  BY ZenonT(30), <1>0, <1>1, AnswerFits DEF Code, Rejected
<1>4. Requests'
  BY <1>0, <1>2, <1>3, RequestsMove DEF Requests
<1>5. req'[r] = k /\ \A p \in Req \ {r} : req'[p] = req[p]
  BY <1>2 DEF Requests, MovesTo
<1> HIDE DEF k
<1>6. Opened(req') = Opened(req) /\ Busy(req') = Busy(req) \ {r} /\ r \in Busy(req)
  BY <1>0, <1>3, <1>5 DEF Opened, Busy, SameConn
<1>7. Cardinality(Busy(req')) = Cardinality(Busy(req)) - 1 /\ Cardinality(Busy(req)) # 0
  BY <1>6, CountedFinite, Recount
<1>8. Limits'
  <2>1. /\ slots = Cardinality(Opened(req')) + (IF acceptor = "accept" THEN 1 ELSE 0)
        /\ heavy' = Cardinality(Busy(req')) /\ heavy' <= MaxHeavy /\ heavy' \in Nat
    BY <1>0, <1>6, <1>7, LimitsCount, Sizes
  <2>2. acceptor' = acceptor /\ slots' = slots
    BY <1>0
  <2> QED BY <2>1, <2>2, LimitsCount DEF Limits, ConnLimit, HeavyExact, Opened, Busy, At
<1> QED BY <1>0, <1>4, <1>8, BudgetsStay

(* A row that is active or revoked keeps every request it was good for.    *)
LEMMA RowsKeep ==
  ASSUME NEW toks, NEW toks2, NEW q, ReqFits(q, toks),
         \A t \in Token : toks[t].state \in {"active", "revoked"} => toks2[t].state = toks[t].state
  PROVE  ReqFits(q, toks2)
<1>1. Underway(q, toks2)
  BY DEF ReqFits, Underway
<1>2. StaleFits(q, toks2)
  BY DEF ReqFits, StaleFits
<1>3. ValidFits(q, toks2)
  BY DEF ReqFits, ValidFits
<1> QED BY <1>1, <1>2, <1>3 DEF ReqFits

(* A request for the administration of tokens, or one that was turned away *)
(* from it, is answered.                                                   *)
LEMMA AdminAnswer ==
  ASSUME Requests, Limits, UNCHANGED <<slots, acceptor, heavy>>, Tokens(tokens'),
         \A t \in Token : tokens[t].state \in {"active", "revoked"} => tokens'[t].state = tokens[t].state,
         NEW r \in Req, req[r].pc \in {"dispatch", "revoked"}, NEW code \in Code \ Rejected,
         req' = Answer(r, code)
  PROVE  Requests' /\ Limits'
<1> DEFINE q == req[r]
           k == Answered(q, code)
<1>1. ReqFits(q, tokens) /\ ~q.stale
  BY DEF Requests, ReqFits, StaleFits
<1>2. MovesTo(r, k)
  BY AnswerMoves
<1>3. ReqFits(k, tokens) /\ SameConn(q, k) /\ k.pc = "done"
  BY <1>1, AnswerFits
<1> HIDE DEF k
<1>4. ReqFits(k, tokens') /\ \A p \in Req : ReqFits(req[p], tokens) => ReqFits(req[p], tokens')
  BY <1>3, RowsKeep
<1>5. Requests'
  BY <1>2, <1>4, RequestsMove
<1>6. Limits'
  BY <1>2, <1>3, LimitsStay
<1> QED BY <1>5, <1>6

(* createAPIToken gives out a row that was free.                           *)
LEMMA CreateStep ==
  ASSUME GateIInv, NEW r \in Req, createAPIToken(r)
  PROVE  GateIInv'
<1> USE DEF GateIInv
<1>0. /\ req[r].pc = "dispatch" /\ UNCHANGED <<now, heap, maps, heavy, slots, acceptor>>
      /\ \/ \E t \in Token, role \in Role, known \in BOOLEAN, code \in {"201", "500"} :
              /\ tokens[t].state = "absent" /\ tokens' = [tokens EXCEPT ![t] = NewToken(role, known)]
              /\ req' = Answer(r, code)
         \/ \E code \in {"500", "403"} : req' = Answer(r, code) /\ tokens' = tokens
  BY DEF createAPIToken, At, listenerVars, budgetVars
<1>1. ASSUME NEW t \in Token, NEW role \in Role, NEW known \in BOOLEAN, NEW code \in {"201", "500"},
             tokens[t].state = "absent", tokens' = [tokens EXCEPT ![t] = NewToken(role, known)],
             req' = Answer(r, code)
      PROVE  Requests' /\ Limits'
  <2>1. tokens \in [Token -> TokenRow] /\ \A u \in Token : tokens[u].answered => tokens[u].state = "revoked"
    BY DEF Requests, Tokens
  <2>2. /\ NewToken(role, known) \in TokenRow /\ NewToken(role, known).answered = FALSE
    BY DEF NewToken, TokenRow
  <2>3. /\ tokens' \in [Token -> TokenRow] /\ tokens'[t] = NewToken(role, known)
        /\ \A u \in Token \ {t} : tokens'[u] = tokens[u]
    BY <1>1, <2>1, <2>2
  <2>4. Tokens(tokens')
    BY <2>1, <2>2, <2>3 DEF Tokens
  <2>5. \A u \in Token : tokens[u].state \in {"active", "revoked"} => tokens'[u].state = tokens[u].state
    BY <1>1, <2>3
  <2> QED BY <1>0, <1>1, <2>4, <2>5, AdminAnswer DEF Code, Rejected
<1>2. ASSUME NEW code \in {"500", "403"}, req' = Answer(r, code), tokens' = tokens
      PROVE  Requests' /\ Limits'
  <2>1. Tokens(tokens')
    BY <1>2 DEF Requests
  <2> QED BY <1>0, <1>2, <2>1, AdminAnswer DEF Code, Rejected
<1> QED BY <1>0, <1>1, <1>2, BudgetsStay

(* revokeAPIToken writes its 204.                                          *)
LEMMA RevokeAnswerStep ==
  ASSUME GateIInv, NEW r \in Req, revokeAPITokenAnswer(r)
  PROVE  GateIInv'
<1> USE DEF GateIInv
<1> DEFINE t == req[r].target
<1>0. /\ req[r].pc = "revoked" /\ UNCHANGED <<now, heap, maps, heavy, slots, acceptor>>
      /\ tokens' = [tokens EXCEPT ![t].answered = TRUE] /\ req' = Answer(r, "204")
  BY DEF revokeAPITokenAnswer, At, listenerVars, budgetVars
<1>1. t \in Token /\ tokens[t].state = "revoked"
  BY <1>0 DEF Requests, ReqFits, Underway
<1>2. tokens \in [Token -> TokenRow] /\ \A u \in Token : tokens[u].answered => tokens[u].state = "revoked"
  BY DEF Requests, Tokens
<1> DEFINE row == [tokens[t] EXCEPT !.answered = TRUE]
<1>3. row \in TokenRow /\ row.state = "revoked"
  BY <1>1, <1>2 DEF TokenRow
<1>4. tokens' = [tokens EXCEPT ![t] = row]
  BY <1>0
<1> HIDE DEF t, row
<1>5. /\ tokens' \in [Token -> TokenRow] /\ tokens'[t] = row
      /\ \A u \in Token \ {t} : tokens'[u] = tokens[u]
  BY <1>1, <1>2, <1>3, <1>4
<1>6. Tokens(tokens')
  BY <1>2, <1>3, <1>5 DEF Tokens
<1>7. \A u \in Token : tokens[u].state \in {"active", "revoked"} => tokens'[u].state = tokens[u].state
  BY <1>1, <1>3, <1>5
<1> QED BY <1>0, <1>6, <1>7, AdminAnswer, BudgetsStay DEF Code, Rejected

(* What a revocation changes in a request is where it is and whether it    *)
(* counts as valid.                                                        *)
SameButValid(q, k) ==
  /\ k \in ReqState /\ k.closes = q.closes /\ k.bucket = q.bucket /\ k.answer = q.answer
  /\ k.ip = q.ip /\ k.from = q.from /\ k.op = q.op /\ k.cred = q.cred /\ k.target = q.target
  /\ k.stale <=> q.stale
  /\ k.storeFailed <=> q.storeFailed
  /\ k.valid => q.valid

(* A request fits the revocation of t: it stays where it is, or waits to   *)
(* be answered, and counts as valid no more if it carries t.               *)
LEMMA RevokedFits ==
  ASSUME NEW toks \in [Token -> TokenRow], NEW toks2, NEW t \in Token,
         toks2 = [toks EXCEPT ![t].state = "revoked"],
         NEW q, ReqFits(q, toks), NEW k, SameButValid(q, k), k.valid => q.cred # t,
         k.pc = q.pc \/ (k.pc = "revoked" /\ q.pc = "dispatch" /\ q.target = t)
  PROVE  ReqFits(k, toks2)
<1>1. /\ toks2[t].state = "revoked"
      /\ \A u \in Token \ {t} : toks2[u].state = toks[u].state
  BY DEF TokenRow
<1>2. Addressed(k)
  BY DEF ReqFits, Addressed, SameButValid
<1>3. Underway(k, toks2)
  BY <1>1 DEF ReqFits, Underway, Charging, SameButValid
<1>4. StaleFits(k, toks2)
  BY <1>1 DEF ReqFits, StaleFits, SameButValid
<1>5. ValidFits(k, toks2)
  BY <1>1 DEF ReqFits, ValidFits, SameButValid
<1> QED BY <1>2, <1>3, <1>4, <1>5 DEF ReqFits, SameButValid

(* revokeAPIToken updates the row; every request that carries the token    *)
(* and is not past authentication will be turned away.                     *)
LEMMA RevokeStep ==
  ASSUME GateIInv, NEW r \in Req, revokeAPIToken(r)
  PROVE  GateIInv'
<1> USE DEF GateIInv
<1> DEFINE t == req[r].target
           Rest == [q \in Req |-> IF q = r THEN [req[q] EXCEPT !.pc = "revoked", !.valid = @ /\ req[q].cred # t]
                                  ELSE [req[q] EXCEPT !.valid = @ /\ req[q].cred # t]]
<1>0. /\ req[r].pc = "dispatch" /\ req[r].op = "revoke" /\ UNCHANGED <<now, heap, maps, heavy, slots, acceptor>>
      /\ \/ tokens' = [tokens EXCEPT ![t].state = "revoked"] /\ req' = Rest
         \/ \E code \in {"403", "404", "500"} : req' = Answer(r, code) /\ tokens' = tokens
  BY DEF revokeAPIToken, At, listenerVars, budgetVars
<1>1. tokens \in [Token -> TokenRow] /\ \A u \in Token : tokens[u].answered => tokens[u].state = "revoked"
  BY DEF Requests, Tokens
<1>2. t \in Token
  BY <1>0 DEF Requests, ReqFits, Underway
<1>3. ASSUME NEW code \in {"403", "404", "500"}, req' = Answer(r, code), tokens' = tokens
      PROVE  Requests' /\ Limits'
  <2>1. Tokens(tokens')
    BY <1>3 DEF Requests
  <2> QED BY <1>0, <1>3, <2>1, AdminAnswer DEF Code, Rejected
<1>4. CASE tokens' = [tokens EXCEPT ![t].state = "revoked"] /\ req' = Rest
  <2> DEFINE row == [tokens[t] EXCEPT !.state = "revoked"]
  <2>1. row \in TokenRow /\ row.state = "revoked" /\ tokens' = [tokens EXCEPT ![t] = row]
    BY <1>1, <1>2, <1>4 DEF TokenRow
  <2> HIDE DEF row
  <2>2. Tokens(tokens')
    BY <1>1, <1>2, <2>1 DEF Tokens
  <2>3. ASSUME NEW q \in Req
        PROVE  /\ ReqFits(req'[q], tokens') /\ req'[q].closes = req[q].closes
               /\ req'[q].pc = req[q].pc \/ (req[q].pc = "dispatch" /\ req'[q].pc = "revoked")
    <3>1. ReqFits(req[q], tokens) /\ req[q] \in ReqState
      BY DEF Requests, ReqFits
    <3>2. PICK v \in BOOLEAN : v <=> (req[q].valid /\ req[q].cred # t)
      OBVIOUS
    <3>3. PICK p \in Place : p = IF q = r THEN "revoked" ELSE req[q].pc
      BY <3>1 DEF ReqState, Place
    <3>4. req'[q] = [req[q] EXCEPT !.pc = p, !.valid = v]
      <4>1. (req[q].valid /\ req[q].cred # t) = v
        BY <3>2
      <4>2. CASE q = r
        BY <1>4, <3>1, <3>3, <4>1, <4>2 DEF ReqState
      <4>3. CASE q # r
        <5>1. req'[q] = [req[q] EXCEPT !.valid = v]
          BY <1>4, <4>1, <4>3
        <5>2. p = req[q].pc
          BY <3>3, <4>3
        <5> QED BY <3>1, <5>1, <5>2 DEF ReqState
      <4> QED BY <4>2, <4>3
    <3>5. SameButValid(req[q], req'[q]) /\ req'[q].pc = p /\ (req'[q].valid => req[q].cred # t)
      <4> HIDE DEF t, Rest
      <4>1. v => req[q].valid /\ req[q].cred # t
        BY <3>2
      <4> QED BY ZenonT(30), <3>1, <3>4, <4>1 DEF SameButValid, ReqState
    <3>6. p = req[q].pc \/ (p = "revoked" /\ req[q].pc = "dispatch" /\ req[q].target = t)
      BY <1>0, <3>3
    <3>7. ReqFits(req'[q], tokens')
      <4>1. tokens' = [tokens EXCEPT ![t].state = "revoked"]
        BY <1>4
      <4> HIDE DEF t, Rest
      <4> QED BY <1>1, <1>2, <3>1, <3>5, <3>6, <4>1, RevokedFits
    <3> QED BY <1>0, <3>3, <3>5, <3>7 DEF SameButValid
  <2>4. req' \in [Req -> ReqState]
    <3>1. \A q \in Req : req'[q] \in ReqState
      BY <2>3 DEF ReqFits
    <3>2. req' = [q \in Req |-> req'[q]]
      BY <1>4
    <3> QED BY <3>1, <3>2
  <2>5. Requests'
    BY <2>2, <2>3, <2>4 DEF Requests
  <2>6. Opened(req') = Opened(req) /\ Busy(req') = Busy(req)
    <3>1. \A q \in Req : /\ req'[q].closes = req[q].closes
                         /\ req'[q].pc = "none" <=> req[q].pc = "none"
                         /\ req'[q].pc = "heavy" <=> req[q].pc = "heavy"
      BY <2>3
    <3> QED BY <3>1 DEF Opened, Busy
  <2>7. Limits'
    BY <1>0, <2>6 DEF Limits, ConnLimit, HeavyExact, Opened, Busy, At
  <2> QED BY <1>0, <2>5, <2>7, BudgetsStay
<1> QED BY <1>0, <1>3, <1>4, BudgetsStay

-----------------------------------------------------------------------------
(* Connections and the clock.                                              *)

(* A new request: it is known by its own address, and what its token was   *)
(* at that moment.                                                         *)
LEMMA NewReqFits ==
  ASSUME NEW toks, Tokens(toks), NEW ask \in Ask, NEW k \in ReqState,
         k.pc \in {"global", "auth"}, k.pc = "global" => IsPage(ask),
         k.from \in Client, k.ip = k.from, k.answer = "",
         k.op = ask.op, k.cred = ask.cred, k.target = ask.target,
         k.stale => ask.cred \in Token /\ toks[ask.cred].answered,
         k.valid => ask.cred \in Token /\ toks[ask.cred].state = "active"
  PROVE  ReqFits(k, toks)
<1>1. /\ ask.op = "revoke" => ask.target \in Token
      /\ IsPage(ask) => ask.cred = ""
  BY DEF Ask, IsPage
<1>2. ask.cred \in Token => ~IsPage(ask)
  BY <1>1, GateAssumption
<1>3. Addressed(k) /\ Underway(k, toks)
  BY <1>1 DEF Addressed, Underway, Charging
<1>4. StaleFits(k, toks)
  BY <1>2 DEF StaleFits, Tokens
<1>5. ValidFits(k, toks)
  BY DEF ValidFits, Rejected
<1> QED BY <1>3, <1>4, <1>5 DEF ReqFits

Operations == {"", "found", "missing", "stats", "create", "revoke"}
Credentials == Token \cup {"", "wrong"}
Targets == Token \cup {""}

NewReq(p, c, op, cred, target, old, good) ==
  [NoReq EXCEPT !.pc = p, !.from = c, !.ip = c, !.op = op, !.cred = cred,
                !.target = target, !.stale = old, !.valid = good]

IsNew(k, p, c, op, cred, target, old, good) ==
  /\ k \in ReqState /\ k.pc = p /\ k.from = c /\ k.ip = c /\ k.op = op /\ k.cred = cred
  /\ k.target = target /\ k.closes = 0 /\ k.answer = "" /\ k.stale = old /\ k.valid = good

(* The record of a new request.                                            *)
LEMMA NewReqRecord ==
  ASSUME NEW p \in {"global", "auth"}, NEW c \in Client,
         NEW op \in Operations, NEW cred \in Credentials, NEW target \in Targets,
         NEW old \in BOOLEAN, NEW good \in BOOLEAN,
         NEW k, k = NewReq(p, c, op, cred, target, old, good)
  PROVE  IsNew(k, p, c, op, cred, target, old, good)
<1>1. k = [pc |-> p, from |-> c, ip |-> c, op |-> op, cred |-> cred, target |-> target,
           bucket |-> 0, since |-> 0, closes |-> 0,
           stale |-> old, valid |-> good, storeFailed |-> FALSE, answer |-> ""]
  BY DEF NewReq, NoReq
<1>2. p \in Place /\ "" \in Code
  BY DEF Place, Code
<1>3. k \in ReqState
  <2>1. /\ p \in Place /\ c \in Client \cup {""} /\ 0 \in Ids \cup {0} /\ 0 \in Nat
        /\ old \in BOOLEAN /\ good \in BOOLEAN /\ FALSE \in BOOLEAN /\ "" \in Code
    BY <1>2
  <2>2. /\ op \in {"", "found", "missing", "stats", "create", "revoke"}
        /\ cred \in Token \cup {"", "wrong"} /\ target \in Token \cup {""}
    BY Zenon DEF Operations, Credentials, Targets
  <2> QED BY ONLY <1>1, <2>1, <2>2, Zenon DEF ReqState
<1>4. /\ k.pc = p /\ k.from = c /\ k.ip = c /\ k.op = op /\ k.cred = cred
      /\ k.target = target /\ k.closes = 0 /\ k.answer = ""
  BY ONLY <1>1
<1>5. k.stale = old /\ k.valid = good
  BY ONLY <1>1
<1> QED BY <1>3, <1>4, <1>5, Zenon DEF IsNew

(* LimitListener.Accept hands over a connection: the slot it took before   *)
(* is now that connection's.                                               *)
LEMMA AcceptStep ==
  ASSUME GateIInv, NEW r \in Req, AcceptConn(r)
  PROVE  GateIInv'
<1> USE DEF GateIInv
<1>0. /\ acceptor = "accept" /\ req[r].pc = "none" /\ acceptor' = "sem"
      /\ UNCHANGED <<now, heap, maps, heavy, tokens, slots>>
  BY DEF AcceptConn, At, budgetVars
<1>1. PICK c \in Client, chain \in Chains, ask \in Ask, direct \in BOOLEAN :
        LET http == IF direct THEN [remote |-> c, xff |-> chain, realIP |-> ""]
                    ELSE [remote |-> Proxy, xff |-> Append(chain, c), realIP |-> ""]
        IN  /\ WithinLoad(Arrived(ask)) /\ arrivals' = Arrived(ask)
            /\ ask.cred \in Token => tokens[ask.cred].known
            /\ req' = [req EXCEPT ![r] = [NoReq EXCEPT
               !.pc = IF IsPage(ask) THEN "global" ELSE "auth",
               !.from = c, !.ip = clientIP(http, {Proxy}),
               !.op = ask.op, !.cred = ask.cred, !.target = ask.target,
               !.stale = ask.cred \in Token /\ tokens[ask.cred].answered,
               !.valid = ask.cred \in Token /\ tokens[ask.cred].state = "active"]]
  BY Zenon DEF AcceptConn
<1>2. PICK old \in BOOLEAN : old = (ask.cred \in Token /\ tokens[ask.cred].answered)
  OBVIOUS
<1>3. PICK good \in BOOLEAN : good = (ask.cred \in Token /\ tokens[ask.cred].state = "active")
  OBVIOUS
<1>p. PICK p \in {"global", "auth"} : p = IF IsPage(ask) THEN "global" ELSE "auth"
  OBVIOUS
<1>o. PICK op, cred, target : op = ask.op /\ cred = ask.cred /\ target = ask.target
  OBVIOUS
<1>k. PICK k : k = NewReq(p, c, op, cred, target, old, good)
  OBVIOUS
<1>4. MovesTo(r, k)
  <2> DEFINE http == IF direct THEN [remote |-> c, xff |-> chain, realIP |-> ""]
                     ELSE [remote |-> Proxy, xff |-> Append(chain, c), realIP |-> ""]
             ip == clientIP(http, {Proxy})
  <2>1. ip = c
    BY ClientIsItself
  <2>2. req' = [req EXCEPT ![r] = [NoReq EXCEPT
               !.pc = IF IsPage(ask) THEN "global" ELSE "auth",
               !.from = c, !.ip = ip,
               !.op = ask.op, !.cred = ask.cred, !.target = ask.target,
               !.stale = ask.cred \in Token /\ tokens[ask.cred].answered,
               !.valid = ask.cred \in Token /\ tokens[ask.cred].state = "active"]]
    BY <1>1, Zenon
  <2> HIDE DEF ip, http
  <2>3. req' = [req EXCEPT ![r] = NewReq(p, c, op, cred, target, old, good)]
    BY <1>2, <1>3, <1>p, <1>o, <2>1, <2>2 DEF NewReq
  <2> QED BY <1>k, <2>3 DEF MovesTo
<1>5. Tokens(tokens)
  BY DEF Requests
<1>6. ReqFits(k, tokens) /\ k.pc \in {"global", "auth"} /\ k.closes = 0
  <2>1. /\ k \in ReqState /\ k.pc = p /\ k.from = c /\ k.ip = c /\ k.op = op /\ k.cred = cred
        /\ k.target = target /\ k.closes = 0 /\ k.answer = "" /\ k.stale = old /\ k.valid = good
    <3>1. op \in Operations /\ cred \in Credentials /\ target \in Targets
      BY <1>o DEF Ask, Operations, Credentials, Targets
    <3>2. IsNew(k, p, c, op, cred, target, old, good)
      BY <1>k, <3>1, NewReqRecord
    <3> QED BY <3>2, Zenon DEF IsNew
  <2>2. k.stale => ask.cred \in Token /\ tokens[ask.cred].answered
    BY <1>2, <2>1
  <2>3. k.valid => ask.cred \in Token /\ tokens[ask.cred].state = "active"
    BY <1>3, <2>1
  <2>4. p = "global" => IsPage(ask)
    BY <1>p
  <2> QED BY <1>5, <1>o, <2>1, <2>2, <2>3, <2>4, NewReqFits
<1>7. Requests'
  BY <1>0, <1>4, <1>5, <1>6, RequestsMove
<1>8. req'[r] = k /\ \A q \in Req \ {r} : req'[q] = req[q]
  BY <1>4 DEF Requests, MovesTo
<1>9. Opened(req') = Opened(req) \cup {r} /\ r \notin Opened(req) /\ Busy(req') = Busy(req)
  BY <1>0, <1>6, <1>8 DEF Opened, Busy
<1>10. Cardinality(Opened(req')) = Cardinality(Opened(req)) + 1 /\ Cardinality(Opened(req)) \in Nat
  BY <1>9, CountedFinite, Recount
<1>11. Limits'
  <2>0. /\ slots = Cardinality(Opened(req)) + 1 /\ heavy = Cardinality(Busy(req))
        /\ slots \in Nat /\ slots <= MaxConns
    BY <1>0, LimitsCount
  <2>a. heavy = Cardinality(Busy(req'))
    BY <1>9, <2>0
  <2>b. PICK n : n = Cardinality(Opened(req'))
    OBVIOUS
  <2>c. slots = n + 0
    BY <1>10, <2>0, <2>b
  <2>1. slots = Cardinality(Opened(req')) + 0 /\ heavy = Cardinality(Busy(req'))
    BY <2>a, <2>b, <2>c
  <2> QED BY <1>0, <2>1, LimitsCount DEF Limits, ConnLimit, HeavyExact, Opened, Busy, At
<1> QED BY <1>0, <1>7, <1>11, BudgetsStay

(* limitConn.Close releases the slot the first time, and only then.        *)
LEMMA CloseStep ==
  ASSUME GateIInv, NEW r \in Req, Close(r)
  PROVE  GateIInv'
<1> USE DEF GateIInv
<1> DEFINE q == req[r]
           k == [q EXCEPT !.closes = @ + 1]
<1>0. /\ q.pc \in {"done", "heavy"} /\ req' = [req EXCEPT ![r].closes = @ + 1]
      /\ slots' = IF q.closes > 0 THEN slots ELSE slots - 1
      /\ UNCHANGED <<now, heap, maps, acceptor, heavy, tokens>>
  BY DEF Close, Closable, At, budgetVars
<1>1. ReqFits(q, tokens) /\ q \in ReqState /\ q.closes \in Nat
  BY DEF Requests, ReqFits, ReqState
<1>2. MovesTo(r, k)
  BY <1>0 DEF MovesTo
<1>3. k \in ReqState
  <2>1. PICK n \in Nat : n = q.closes + 1
    BY <1>1
  <2>2. k = [q EXCEPT !.closes = n]
    BY <1>1, <2>1 DEF ReqState
  <2> HIDE DEF k
  <2> QED BY <1>1, <2>2 DEF ReqState
<1>4. /\ k.pc = q.pc /\ k.answer = q.answer /\ k.op = q.op /\ k.closes = q.closes + 1
      /\ k.ip = q.ip /\ k.from = q.from /\ k.bucket = q.bucket /\ k.cred = q.cred /\ k.target = q.target
      /\ k.stale = q.stale /\ k.valid = q.valid /\ k.storeFailed = q.storeFailed
  BY <1>1 DEF ReqState
<1> HIDE DEF k
<1>5. ReqFits(k, tokens)
  <2>1. Addressed(k) /\ Underway(k, tokens)
    BY <1>1, <1>4 DEF ReqFits, Addressed, Underway
  <2>2. StaleFits(k, tokens)
    BY <1>1, <1>4 DEF ReqFits, StaleFits
  <2>3. ValidFits(k, tokens)
    BY <1>1, <1>4 DEF ReqFits, ValidFits
  <2> QED BY <1>3, <2>1, <2>2, <2>3 DEF ReqFits
<1>6. Requests'
  BY <1>0, <1>2, <1>5, RequestsMove DEF Requests
<1>7. req'[r] = k /\ \A p \in Req \ {r} : req'[p] = req[p]
  BY <1>2 DEF Requests, MovesTo
<1>8. Busy(req') = Busy(req) /\ Opened(req') = Opened(req) \ {r} /\ (r \in Opened(req) <=> ~(q.closes > 0))
  BY <1>0, <1>1, <1>4, <1>7 DEF Busy, Opened
<1>9. /\ Cardinality(Opened(req)) \in Nat
      /\ r \in Opened(req) => Cardinality(Opened(req')) = Cardinality(Opened(req)) - 1
                              /\ Cardinality(Opened(req)) # 0
      /\ r \notin Opened(req) => Opened(req') = Opened(req)
  BY <1>8, CountedFinite, Recount
<1>10. Limits'
  <2>1. /\ slots' = Cardinality(Opened(req')) + (IF acceptor = "accept" THEN 1 ELSE 0)
        /\ slots' \in Nat /\ slots' <= MaxConns /\ heavy = Cardinality(Busy(req'))
    BY <1>0, <1>8, <1>9, LimitsCount, Sizes
  <2> QED BY <1>0, <2>1, LimitsCount DEF Limits, ConnLimit, HeavyExact, Opened, Busy, At
<1> QED BY <1>0, <1>6, <1>10, BudgetsStay

(* A slot nobody uses.                                                     *)
LEMMA EmptyFits ==
  ASSUME NEW toks
  PROVE  ReqFits(NoReq, toks) /\ NoReq.pc = "none" /\ NoReq \in ReqState
<1>1. "none" \in Place /\ "" \in Code /\ 0 \in Ids \cup {0}
  BY DEF Place, Code
<1>2. NoReq \in ReqState
  BY <1>1 DEF NoReq, ReqState
<1>3. /\ NoReq.pc = "none" /\ NoReq.op = "" /\ ~NoReq.stale /\ ~NoReq.valid
  BY DEF NoReq
<1>4. Addressed(NoReq) /\ Underway(NoReq, toks)
  BY <1>3 DEF Addressed, Underway, Charging
<1>5. StaleFits(NoReq, toks) /\ ValidFits(NoReq, toks)
  BY <1>3 DEF StaleFits, ValidFits
<1> QED BY <1>2, <1>3, <1>4, <1>5 DEF ReqFits

(* The goroutine of a connection that was closed ends.                     *)
LEMMA EndStep ==
  ASSUME GateIInv, NEW r \in Req, EndConn(r)
  PROVE  GateIInv'
<1> USE DEF GateIInv
<1>0. /\ req[r].pc = "done" /\ req[r].closes > 0
      /\ UNCHANGED <<now, heap, maps, slots, acceptor, heavy, tokens>>
  BY DEF EndConn, At, listenerVars, budgetVars
<1>1. MovesTo(r, NoReq)
  BY DEF EndConn, MovesTo
<1>2. ReqFits(NoReq, tokens) /\ NoReq.pc = "none"
  BY EmptyFits
<1>3. Requests'
  BY <1>0, <1>1, <1>2, RequestsMove DEF Requests
<1>4. req'[r] = NoReq /\ \A p \in Req \ {r} : req'[p] = req[p]
  BY <1>1 DEF Requests, MovesTo
<1>5. Opened(req') = Opened(req) /\ Busy(req') = Busy(req)
  <2>1. req[r].closes \in Nat
    BY DEF Requests, ReqState
  <2> QED BY <1>0, <1>2, <1>4, <2>1 DEF Opened, Busy
<1>6. Limits'
  BY <1>0, <1>5 DEF Limits, ConnLimit, HeavyExact, Opened, Busy, At
<1> QED BY <1>0, <1>3, <1>6, BudgetsStay

(* LimitListener.Accept takes a slot, and gives it back when it fails.     *)
LEMMA SlotStep ==
  ASSUME GateIInv, AcceptWait \/ AcceptFails
  PROVE  GateIInv'
<1> USE DEF GateIInv
<1>0. UNCHANGED <<now, heap, maps, req, heavy, tokens>>
  BY DEF AcceptWait, AcceptFails, budgetVars
<1>1. Requests'
  BY <1>0 DEF Requests
<1> DEFINE n == Cardinality(Opened(req))
<1>2. n \in Nat
  BY CountedFinite, FS_CardinalityType
<1>3. /\ slots \in Nat /\ slots <= MaxConns /\ MaxConns \in Nat
      /\ slots = n + (IF acceptor = "accept" THEN 1 ELSE 0)
  BY LimitsCount, Sizes
<1>4. /\ acceptor' \in {"sem", "accept"} /\ slots' \in Nat /\ slots' <= MaxConns
      /\ slots' = n + (IF acceptor' = "accept" THEN 1 ELSE 0)
  <2> HIDE DEF n
  <2>1. CASE AcceptWait
    BY <1>2, <1>3, <2>1 DEF AcceptWait
  <2>2. CASE AcceptFails
    BY <1>2, <1>3, <2>2 DEF AcceptFails
  <2> QED BY <2>1, <2>2
<1>5. Limits'
  BY <1>0, <1>4 DEF Limits, ConnLimit, HeavyExact, Opened, At
<1> QED BY <1>0, <1>1, <1>5, BudgetsStay

(* Time passes: no entry was accessed later than now.                      *)
LEMMA TickStep ==
  ASSUME GateIInv, Tick
  PROVE  GateIInv'
<1> USE DEF GateIInv
<1>0. now < MaxTime /\ now' = now + 1 /\ UNCHANGED <<heap, maps, req, slots, acceptor, heavy, tokens>>
  BY DEF Tick, listenerVars, budgetVars
<1>1. Requests' /\ Limits'
  BY <1>0 DEF Requests, Limits, ConnLimit, HeavyExact, At
<1>2. now \in Nat /\ now' \in 0 .. MaxTime
  BY <1>0, Sizes DEF Budgets
<1>3. ASSUME NEW m \in Maps PROVE MapFits(maps[m], now + 1)
  <2>1. PICK list : list = maps[m]
    OBVIOUS
  <2>2. MapFits(list, now)
    BY <2>1 DEF Budgets, Lists
  <2>3. list \in Seq(Entry) /\ Ordered(list) /\ \A i \in 1 .. Len(list) : list[i].last <= now
    BY <2>2 DEF MapFits, NoneLater
  <2>4. ASSUME NEW i \in 1 .. Len(list) PROVE list[i].last <= now + 1
    <3>1. list[i] \in Entry
      BY <2>3
    <3>2. list[i].last \in Nat /\ list[i].last <= now
      BY <2>3, <3>1 DEF Entry
    <3> QED BY <1>2, <3>2
  <2> QED BY <2>1, <2>3, <2>4 DEF MapFits, NoneLater
<1> QED BY <1>0, <1>1, <1>2, <1>3 DEF Budgets, Lists

(* A step that changes nothing.                                            *)
LEMMA StillStep ==
  ASSUME GateIInv, UNCHANGED vars
  PROVE  GateIInv'
<1>1. UNCHANGED <<now, slots, acceptor, req, heap, maps, heavy, tokens>>
  BY DEF vars, listenerVars, budgetVars
<1>2. Budgets'
  BY <1>1, BudgetsStay DEF GateIInv
<1>3. Requests' /\ Limits'
  BY <1>1 DEF GateIInv, Requests, Limits, ConnLimit, HeavyExact, At
<1> QED BY <1>2, <1>3 DEF GateIInv

-----------------------------------------------------------------------------
(* The theorems.                                                           *)

(* The invariant holds at the start: empty lists, no connection, and an    *)
(* admin token.                                                            *)
LEMMA GateInit ==
  ASSUME Init
  PROVE  GateIInv
<1>1. /\ now = 0 /\ slots = 0 /\ acceptor = "sem" /\ heavy = 0
      /\ req = [r \in Req |-> NoReq] /\ heap = [i \in Ids |-> Free] /\ maps = [m \in Maps |-> <<>>]
  BY DEF Init
<1>2. Budgets
  <2>1. Free \in Bucket(Burst) /\ now \in 0 .. MaxTime
    BY <1>1, Sizes DEF Free, Bucket
  <2>2. <<>> \in Seq(Entry) /\ Len(<<>>) = 0
    OBVIOUS
  <2>3. MapFits(<<>>, now)
    BY <2>2 DEF MapFits, Ordered, NoneLater
  <2>4. Len(<<>>) <= MaxEntries
    BY <2>2, Sizes
  <2>5. Lists(maps, now)
    BY <1>1, <2>2, <2>3, <2>4 DEF Lists
  <2> QED BY <1>1, <2>1, <2>5 DEF Budgets
<1>3. Tokens(tokens)
  <2>1. PICK others \in [Token \ {Admin} -> {NoToken} \cup {NewToken(role, TRUE) : role \in Role}] :
          tokens = [t \in Token |-> IF t = Admin THEN NewToken("admin", TRUE) ELSE others[t]]
    BY Zenon DEF Init
  <2>2. NewToken("admin", TRUE) \in TokenRow /\ ~NewToken("admin", TRUE).answered
    BY DEF NewToken, TokenRow
  <2>3. NoToken \in TokenRow /\ ~NoToken.answered
    BY DEF NoToken, TokenRow
  <2>4. \A role \in Role : NewToken(role, TRUE) \in TokenRow /\ ~NewToken(role, TRUE).answered
    BY DEF NewToken, TokenRow
  <2>5. \A t \in Token \ {Admin} : others[t] \in TokenRow /\ ~others[t].answered
    BY ZenonT(30), <2>3, <2>4
  <2> QED BY <2>1, <2>2, <2>5 DEF Tokens
<1>4. Requests
  <2>1. ReqFits(NoReq, tokens) /\ NoReq \in ReqState
    BY EmptyFits
  <2> QED BY <1>1, <1>3, <2>1 DEF Requests
<1>5. Limits
  <2>1. NoReq.pc = "none"
    BY EmptyFits
  <2>2. Opened(req) = {} /\ Busy(req) = {}
    BY <1>1, <2>1 DEF Opened, Busy
  <2>3. Cardinality(Opened(req)) = 0 /\ Cardinality(Busy(req)) = 0
    BY <2>2, FS_EmptySet
  <2> QED BY <1>1, <2>3, LimitsCount, Sizes
<1> QED BY <1>2, <1>4, <1>5 DEF GateIInv

(* Every step keeps it.                                                    *)
LEMMA GateStep ==
  ASSUME GateIInv, [Next]_vars
  PROVE  GateIInv'
<1>1. CASE Tick
  BY <1>1, TickStep
<1>2. CASE AcceptWait \/ AcceptFails
  BY <1>2, SlotStep
<1>3. ASSUME NEW r \in Req, AcceptConn(r) \/ Close(r) \/ EndConn(r)
      PROVE  GateIInv'
  BY <1>3, AcceptStep, CloseStep, EndStep
<1>4. ASSUME NEW r \in Req, globalRateLimit(r) \/ allowRequestLookup(r) \/ allowRequestCharge(r)
                            \/ notFoundLookup(r) \/ notFoundCharge(r) \/ tarpitSleep(r)
      PROVE  GateIInv'
  BY <1>4, GlobalStep, PageLookupStep, PageChargeStep, TarpitStep
<1>5. ASSUME NEW r \in Req, authMiddleware(r) \/ rejectAuthLookup(r) \/ rejectAuthCharge(r)
                            \/ HeavyBegin(r) \/ HeavyEnd(r)
      PROVE  GateIInv'
  BY <1>5, AuthStep, RejectLookupStep, RejectChargeStep, HeavyBeginStep, HeavyEndStep
<1>6. ASSUME NEW r \in Req, createAPIToken(r) \/ revokeAPIToken(r) \/ revokeAPITokenAnswer(r)
      PROVE  GateIInv'
  BY <1>6, CreateStep, RevokeStep, RevokeAnswerStep
<1>7. CASE UNCHANGED vars
  BY <1>7, StillStep
<1> QED BY <1>1, <1>2, <1>3, <1>4, <1>5, <1>6, <1>7, Zenon DEF Next

(* The invariant is one.                                                   *)
LEMMA GateInvariant == Spec => []GateIInv
<1>1. Init => GateIInv
  BY GateInit
<1>2. GateIInv /\ [Next]_vars => GateIInv'
  BY GateStep
<1> QED BY <1>1, <1>2, PTL DEF Spec

(* The structures both servers share are exact whatever the interleaving:  *)
(* LimitListener's semaphore counts the open connections although one may  *)
(* be closed twice and early, the heavy slots count the running handlers,  *)
(* evictingBucketMap's list stays in order of access and in bounds though  *)
(* buckets are charged outside its lock, and clientIP charges a client's   *)
(* own address whatever X-Forwarded-For it sent.                           *)
THEOREM GateCorrect == Spec => []GateInv
<1>1. GateIInv => GateInv
  <2> SUFFICES ASSUME GateIInv PROVE GateInv
    OBVIOUS
  <2>1. Budgets /\ Requests /\ Limits
    BY DEF GateIInv
  <2>2. TypeOK
    <3>1. \A i \in Ids : heap[i].tokens \in 0 .. Burst
      BY <2>1 DEF Budgets, Bucket
    <3>2. \A r \in Req : req[r].pc \in Place /\ req[r].answer \in Code /\ req[r].bucket \in Ids \cup {0}
      BY <2>1 DEF Requests, ReqState
    <3>3. now \in 0 .. MaxTime /\ acceptor \in {"sem", "accept"}
      BY <2>1 DEF Budgets, Limits
    <3> QED BY <3>1, <3>2, <3>3, Zenon DEF TypeOK, Place, Code
  <2>3. LRUOrder
    <3>1. ASSUME NEW m \in Maps
          PROVE  /\ Len(maps[m]) <= MaxEntries /\ DOMAIN maps[m] = 1 .. Len(maps[m])
                 /\ Ordered(maps[m])
      BY <2>1 DEF Budgets, Lists, MapFits
    <3> QED BY <3>1 DEF LRUOrder, Ordered
  <2>4. IdentityNotForged
    BY <2>1 DEF Requests, ReqFits, Addressed, IdentityNotForged
  <2> QED BY <2>1, <2>2, <2>3, <2>4 DEF GateInv, Limits
<1> QED BY <1>1, GateInvariant, PTL

(* LookupActiveAPIToken cuts a revoked token off: a request that begins    *)
(* after the 204 of revokeAPIToken reaches no handler, however the two     *)
(* interleave with requests already past authentication.                   *)
THEOREM RevocationCutsOff == Spec => []RevokedCutOff
<1>1. GateIInv => RevokedCutOff
  <2> SUFFICES ASSUME GateIInv, NEW r \in Req, req[r].stale
               PROVE  /\ ~(At(r, "dispatch") \/ At(r, "heavy") \/ At(r, "revoked"))
                      /\ req[r].answer \in {"", "401", "429auth"}
    BY DEF RevokedCutOff
  <2>1. /\ req[r].pc \in {"auth", "reject", "rejectCharge", "done"}
        /\ req[r].answer \in Rejected \cup {""}
    BY DEF GateIInv, Requests, ReqFits, StaleFits
  <2> QED BY <2>1 DEF At, Rejected
<1> QED BY <1>1, GateInvariant, PTL

(* authMiddleware looks the token up before rejectAuth consults any        *)
(* budget: a token valid from the request's start to its answer is never   *)
(* refused or throttled, unless the store itself fails.                    *)
THEOREM ValidPasses == Spec => []ValidNotThrottled
<1>1. GateIInv => ValidNotThrottled
  <2> SUFFICES ASSUME GateIInv, NEW r \in Req, req[r].valid, ~req[r].storeFailed
               PROVE  req[r].answer \notin {"401", "429auth"}
    BY DEF ValidNotThrottled
  <2> QED BY DEF GateIInv, Requests, ReqFits, ValidFits, Rejected
<1> QED BY <1>1, GateInvariant, PTL

-----------------------------------------------------------------------------
(* How much a bucket has to give.                                          *)

(* What is in bucket b at a time, with what was refilled until then.       *)
Level(b, at, rate, burst) == Refilled(b, at, rate, burst).tokens

(* Refill over a span, and over one tick more.                             *)
LEMMA Refills ==
  ASSUME NEW rate \in Nat, NEW n \in Nat
  PROVE  /\ rate * n \in Nat /\ n * rate = rate * n /\ rate * (n + 1) = rate * n + rate
         /\ \A k \in Nat : k <= n => rate * k <= rate * n
<1>1. rate * n \in Nat /\ n * rate = rate * n /\ rate * (n + 1) = rate * n + rate
  OBVIOUS
<1>2. ASSUME NEW k \in Nat, k <= n PROVE rate * k <= rate * n
  <2>1. PICK d \in Nat : n = k + d
    <3>1. n - k \in Nat /\ n = k + (n - k)
      BY <1>2
    <3> QED BY <3>1
  <2>2. rate * n = rate * k + rate * d /\ rate * d \in Nat /\ rate * k \in Nat
    BY <2>1
  <2> QED BY <2>2
<1> QED BY <1>1, <1>2

(* The level of a bucket in numbers.                                       *)
LEMMA LevelIs ==
  ASSUME NEW burst \in Nat, NEW rate \in Nat, NEW b \in Bucket(burst), NEW at \in Nat, b.at <= at,
         NEW n \in Nat, n = at - b.at
  PROVE  \E r \in Nat :
           /\ r = rate * n
           /\ Level(b, at, rate, burst) = IF b.tokens + r > burst THEN burst ELSE b.tokens + r
<1>1. b.tokens \in 0 .. burst /\ b.at \in Nat
  BY DEF Bucket
<1>3. PICK r \in Nat : r = rate * n /\ n * rate = r
  BY Refills
<1>4. CASE at <= b.at
  <2>1. n = 0
    BY <1>1, <1>4
  <2>2. r = 0
    BY <1>3, <2>1
  <2>3. Level(b, at, rate, burst) = b.tokens
    BY <1>4 DEF Level, Refilled
  <2> QED BY <1>1, <1>3, <2>2, <2>3
<1>5. CASE ~(at <= b.at)
  <2>1. Refilled(b, at, rate, burst) =
          [tokens |-> IF b.tokens + r > burst THEN burst ELSE b.tokens + r, at |-> at]
    BY <1>3, <1>5 DEF Refilled
  <2>2. Level(b, at, rate, burst) = IF b.tokens + r > burst THEN burst ELSE b.tokens + r
    BY <2>1 DEF Level
  <2> QED BY <1>3, <2>2
<1> QED BY <1>4, <1>5

(* A tick adds at most the rate, and a bucket never holds more than its    *)
(* burst.                                                                  *)
LEMMA LevelTick ==
  ASSUME NEW burst \in Nat, NEW rate \in Nat, NEW b \in Bucket(burst), NEW at \in Nat, b.at <= at
  PROVE  /\ Level(b, at, rate, burst) \in 0 .. burst
         /\ Level(b, at + 1, rate, burst) \in 0 .. burst
         /\ Level(b, at + 1, rate, burst) <= Level(b, at, rate, burst) + rate
<1>1. b.tokens \in 0 .. burst /\ b.at \in Nat
  BY DEF Bucket
<1>2. PICK n \in Nat : n = at - b.at /\ n + 1 = at + 1 - b.at
  <2>1. at - b.at \in Nat /\ (at - b.at) + 1 = at + 1 - b.at
    BY <1>1
  <2> QED BY <2>1
<1>3. PICK r \in Nat : /\ r = rate * n
                       /\ Level(b, at, rate, burst) = IF b.tokens + r > burst THEN burst ELSE b.tokens + r
  BY <1>2, LevelIs
<1>4. PICK q \in Nat : /\ q = rate * (n + 1)
                       /\ Level(b, at + 1, rate, burst) = IF b.tokens + q > burst THEN burst ELSE b.tokens + q
  <2>1. PICK at1 \in Nat : at1 = at + 1 /\ b.at <= at1
    BY <1>1
  <2>2. PICK n1 \in Nat : n1 = n + 1 /\ n1 = at1 - b.at
    BY <1>1, <1>2, <2>1
  <2>3. \E q \in Nat : /\ q = rate * n1
                      /\ Level(b, at1, rate, burst) = IF b.tokens + q > burst THEN burst ELSE b.tokens + q
    <3>1. b.at <= at1 /\ n1 = at1 - b.at
      BY <2>1, <2>2
    <3> QED BY ONLY <3>1, at1 \in Nat, n1 \in Nat, burst \in Nat, rate \in Nat, b \in Bucket(burst), LevelIs
  <2> QED BY <2>1, <2>2, <2>3
<1>5. q = r + rate
  BY <1>3, <1>4, Refills
<1> QED BY <1>1, <1>3, <1>4, <1>5

(* allow takes a token exactly when there is one.                          *)
LEMMA LevelAllow ==
  ASSUME NEW burst \in Nat, NEW rate \in Nat, NEW b \in Bucket(burst), NEW at \in Nat, b.at <= at,
         NEW c, c = AfterAllow(b, at, rate, burst)
  PROVE  /\ c \in Bucket(burst) /\ c.at <= at
         /\ HasToken(b, at, rate, burst) => Level(c, at, rate, burst) = Level(b, at, rate, burst) - 1
         /\ ~HasToken(b, at, rate, burst) => Level(c, at, rate, burst) = Level(b, at, rate, burst)
<1> DEFINE r == Refilled(b, at, rate, burst)
<1>0. c \in Bucket(burst)
  BY AllowBounded
<1>1. r.at = at /\ r.tokens = Level(b, at, rate, burst) /\ r.tokens \in 0 .. burst
      /\ r = [tokens |-> r.tokens, at |-> r.at]
  <2>1. r.tokens = Level(b, at, rate, burst) /\ Level(b, at, rate, burst) \in 0 .. burst
    BY LevelTick DEF Level
  <2>2. CASE at <= b.at
    BY <2>1, <2>2 DEF Refilled, Bucket
  <2>3. CASE ~(at <= b.at)
    BY <2>1, <2>3 DEF Refilled
  <2> QED BY <2>1, <2>2, <2>3
<1>2. HasToken(b, at, rate, burst) <=> r.tokens >= 1
  BY DEF HasToken
<1>3. c = IF r.tokens >= 1 THEN [r EXCEPT !.tokens = @ - 1] ELSE r
  BY DEF AfterAllow
<1> HIDE DEF r
<1>4. c.at = at /\ c.tokens = IF r.tokens >= 1 THEN r.tokens - 1 ELSE r.tokens
  BY <1>1, <1>3
<1>5. Level(c, at, rate, burst) = c.tokens
  <2>1. Refilled(c, at, rate, burst) = c
    BY <1>4 DEF Refilled
  <2> QED BY <2>1 DEF Level
<1> QED BY <1>0, <1>1, <1>2, <1>4, <1>5

(* A bucket that was not charged for as long as an entry lives, but for    *)
(* the pause, is full.                                                     *)
LEMMA LevelIdle ==
  ASSUME NEW b \in Bucket(Burst), NEW at \in Nat, NEW last \in Nat,
         b.at <= last + Pause, at - last >= TTL
  PROVE  Level(b, at, Rate, Burst) = Burst
<1>1. /\ b.tokens \in 0 .. Burst /\ b.at \in Nat /\ Burst \in Nat /\ Rate \in Nat /\ TTL \in Nat
      /\ Pause \in Nat /\ Pause < TTL /\ Burst <= Rate * (TTL - Pause)
  BY RateSizes DEF Bucket
<1>2. PICK n \in Nat : n = at - b.at
  <2>1. at - b.at \in Nat
    BY <1>1
  <2> QED BY <2>1
<1>3. PICK k \in Nat : k = TTL - Pause
  <2>1. TTL - Pause \in Nat
    BY <1>1
  <2> QED BY <2>1
<1>4. b.at <= at /\ k <= n
  BY <1>1, <1>2, <1>3
<1>5. PICK r \in Nat : /\ r = Rate * n
                       /\ Level(b, at, Rate, Burst) = IF b.tokens + r > Burst THEN Burst ELSE b.tokens + r
  BY SMTT(30), <1>1, <1>2, <1>4, LevelIs
<1>6. PICK q \in Nat : q = Rate * k
  BY <1>1, Refills
<1>7. q <= r /\ Burst <= q
  BY <1>1, <1>3, <1>4, <1>5, <1>6, Refills
<1>8. b.tokens \in Nat /\ b.tokens <= Burst /\ b.tokens + r >= Burst
  BY <1>1, <1>7
<1> QED BY <1>1, <1>5, <1>8

(* A full bucket.                                                          *)
LEMMA LevelNew ==
  ASSUME NEW burst \in Nat, NEW rate \in Nat, NEW at \in Nat
  PROVE  /\ newTokenBucket(burst, at) \in Bucket(burst) /\ newTokenBucket(burst, at).at = at
         /\ Level(newTokenBucket(burst, at), at, rate, burst) = burst
BY DEF newTokenBucket, Bucket, Level, Refilled

-----------------------------------------------------------------------------
(* What a lookup leaves of a list.                                         *)

(* Every entry of after is one of m0, accessed no earlier, or the new one  *)
(* in front; and every entry of m0 is still there, or has expired, or its  *)
(* key is not in after.                                                    *)
Stems(after, m0, key, fresh, at) ==
  \A j \in 1 .. Len(after) :
    \/ \E i \in 1 .. Len(m0) : /\ m0[i].key = after[j].key /\ m0[i].id = after[j].id
                               /\ m0[i].last <= after[j].last
    \/ /\ ~IsHit(m0, key, at)
       /\ after[j] = [key |-> key, id |-> fresh, last |-> at]
Survives(after, m0, at) ==
  \A i \in 1 .. Len(m0) :
    \/ at - m0[i].last >= TTL
    \/ \E j \in 1 .. Len(after) : /\ after[j].key = m0[i].key /\ after[j].id = m0[i].id
                                  /\ m0[i].last <= after[j].last
    \/ \A j \in 1 .. Len(after) : after[j].key # m0[i].key

(* getOrCreate, in those terms; the entry asked for is in front, and after *)
(* a miss every older entry of its key had expired.                        *)
LEMMA GetOrCreateKeeps ==
  ASSUME NEW at \in Nat, NEW m0, MapFits(m0, at), NEW key \in Client, NEW fresh \in Ids,
         NEW after, after = getOrCreate(m0, key, fresh, at)
  PROVE  /\ after \in Seq(Entry) /\ Len(after) # 0 /\ Head(after) = after[1]
         /\ after[1].key = key /\ after[1].last = at
         /\ ~IsHit(m0, key, at) => after[1].id = fresh
         /\ Stems(after, m0, key, fresh, at) /\ Survives(after, m0, at)
         /\ ~IsHit(m0, key, at) =>
              \A i \in 1 .. Len(m0) : m0[i].key = key => at - m0[i].last >= TTL
<1> DEFINE m == evictExpiredLocked(m0, at)
           hits == HitsOf(m, key)
           h == CHOOSE j \in hits : TRUE
<1>1. m0 \in Seq(Entry) /\ Len(m0) \in Nat
  BY DEF MapFits
<1>2. PICK k \in 0 .. Len(m0) : /\ IsFront(m, m0, k)
                                /\ \A i \in 1 .. Len(m0) : k < i => at - m0[i].last >= TTL
  BY ExpiredGone
<1>3. MapFits(m, at) /\ m \in Seq(Entry) /\ Len(m) = k /\ k \in Nat /\ k <= Len(m0)
      /\ \A i \in 1 .. k : m[i] = m0[i]
  BY <1>1, <1>2, FrontFits DEF IsFront, MapFits
<1>4. IsHit(m0, key, at) <=> hits # {}
  BY DEF IsHit
<1>5. hits = {j \in 1 .. k : m[j].key = key}
  BY <1>3 DEF HitsOf
<1>6. hits = {} => \A i \in 1 .. Len(m0) : m0[i].key = key => at - m0[i].last >= TTL
  BY <1>1, <1>2, <1>3, <1>5
<1>7. \A i \in 1 .. k : m[i] \in Entry /\ m[i].last \in Nat /\ m[i].last <= at
  <2>1. \A i \in 1 .. k : m[i] \in Entry
    BY <1>3
  <2> QED BY <1>3, <2>1 DEF MapFits, NoneLater, Entry
<1>8. CASE hits # {}
  <2>1. h \in 1 .. k /\ m[h].key = key
    BY <1>5, <1>8
  <2>2. after = <<[m[h] EXCEPT !.last = at]>> \o RemoveAt(m, h)
    BY <1>8 DEF getOrCreate
  <2> HIDE DEF m, h, hits
  <2> DEFINE e == [m[h] EXCEPT !.last = at]
             rest == RemoveAt(m, h)
  <2>3. e \in Entry /\ e.last = at /\ e.key = key /\ e.id = m[h].id
    BY <1>7, <2>1 DEF Entry
  <2>4. MapFits(rest, at) /\ Len(rest) = k - 1 /\ \A j \in 1 .. Len(rest) : rest[j].key # key
    <3>1. h \in 1 .. Len(m)
      BY <1>3, <2>1
    <3>2. /\ MapFits(rest, at) /\ Len(rest) = Len(m) - 1
          /\ \A j \in 1 .. Len(rest) : rest[j].key # m[h].key
      BY <1>3, <3>1, RemoveFits
    <3> QED BY <1>3, <2>1, <3>2
  <2>5. \A j \in 1 .. k - 1 : rest[j] = m[IF j < h THEN j ELSE j + 1]
    <3>1. h \in 1 .. Len(m)
      BY <1>3, <2>1
    <3>2. \A j \in 1 .. Len(m) - 1 : rest[j] = m[IF j < h THEN j ELSE j + 1]
      BY <1>3, <3>1, RemoveKeeps
    <3> QED BY <1>3, <3>2
  <2>6. after = <<e>> \o rest
    BY <2>2
  <2> HIDE DEF e, rest
  <2>7. /\ MapFits(after, at) /\ Len(after) = k /\ after[1] = e
        /\ \A j \in 1 .. k - 1 : after[j + 1] = rest[j]
    <3>1. /\ MapFits(<<e>> \o rest, at) /\ Len(<<e>> \o rest) = Len(rest) + 1 /\ (<<e>> \o rest)[1] = e
          /\ \A j \in 1 .. Len(rest) : (<<e>> \o rest)[j + 1] = rest[j]
      BY <2>3, <2>4, PushFits
    <3> QED BY <1>3, <2>4, <2>6, <3>1
  <2>8. after \in Seq(Entry) /\ Len(after) # 0 /\ Head(after) = after[1]
    BY <1>3, <2>1, <2>7 DEF MapFits
  <2>9. \A j \in 2 .. k : after[j] = m[IF j - 1 < h THEN j - 1 ELSE j]
    <3> SUFFICES ASSUME NEW j \in 2 .. k PROVE after[j] = m[IF j - 1 < h THEN j - 1 ELSE j]
      OBVIOUS
    <3>1. j - 1 \in 1 .. k - 1 /\ (j - 1) + 1 = j
      BY <1>3
    <3> QED BY <2>5, <2>7, <3>1
  <2>10. Stems(after, m0, key, fresh, at)
    <3> SUFFICES ASSUME NEW j \in 1 .. k
                 PROVE  \E i \in 1 .. Len(m0) : /\ m0[i].key = after[j].key /\ m0[i].id = after[j].id
                                                /\ m0[i].last <= after[j].last
      BY <2>7 DEF Stems
    <3>1. CASE j = 1
      BY SMTT(30), <1>1, <1>3, <1>7, <2>1, <2>3, <2>7, <3>1
    <3>2. CASE j \in 2 .. k
      <4>1. PICK i \in 1 .. k : after[j] = m[i]
        BY <1>3, <2>1, <2>9, <3>2
      <4>2. i \in 1 .. Len(m0) /\ after[j] = m0[i] /\ m0[i].last <= m0[i].last
        <5>1. i \in 1 .. Len(m0) /\ m0[i] = m[i] /\ m0[i].last \in Nat
          BY <1>1, <1>3, <1>7
        <5> QED BY <4>1, <5>1
      <4> QED BY <4>2
    <3> QED BY <1>3, <3>1, <3>2
  <2>11. Survives(after, m0, at)
    <3> SUFFICES ASSUME NEW i \in 1 .. Len(m0), i \in 1 .. k
                 PROVE  \E j \in 1 .. Len(after) : /\ after[j].key = m0[i].key /\ after[j].id = m0[i].id
                                                   /\ m0[i].last <= after[j].last
      <4>1. \A i \in 1 .. Len(m0) : i \in 1 .. k \/ at - m0[i].last >= TTL
        BY <1>1, <1>2, <1>3
      <4> QED BY <4>1 DEF Survives
    <3>0. Len(after) = k /\ m[i] = m0[i]
      BY <1>3, <2>7
    <3>1. CASE i = h
      BY <1>3, <1>7, <2>1, <2>3, <2>7, <3>0, <3>1
    <3>2. CASE i < h
      <4>1. i + 1 \in 2 .. k /\ after[i + 1] = m[i]
        BY <1>3, <2>1, <2>9, <3>2
      <4> QED BY <1>3, <1>7, <3>0, <4>1
    <3>3. CASE h < i
      <4>1. i \in 2 .. k /\ after[i] = m[i]
        BY <1>3, <2>1, <2>9, <3>3
      <4> QED BY <1>3, <1>7, <3>0, <4>1
    <3> QED BY <1>3, <2>1, <3>1, <3>2, <3>3
  <2> QED BY <1>4, <1>8, <2>3, <2>7, <2>8, <2>10, <2>11
<1>9. CASE hits = {}
  <2> DEFINE e == [key |-> key, id |-> fresh, last |-> at]
             p == <<e>> \o m
  <2>1. after = evictOverCapLocked(p)
    BY <1>9 DEF getOrCreate
  <2>2. e \in Entry /\ e.last = at /\ e.key = key /\ e.id = fresh
    BY DEF Entry
  <2>3. \A j \in 1 .. Len(m) : m[j].key # key
    BY <1>3, <1>5, <1>9
  <2>4. ~IsHit(m0, key, at)
    BY <1>4, <1>9
  <2> HIDE DEF m, hits
  <2>5. /\ MapFits(p, at) /\ Len(p) = k + 1 /\ p[1] = e
        /\ \A j \in 1 .. k : p[j + 1] = m[j]
    <3> HIDE DEF e, p
    <3>1. /\ MapFits(<<e>> \o m, at) /\ Len(<<e>> \o m) = Len(m) + 1 /\ (<<e>> \o m)[1] = e
          /\ \A j \in 1 .. Len(m) : (<<e>> \o m)[j + 1] = m[j]
      BY <1>3, <2>2, <2>3, PushFits
    <3> QED BY <1>3, <3>1 DEF p
  <2> HIDE DEF p
  <2>6. p \in Seq(Entry) /\ p # <<>>
    BY <1>3, <2>5 DEF MapFits
  <2>7. PICK n \in 0 .. Len(p) : IsFront(after, p, n) /\ n # 0
    BY <2>1, <2>6, CapLeavesFront
  <2>8. after \in Seq(Entry) /\ Len(after) = n /\ n \in 1 .. k + 1 /\ \A j \in 1 .. n : after[j] = p[j]
    BY <1>3, <2>5, <2>7 DEF IsFront
  <2>9. Head(after) = after[1] /\ after[1] = e /\ Len(after) # 0
    BY <1>3, <2>5, <2>8
  <2>10. \A j \in 2 .. k + 1 : j - 1 \in 1 .. k /\ p[j] = m[j - 1]
    <3> SUFFICES ASSUME NEW j \in 2 .. k + 1 PROVE j - 1 \in 1 .. k /\ p[j] = m[j - 1]
      OBVIOUS
    <3>1. j - 1 \in 1 .. k /\ (j - 1) + 1 = j
      BY <1>3
    <3> QED BY <2>5, <3>1
  <2>11. Stems(after, m0, key, fresh, at)
    <3> SUFFICES ASSUME NEW j \in 2 .. n
                 PROVE  \E i \in 1 .. Len(m0) : /\ m0[i].key = after[j].key /\ m0[i].id = after[j].id
                                                /\ m0[i].last <= after[j].last
      BY <1>3, <2>4, <2>8, <2>9 DEF Stems
    <3>1. after[j] = p[j] /\ j \in 2 .. k + 1
      BY <1>3, <2>8
    <3>2. PICK i \in 1 .. k : after[j] = m[i]
      BY <2>10, <3>1
    <3>3. i \in 1 .. Len(m0) /\ m0[i] = after[j] /\ m0[i].last \in Nat
      BY <1>1, <1>3, <1>7, <3>2
    <3>4. m0[i].last <= m0[i].last
      BY <3>3
    <3> QED BY <3>3, <3>4
  <2>12. Survives(after, m0, at)
    <3> SUFFICES ASSUME NEW i \in 1 .. k
                 PROVE  \/ \E j \in 1 .. n : /\ after[j].key = m[i].key /\ after[j].id = m[i].id
                                             /\ m[i].last <= after[j].last
                        \/ \A j \in 1 .. n : after[j].key # m[i].key
      <4>1. Len(after) = n /\ \A i \in 1 .. k : m[i] = m0[i]
        BY <1>3, <2>8
      <4>2. \A i \in 1 .. Len(m0) : i \in 1 .. k \/ at - m0[i].last >= TTL
        BY <1>1, <1>2, <1>3
      <4> QED BY <4>1, <4>2 DEF Survives
    <3>1. i + 1 \in 1 .. k + 1 /\ p[i + 1] = m[i]
      <4>1. i \in Nat /\ 1 <= i /\ i <= k
        BY <1>3
      <4>2. i + 1 \in 1 .. k + 1
        BY <1>3, <4>1
      <4> QED BY <2>5, <4>2
    <3>2. CASE i + 1 <= n
      <4>1. i + 1 \in 1 .. n /\ after[i + 1] = m[i]
        BY <1>3, <2>8, <3>1, <3>2
      <4> QED BY <1>7, <4>1
    <3>3. CASE ~(i + 1 <= n)
      <4>1. ASSUME NEW j \in 1 .. n PROVE after[j].key # m[i].key
        <5>1. j < i + 1 /\ j \in 1 .. Len(p) /\ i + 1 \in 1 .. Len(p)
          BY <1>3, <2>5, <2>8, <3>1, <3>3
        <5>2. p[j].key # p[i + 1].key
          BY <2>5, <5>1 DEF MapFits, Ordered
        <5> QED BY <2>8, <3>1, <5>2
      <4> QED BY <4>1
    <3> QED BY <3>2, <3>3
  <2> QED BY <1>6, <1>9, <2>2, <2>4, <2>8, <2>9, <2>11, <2>12
<1> QED BY <1>8, <1>9

-----------------------------------------------------------------------------
(* The history of what was granted.                                        *)

Counts == [0 .. MaxTime -> Nat]

(* The number up to each tick; nothing was granted after t.                *)
Flat(g, t) == g \in Counts /\ \A u \in t .. MaxTime : g[u] = g[t]

(* What the history shows for the ticks s to e.                            *)
Window(g, s, e) == g[e] - (IF s = 0 THEN 0 ELSE g[s - 1])

(* A tick in which nothing was granted yet.                                *)
LEMMA WindowTick ==
  ASSUME NEW t \in Nat, NEW g, Flat(g, t), t + 1 <= MaxTime
  PROVE  /\ Flat(g, t + 1)
         /\ Window(g, t + 1, t + 1) = 0
         /\ \A s \in 0 .. t : Window(g, s, t + 1) = Window(g, s, t)
<1>1. MaxTime \in Nat /\ g \in [0 .. MaxTime -> Nat] /\ \A u \in t .. MaxTime : g[u] = g[t]
  BY RateSizes DEF Flat, Counts
<1>2. t \in t .. MaxTime /\ t + 1 \in t .. MaxTime /\ t + 1 # 0 /\ (t + 1) - 1 = t
  BY <1>1
<1>3. g[t + 1] = g[t] /\ g[t] \in Nat
  BY <1>1, <1>2
<1>4. Flat(g, t + 1)
  <2>1. \A u \in t + 1 .. MaxTime : u \in t .. MaxTime
    BY <1>1
  <2> QED BY <1>1, <1>3, <2>1 DEF Flat, Counts
<1>5. Window(g, t + 1, t + 1) = 0
  BY <1>2, <1>3 DEF Window
<1>6. \A s \in 0 .. t : Window(g, s, t + 1) = Window(g, s, t)
  BY <1>3 DEF Window
<1> QED BY <1>4, <1>5, <1>6

(* One more granted at t.                                                  *)
LEMMA WindowCount ==
  ASSUME NEW t \in 0 .. MaxTime, NEW g, Flat(g, t),
         NEW h, h = [u \in 0 .. MaxTime |-> IF u >= t THEN g[u] + 1 ELSE g[u]]
  PROVE  /\ Flat(h, t)
         /\ \A s \in 0 .. t : Window(h, s, t) = Window(g, s, t) + 1
         /\ \A e \in 0 .. t - 1 : \A s \in 0 .. e : Window(h, s, e) = Window(g, s, e)
<1>1. MaxTime \in Nat /\ g \in [0 .. MaxTime -> Nat] /\ \A u \in t .. MaxTime : g[u] = g[t]
  BY RateSizes DEF Flat, Counts
<1>2. \A u \in 0 .. MaxTime : g[u] \in Nat /\ h[u] \in Nat /\ (u >= t => h[u] = g[u] + 1) /\ (u < t => h[u] = g[u])
  BY <1>1
<1>3. h \in Counts
  BY <1>2 DEF Counts
<1>4. Flat(h, t)
  BY <1>1, <1>2, <1>3 DEF Flat
<1>5. \A s \in 0 .. t : s # 0 => s - 1 \in 0 .. MaxTime /\ s - 1 < t
  BY <1>1
<1>6. \A s \in 0 .. t : Window(h, s, t) = Window(g, s, t) + 1
  <2> SUFFICES ASSUME NEW s \in 0 .. t PROVE Window(h, s, t) = Window(g, s, t) + 1
    OBVIOUS
  <2>1. h[t] = g[t] + 1 /\ g[t] \in Nat
    BY <1>2
  <2>2. CASE s = 0
    BY <2>1, <2>2 DEF Window
  <2>3. CASE s # 0
    <3>1. h[s - 1] = g[s - 1] /\ g[s - 1] \in Nat
      BY <1>2, <1>5, <2>3
    <3> QED BY <2>1, <2>3, <3>1 DEF Window
  <2> QED BY <2>2, <2>3
<1>7. \A e \in 0 .. t - 1 : \A s \in 0 .. e : Window(h, s, e) = Window(g, s, e)
  <2> SUFFICES ASSUME NEW e \in 0 .. t - 1, NEW s \in 0 .. e PROVE Window(h, s, e) = Window(g, s, e)
    OBVIOUS
  <2>1. e \in 0 .. MaxTime /\ e < t /\ (s # 0 => s - 1 \in 0 .. MaxTime /\ s - 1 < t)
    BY <1>1
  <2> QED BY <1>2, <2>1 DEF Window
<1> QED BY <1>4, <1>6, <1>7

(* A window shows a number.                                                *)
LEMMA WindowInt ==
  ASSUME NEW g \in Counts, NEW e \in 0 .. MaxTime, NEW s \in 0 .. e
  PROVE  Window(g, s, e) \in Int
<1>1. g[e] \in Nat /\ (s # 0 => s - 1 \in 0 .. MaxTime /\ g[s - 1] \in Nat)
  BY RateSizes DEF Counts
<1> QED BY <1>1 DEF Window

(* A limiter that keeps its bound: what was granted in any window that     *)
(* ends now, and what could still be granted, is within it.                *)
Within(g, s, t, v, rate, burst) == Window(g, s, t) + v <= burst + rate * (t - s)

(* As time passes the bound grows by what is refilled.                     *)
LEMMA WithinTick ==
  ASSUME NEW rate \in Nat, NEW burst \in Nat, NEW t \in Nat, t + 1 <= MaxTime, NEW g, Flat(g, t),
         NEW s \in 0 .. t, NEW v \in 0 .. burst, Within(g, s, t, v, rate, burst),
         NEW w \in 0 .. burst, w <= v + rate
  PROVE  Within(g, s, t + 1, w, rate, burst)
<1>1. PICK n \in Nat : n = t - s /\ n + 1 = t + 1 - s
  <2>1. t - s \in Nat /\ (t - s) + 1 = t + 1 - s
    OBVIOUS
  <2> QED BY <2>1
<1>2. PICK r \in Nat : r = rate * n
  BY Refills
<1>3. PICK q \in Nat : q = rate * (n + 1) /\ q = r + rate
  BY <1>2, Refills
<1>4. PICK x \in Int : x = Window(g, s, t)
  <2>1. t \in 0 .. MaxTime /\ g \in Counts
    BY RateSizes DEF Flat
  <2> QED BY <2>1, WindowInt
<1>5. Window(g, s, t + 1) = x
  BY <1>4, WindowTick
<1>6. x + v <= burst + r
  BY <1>1, <1>2, <1>4 DEF Within
<1>7. x + w <= burst + q
  BY <1>3, <1>6
<1> QED BY <1>1, <1>3, <1>5, <1>7 DEF Within

(* A window that begins now.                                               *)
LEMMA WithinNew ==
  ASSUME NEW rate \in Nat, NEW burst \in Nat, NEW t \in Nat, t + 1 <= MaxTime, NEW g, Flat(g, t),
         NEW w \in 0 .. burst
  PROVE  Within(g, t + 1, t + 1, w, rate, burst)
<1>1. Window(g, t + 1, t + 1) = 0
  BY WindowTick
<1>2. rate * ((t + 1) - (t + 1)) = 0
  <2>1. (t + 1) - (t + 1) = 0
    OBVIOUS
  <2> QED BY <2>1
<1> QED BY <1>1, <1>2 DEF Within

(* What is granted is no longer there to grant.                            *)
LEMMA WithinCount ==
  ASSUME NEW rate \in Nat, NEW burst \in Nat, NEW t \in 0 .. MaxTime, NEW g, Flat(g, t),
         NEW h, h = [u \in 0 .. MaxTime |-> IF u >= t THEN g[u] + 1 ELSE g[u]],
         NEW s \in 0 .. t, NEW v \in Int, Within(g, s, t, v, rate, burst)
  PROVE  Within(h, s, t, v - 1, rate, burst)
<1>1. PICK n \in Nat : n = t - s
  <2>1. t - s \in Nat
    BY RateSizes
  <2> QED BY <2>1
<1>2. PICK r \in Nat : r = rate * n
  BY Refills
<1>3. PICK x \in Int : x = Window(g, s, t)
  <2>1. g \in Counts
    BY DEF Flat
  <2> QED BY <2>1, WindowInt
<1>4. Window(h, s, t) = x + 1
  BY <1>3, WindowCount
<1>5. x + v <= burst + r
  BY <1>1, <1>2, <1>3 DEF Within
<1>6. (x + 1) + (v - 1) <= burst + r
  BY <1>5
<1> QED BY <1>1, <1>2, <1>4, <1>6 DEF Within

(* Whatever can still be granted, the bound is kept.                       *)
LEMMA WithinBound ==
  ASSUME NEW rate \in Nat, NEW burst \in Nat, NEW t \in 0 .. MaxTime, NEW g \in Counts,
         NEW s \in 0 .. t, NEW v \in Nat, Within(g, s, t, v, rate, burst)
  PROVE  Window(g, s, t) <= burst + rate * (t - s)
<1>1. PICK n \in Nat : n = t - s
  <2>1. t - s \in Nat
    BY RateSizes
  <2> QED BY <2>1
<1>2. PICK r \in Nat : r = rate * n
  BY Refills
<1>3. PICK x \in Int : x = Window(g, s, t)
  BY WindowInt
<1>4. x + v <= burst + r
  BY <1>1, <1>2, <1>3 DEF Within
<1> QED BY <1>1, <1>2, <1>3, <1>4

-----------------------------------------------------------------------------
(* The invariant behind RateWindow.                                        *)

Addresses == Client \cup {"all"}
IpList == maps["request"]

Quiet(a, s, e) == pushedOut[a] \cap ((s - Pause) .. e) = {}

History ==
  /\ granted \in [Addresses -> Counts] /\ \A a \in Addresses : Flat(granted[a], now)
  /\ pushedOut \in [Client -> SUBSET (0 .. now)]
  /\ global \in Bucket(GlobalBurst) /\ global.at <= now

(* Who may charge a bucket: a bucket belongs to one key of one map, for    *)
(* the list and for every request that holds it.                           *)
MapOf(pc) == IF pc = "perIPCharge" THEN "request" ELSE IF pc = "notFoundCharge" THEN "notFound" ELSE "auth"
Holds(q, id, m, key) == q.pc \in Charging /\ q.bucket = id /\ MapOf(q.pc) = m /\ q.ip = key
InList(list, id, key) == \E i \in 1 .. Len(list) : list[i].id = id /\ list[i].key = key
Named(id, m, key) == InList(maps[m], id, key) \/ \E r \in Req : Holds(req[r], id, m, key)
Owners ==
  \A id \in Ids, m, l \in Maps, a, b \in Client : Named(id, m, a) /\ Named(id, l, b) => m = l /\ a = b

(* A request that holds a bucket looked it up no longer ago than a pause,  *)
(* and no later than the entry says; if the entry is gone, it was pushed   *)
(* out since.                                                              *)
Prompt(q) == q.pc \in Charging => q.since <= now /\ now <= q.since + Pause
Backed(q) ==
  q.pc = "perIPCharge" =>
    /\ \A i \in 1 .. Len(IpList) : IpList[i].id = q.bucket => q.since <= IpList[i].last
    /\ (\A i \in 1 .. Len(IpList) : IpList[i].id # q.bucket) => \E p \in pushedOut[q.ip] : q.since <= p
InFlight == \A r \in Req : Prompt(req[r]) /\ Backed(req[r])

(* A bucket in the list was charged no later than a pause after its entry  *)
(* was last asked for.                                                     *)
Dated ==
  \A i \in 1 .. Len(IpList) :
    heap[IpList[i].id].at <= now /\ heap[IpList[i].id].at <= IpList[i].last + Pause

(* What an address could get at once: what is in its bucket, or in the new *)
(* one it would be given.                                                  *)
Spare(a, v) ==
  \/ \E i \in 1 .. Len(IpList) : IpList[i].key = a /\ v = Level(heap[IpList[i].id], now, Rate, Burst)
  \/ v = Burst /\ \A i \in 1 .. Len(IpList) : IpList[i].key # a

Room ==
  \A a \in Client, s \in 0 .. now, v \in 0 .. Burst :
    Quiet(a, s, now) /\ Spare(a, v) => Within(granted[a], s, now, v, Rate, Burst)
RoomForAll ==
  \A s \in 0 .. now :
    Within(granted["all"], s, now, Level(global, now, GlobalRate, GlobalBurst), GlobalRate, GlobalBurst)

Kept(a, s, e) ==
  (a \in Client => Quiet(a, s, e)) =>
    Window(granted[a], s, e) <= IF a = "all" THEN GlobalBurst + GlobalRate * (e - s) ELSE Burst + Rate * (e - s)
Earlier == \A a \in Addresses, e \in 0 .. now - 1 : \A s \in 0 .. e : Kept(a, s, e)

WindowInv == History /\ Owners /\ InFlight /\ Dated /\ Room /\ RoomForAll /\ Earlier

-----------------------------------------------------------------------------
(* What the two invariants say of the state.                               *)

(* The clock, the heap and the list of addresses.                          *)
LEMMA Shape ==
  ASSUME Budgets
  PROVE  /\ now \in Nat /\ now \in 0 .. MaxTime /\ MaxTime \in Nat
         /\ heap \in [Ids -> Bucket(Burst)]
         /\ \A m \in Maps : /\ maps[m] \in Seq(Entry) /\ Len(maps[m]) \in Nat
                            /\ MapFits(maps[m], now)
                            /\ \A i \in 1 .. Len(maps[m]) : /\ maps[m][i] \in Entry /\ maps[m][i].id \in Ids
                                                            /\ maps[m][i].key \in Client
                                                            /\ maps[m][i].last \in Nat
                                                            /\ maps[m][i].last <= now
<1>1. now \in Nat /\ now \in 0 .. MaxTime /\ MaxTime \in Nat /\ heap \in [Ids -> Bucket(Burst)]
  BY RateSizes DEF Budgets
<1>2. ASSUME NEW m \in Maps
      PROVE  /\ maps[m] \in Seq(Entry) /\ Len(maps[m]) \in Nat /\ MapFits(maps[m], now)
             /\ \A i \in 1 .. Len(maps[m]) : /\ maps[m][i] \in Entry /\ maps[m][i].id \in Ids
                                             /\ maps[m][i].key \in Client
                                             /\ maps[m][i].last \in Nat /\ maps[m][i].last <= now
  <2>1. PICK list : list = maps[m]
    OBVIOUS
  <2>2. list \in Seq(Entry) /\ MapFits(list, now)
    BY <2>1 DEF Budgets, Lists
  <2>3. Len(list) \in Nat /\ \A i \in 1 .. Len(list) : list[i] \in Entry
    BY <2>2
  <2> QED BY <2>1, <2>2, <2>3 DEF MapFits, NoneLater, Entry
<1> QED BY <1>1, <1>2

(* The same of the list of addresses.                                      *)
LEMMA IpShape ==
  ASSUME Budgets
  PROVE  /\ IpList \in Seq(Entry) /\ Len(IpList) \in Nat /\ MapFits(IpList, now)
         /\ \A i \in 1 .. Len(IpList) : /\ IpList[i] \in Entry /\ IpList[i].id \in Ids
                                        /\ IpList[i].key \in Client /\ IpList[i].last \in Nat
                                        /\ IpList[i].last <= now
                                        /\ heap[IpList[i].id] \in Bucket(Burst)
<1>1. "request" \in Maps
  BY DEF Maps
<1> QED BY <1>1, Shape DEF IpList

(* A key has one entry.                                                    *)
LEMMA OneEntry ==
  ASSUME NEW at, NEW list, MapFits(list, at), NEW i \in 1 .. Len(list), NEW j \in 1 .. Len(list),
         list[i].key = list[j].key
  PROVE  i = j
<1>1. Len(list) \in Nat
  BY DEF MapFits
<1>2. ~(i < j) /\ ~(j < i)
  BY DEF MapFits, Ordered
<1> QED BY <1>1, <1>2

(* An address has something it could get at once.                          *)
LEMMA SpareExists ==
  ASSUME Budgets, Dated, NEW a
  PROVE  \E v \in 0 .. Burst : Spare(a, v)
<1>1. CASE \A i \in 1 .. Len(IpList) : IpList[i].key # a
  <2>1. Burst \in 0 .. Burst
    BY RateSizes
  <2> QED BY <1>1, <2>1 DEF Spare
<1>2. ASSUME NEW i \in 1 .. Len(IpList), IpList[i].key = a
      PROVE  \E v \in 0 .. Burst : Spare(a, v)
  <2>1. heap[IpList[i].id] \in Bucket(Burst) /\ heap[IpList[i].id].at <= now
    BY IpShape DEF Dated
  <2>2. Level(heap[IpList[i].id], now, Rate, Burst) \in 0 .. Burst
    BY <2>1, Shape, RateSizes, LevelTick
  <2> QED BY <1>2, <2>2 DEF Spare
<1> QED BY <1>1, <1>2

(* What may still be granted leaves every window that ends now in bounds.  *)
LEMMA KeptNow ==
  ASSUME Budgets, History, Dated, Room, RoomForAll, NEW a \in Addresses, NEW s \in 0 .. now
  PROVE  Kept(a, s, now)
<1>0. now \in 0 .. MaxTime /\ granted[a] \in Counts /\ granted["all"] \in Counts
  BY Shape DEF History, Addresses
<1>1. CASE a = "all"
  <2>1. PICK v \in Nat : v = Level(global, now, GlobalRate, GlobalBurst)
    <3>1. Level(global, now, GlobalRate, GlobalBurst) \in 0 .. GlobalBurst
      BY Shape, RateSizes, LevelTick DEF History
    <3> QED BY <3>1, RateSizes
  <2>2. Within(granted[a], s, now, v, GlobalRate, GlobalBurst)
    BY <1>1, <2>1 DEF RoomForAll
  <2>3. Window(granted[a], s, now) <= GlobalBurst + GlobalRate * (now - s)
    BY <1>0, <2>2, RateSizes, WithinBound
  <2> QED BY <1>1, <2>3 DEF Kept
<1>2. CASE a # "all" /\ Quiet(a, s, now)
  <2>1. a \in Client
    BY <1>2 DEF Addresses
  <2>2. PICK v \in 0 .. Burst : Spare(a, v)
    BY SpareExists
  <2>3. Within(granted[a], s, now, v, Rate, Burst) /\ v \in Nat
    BY <1>2, <2>1, <2>2, RateSizes DEF Room
  <2>4. Window(granted[a], s, now) <= Burst + Rate * (now - s)
    BY <1>0, <2>3, RateSizes, WithinBound
  <2> QED BY <1>2, <2>4 DEF Kept
<1>3. CASE a # "all" /\ ~Quiet(a, s, now)
  BY <1>3 DEF Kept, Addresses
<1> QED BY <1>1, <1>2, <1>3

(* The property.                                                           *)
LEMMA WindowsHold ==
  ASSUME GateIInv, WindowInv
  PROVE  RateWindow
<1> SUFFICES ASSUME NEW a \in Addresses, NEW e \in 0 .. now, NEW s \in 0 .. e
             PROVE  Kept(a, s, e)
  BY DEF RateWindow, Kept, Quiet, Window, Admitted, Addresses
<1>0. Budgets /\ now \in Nat
  BY Shape DEF GateIInv
<1>1. CASE e = now
  BY <1>0, <1>1, KeptNow DEF WindowInv
<1>2. CASE e \in 0 .. now - 1
  BY <1>2 DEF WindowInv, Earlier
<1> QED BY <1>0, <1>1, <1>2

-----------------------------------------------------------------------------
(* Steps that look no bucket up.                                           *)

(* No request but r moves, and r comes to hold no bucket.                  *)
LetsGo(r) == req'[r].pc \notin Charging /\ \A q \in Req \ {r} : req'[q] = req[q]
(* No request comes to hold one.                                           *)
Keeps ==
  \A q \in Req : req'[q].pc \in Charging =>
    /\ req'[q].pc = req[q].pc /\ req'[q].bucket = req[q].bucket
    /\ req'[q].ip = req[q].ip /\ req'[q].since = req[q].since

(* The first is a case of the second.                                      *)
LEMMA LetGoKeeps ==
  ASSUME NEW r \in Req, LetsGo(r)
  PROVE  Keeps
BY DEF LetsGo, Keeps

(* An answer lets the bucket go.                                           *)
LEMMA AnswerLetsGo ==
  ASSUME Requests, NEW r \in Req, NEW code, req' = Answer(r, code)
  PROVE  LetsGo(r)
<1> DEFINE k == Answered(req[r], code)
<1>1. req \in [Req -> ReqState]
  BY DEF Requests
<1>2. k.pc = "done"
  <2>1. PICK q \in ReqState : q = req[r]
    BY <1>1
  <2>2. Answered(q, code).pc = "done"
    BY DEF ReqState, Answered
  <2> QED BY <2>1, <2>2
<1>3. MovesTo(r, k)
  BY AnswerMoves
<1> HIDE DEF k
<1>4. req'[r] = k /\ \A q \in Req \ {r} : req'[q] = req[q]
  BY <1>1, <1>3 DEF MovesTo
<1> QED BY <1>2, <1>4 DEF LetsGo, Charging

(* So does going on to a place where none is charged.                      *)
LEMMA GotoLetsGo ==
  ASSUME Requests, NEW r \in Req, NEW p \in Place \ Charging,
         req' = Goto(r, p) \/ req' = [Goto(r, p) EXCEPT ![r].bucket = 0]
           \/ req' = [Goto(r, p) EXCEPT ![r].storeFailed = TRUE]
  PROVE  LetsGo(r)
<1>1. req \in [Req -> ReqState]
  BY DEF Requests
<1>2. PICK q \in ReqState : q = req[r]
  BY <1>1
<1>3. /\ [q EXCEPT !.pc = p].pc = p
      /\ [[q EXCEPT !.pc = p] EXCEPT !.bucket = 0].pc = p
      /\ [[q EXCEPT !.pc = p] EXCEPT !.storeFailed = TRUE].pc = p
  BY DEF ReqState
<1>4. CASE req' = Goto(r, p)
  <2>1. req' = [req EXCEPT ![r] = [q EXCEPT !.pc = p]]
    BY <1>1, <1>2, <1>4 DEF Goto
  <2> QED BY <1>1, <1>3, <2>1 DEF LetsGo
<1>5. CASE req' = [Goto(r, p) EXCEPT ![r].bucket = 0]
  <2>1. req' = [req EXCEPT ![r] = [[q EXCEPT !.pc = p] EXCEPT !.bucket = 0]]
    BY <1>1, <1>2, <1>5 DEF Goto
  <2> QED BY <1>1, <1>3, <2>1 DEF LetsGo
<1>6. CASE req' = [Goto(r, p) EXCEPT ![r].storeFailed = TRUE]
  <2>1. req' = [req EXCEPT ![r] = [[q EXCEPT !.pc = p] EXCEPT !.storeFailed = TRUE]]
    BY <1>1, <1>2, <1>6 DEF Goto
  <2> QED BY <1>1, <1>3, <2>1 DEF LetsGo
<1> QED BY <1>4, <1>5, <1>6

(* Requests hold no more than before.                                      *)
LEMMA FlightStays ==
  ASSUME Owners, InFlight, Keeps, UNCHANGED <<now, maps, pushedOut>>
  PROVE  Owners' /\ InFlight'
<1>1. \A id, m, key : Named(id, m, key)' => Named(id, m, key)
  <2>1. \A q \in Req : \A id, m, key : Holds(req'[q], id, m, key) => Holds(req[q], id, m, key)
    BY DEF Keeps, Holds
  <2> QED BY <2>1 DEF Named, InList
<1>2. Owners'
  BY <1>1 DEF Owners
<1>3. ASSUME NEW q \in Req PROVE Prompt(req[q])' /\ Backed(req[q])'
  <2>1. Prompt(req[q]) /\ Backed(req[q])
    BY DEF InFlight
  <2>2. Prompt(req[q])'
    BY <2>1 DEF Keeps, Prompt
  <2>3. IpList' = IpList
    BY DEF IpList
  <2>4. Backed(req[q])'
    BY <2>1, <2>3 DEF Keeps, Backed, Charging
  <2> QED BY <2>2, <2>4
<1> QED BY <1>2, <1>3 DEF InFlight

(* The history of all others when one more is granted to a.                *)
LEMMA CountIs ==
  ASSUME History, now \in 0 .. MaxTime, NEW a \in Addresses, granted' = Count(a)
  PROVE  /\ granted' \in [Addresses -> Counts]
         /\ \A b \in Addresses : Flat(granted'[b], now)
         /\ \A b \in Addresses \ {a} : granted'[b] = granted[b]
         /\ granted'[a] = [u \in 0 .. MaxTime |-> IF u >= now THEN granted[a][u] + 1 ELSE granted[a][u]]
<1> DEFINE h == [u \in 0 .. MaxTime |-> IF u >= now THEN granted[a][u] + 1 ELSE granted[a][u]]
<1>1. Flat(granted[a], now) /\ granted \in [Addresses -> Counts]
  BY DEF History
<1>2. Flat(h, now)
  BY <1>1, WindowCount
<1>3. h \in Counts
  BY <1>2 DEF Flat
<1>4. granted' = [granted EXCEPT ![a] = h]
  BY DEF Count
<1> HIDE DEF h
<1>5. /\ granted' \in [Addresses -> Counts] /\ granted'[a] = h
      /\ \A b \in Addresses \ {a} : granted'[b] = granted[b]
  BY <1>1, <1>3, <1>4
<1>6. \A b \in Addresses : Flat(granted'[b], now)
  BY <1>2, <1>5 DEF History
<1> QED BY <1>5, <1>6 DEF h

(* Windows that ended stay as they are.                                    *)
LEMMA EarlierStays ==
  ASSUME Budgets, History, Earlier, UNCHANGED now, History',
         granted' = granted \/ \E a \in Addresses : granted' = Count(a),
         \A a \in Client : pushedOut[a] \subseteq pushedOut'[a]
  PROVE  Earlier'
<1>0. now \in 0 .. MaxTime
  BY Shape
<1>1. ASSUME NEW b \in Addresses, NEW e \in 0 .. now - 1, NEW s \in 0 .. e
      PROVE  Window(granted'[b], s, e) = Window(granted[b], s, e)
  <2>1. CASE granted' = granted
    BY <2>1
  <2>2. ASSUME NEW a \in Addresses, granted' = Count(a)
        PROVE  Window(granted'[b], s, e) = Window(granted[b], s, e)
    <3>1. CASE b = a
      BY <1>0, <2>2, <3>1, CountIs, WindowCount DEF History
    <3>2. CASE b # a
      BY <1>0, <2>2, <3>2, CountIs
    <3> QED BY <3>1, <3>2
  <2> QED BY <2>1, <2>2
<1>2. ASSUME NEW a \in Client, NEW s, NEW e, Quiet(a, s, e)' PROVE Quiet(a, s, e)
  BY <1>2 DEF Quiet
<1>3. ASSUME NEW b \in Addresses, NEW e \in 0 .. now - 1, NEW s \in 0 .. e
      PROVE  Kept(b, s, e)'
  <2>1. Kept(b, s, e)
    BY <1>3 DEF Earlier
  <2> QED BY <1>1, <1>2, <1>3, <2>1 DEF Kept
<1> QED BY <1>3 DEF Earlier

(* A step that touches no budget.                                          *)
LEMMA WindowStill ==
  ASSUME WindowInv, Keeps, UNCHANGED <<now, maps, heap, global, granted, pushedOut>>
  PROVE  WindowInv'
<1>1. Owners' /\ InFlight'
  BY FlightStays DEF WindowInv
<1>2. IpList' = IpList
  BY DEF IpList
<1>3. History' /\ Dated'
  BY <1>2 DEF WindowInv, History, Dated
<1>4. Room'
  <2>1. \A a, v : Spare(a, v)' => Spare(a, v)
    BY <1>2 DEF Spare
  <2>2. \A a, s, e : Quiet(a, s, e)' => Quiet(a, s, e)
    BY DEF Quiet
  <2> QED BY <2>1, <2>2 DEF WindowInv, Room
<1>5. RoomForAll'
  BY DEF WindowInv, RoomForAll
<1>6. Earlier'
  BY DEF WindowInv, Earlier, Kept, Quiet
<1> QED BY <1>1, <1>3, <1>4, <1>5, <1>6 DEF WindowInv

(* The global bucket.                                                      *)
LEMMA WindowGlobal ==
  ASSUME GateIInv, WindowInv, NEW r \in Req, globalRateLimit(r)
  PROVE  WindowInv'
<1> DEFINE has == HasToken(global, now, GlobalRate, GlobalBurst)
<1>0. /\ Budgets /\ History /\ Owners /\ InFlight /\ Dated /\ Room /\ RoomForAll /\ Earlier
      /\ now \in 0 .. MaxTime /\ now \in Nat /\ "all" \in Addresses /\ "all" \notin Client
  BY Shape, GateAssumption DEF GateIInv, WindowInv, Addresses
<1>1. /\ global' = AfterAllow(global, now, GlobalRate, GlobalBurst)
      /\ granted' = IF has THEN Count("all") ELSE granted
      /\ UNCHANGED <<now, maps, heap, pushedOut>>
      /\ req' = Goto(r, "perIP") \/ req' = Answer(r, "429")
  BY DEF globalRateLimit
<1>2. Keeps
  <2>2. CASE req' = Goto(r, "perIP")
    <3>1. "perIP" \in Place \ Charging
      BY DEF Place, Charging
    <3> QED BY <2>2, <3>1, GotoLetsGo, LetGoKeeps DEF GateIInv
  <2>3. CASE req' = Answer(r, "429")
    BY <2>3, AnswerLetsGo, LetGoKeeps DEF GateIInv
  <2> QED BY <1>1, <2>2, <2>3
<1>3. Owners' /\ InFlight'
  BY <1>0, <1>1, <1>2, FlightStays
<1>4. /\ global' \in Bucket(GlobalBurst) /\ global'.at <= now
      /\ has => Level(global', now, GlobalRate, GlobalBurst) = Level(global, now, GlobalRate, GlobalBurst) - 1
      /\ ~has => Level(global', now, GlobalRate, GlobalBurst) = Level(global, now, GlobalRate, GlobalBurst)
  BY <1>0, <1>1, RateSizes, LevelAllow DEF History
<1>5. /\ granted' \in [Addresses -> Counts] /\ \A b \in Addresses : Flat(granted'[b], now)
      /\ \A b \in Client : granted'[b] = granted[b]
  BY <1>0, <1>1, CountIs DEF History, Addresses
<1>6. History'
  BY <1>0, <1>1, <1>4, <1>5 DEF History
<1>7. IpList' = IpList /\ Dated'
  BY <1>0, <1>1 DEF IpList, Dated
<1>8. Room'
  <2>1. \A a, v : Spare(a, v)' => Spare(a, v)
    BY <1>1, <1>7 DEF Spare
  <2>2. \A a, s, e : Quiet(a, s, e)' => Quiet(a, s, e)
    BY <1>1 DEF Quiet
  <2> QED BY <1>0, <1>1, <1>5, <2>1, <2>2 DEF Room
<1>9. RoomForAll'
  <2> SUFFICES ASSUME NEW s \in 0 .. now
               PROVE  Within(granted'["all"], s, now, Level(global', now, GlobalRate, GlobalBurst),
                             GlobalRate, GlobalBurst)
    BY <1>1 DEF RoomForAll
  <2>1. PICK v \in Int : v = Level(global, now, GlobalRate, GlobalBurst)
    <3>1. Level(global, now, GlobalRate, GlobalBurst) \in 0 .. GlobalBurst
      BY <1>0, RateSizes, LevelTick DEF History
    <3> QED BY <3>1, RateSizes
  <2>2. Within(granted["all"], s, now, v, GlobalRate, GlobalBurst) /\ Flat(granted["all"], now)
    BY <1>0, <2>1 DEF RoomForAll, History
  <2>3. CASE has
    <3>1. granted'["all"] = [u \in 0 .. MaxTime |-> IF u >= now THEN granted["all"][u] + 1 ELSE granted["all"][u]]
      BY <1>0, <1>1, <2>3, CountIs
    <3>2. Within(granted'["all"], s, now, v - 1, GlobalRate, GlobalBurst)
      BY <1>0, <2>2, <3>1, RateSizes, WithinCount
    <3> QED BY <1>4, <2>1, <2>3, <3>2
  <2>4. CASE ~has
    BY <1>1, <1>4, <2>1, <2>2, <2>4
  <2> QED BY <2>3, <2>4
<1>10. Earlier'
  <2>1. granted' = granted \/ \E a \in Addresses : granted' = Count(a)
    BY <1>0, <1>1
  <2>2. \A a \in Client : pushedOut[a] \subseteq pushedOut'[a]
    BY <1>1
  <2> QED BY <1>0, <1>1, <1>6, <2>1, <2>2, EarlierStays
<1> QED BY <1>3, <1>6, <1>7, <1>8, <1>9, <1>10 DEF WindowInv

(* Where the bucket a request is about to charge is in the list, it is     *)
(* that of its own address and was asked for within the pause; where it is *)
(* not, the address lost its entry to the cap since.                       *)
LEMMA HeldBucket ==
  ASSUME GateIInv, WindowInv, NEW r \in Req, req[r].pc \in Charging
  PROVE  /\ req[r].bucket \in Ids /\ req[r].ip \in Client
         /\ \A i \in 1 .. Len(IpList) : IpList[i].id = req[r].bucket =>
              /\ req[r].pc = "perIPCharge" /\ IpList[i].key = req[r].ip
              /\ now <= IpList[i].last + Pause
         /\ req[r].pc = "perIPCharge" /\ (\A i \in 1 .. Len(IpList) : IpList[i].id # req[r].bucket) =>
              \A s \in 0 .. now : ~Quiet(req[r].ip, s, now)
<1> DEFINE q == req[r]
           b == q.bucket
<1>0. /\ Budgets /\ History /\ Owners /\ Prompt(q) /\ Backed(q) /\ ReqFits(q, tokens)
      /\ now \in Nat /\ Pause \in Nat
  BY Shape, RateSizes DEF GateIInv, WindowInv, InFlight, Requests
<1>1. b \in Ids /\ q.ip \in Client /\ q.since \in Nat
  <2>1. b \in Ids
    BY <1>0 DEF ReqFits, Underway
  <2>2. q.since \in Nat
    BY <1>0 DEF ReqFits, ReqState
  <2>3. q.pc # "none"
    BY DEF Charging
  <2>4. q.ip \in Client
    BY <1>0, <2>3 DEF ReqFits, Addressed
  <2> QED BY <2>1, <2>2, <2>4
<1>2. MapOf(q.pc) \in Maps /\ (MapOf(q.pc) = "request" => q.pc = "perIPCharge")
  BY DEF MapOf, Maps, Charging
<1>3. Named(b, MapOf(q.pc), q.ip)
  BY DEF Named, Holds
<1>4. q.since <= now /\ now <= q.since + Pause
  BY <1>0 DEF Prompt
<1>5. ASSUME NEW i \in 1 .. Len(IpList), IpList[i].id = b
      PROVE  q.pc = "perIPCharge" /\ IpList[i].key = q.ip /\ now <= IpList[i].last + Pause
  <2>1. IpList[i].key \in Client /\ IpList[i].last \in Nat
    BY <1>0, IpShape
  <2>2. Named(b, "request", IpList[i].key) /\ "request" \in Maps
    BY <1>5 DEF Named, InList, IpList, Maps
  <2>3. "request" = MapOf(q.pc) /\ IpList[i].key = q.ip
    <3> HIDE DEF q, b
    <3> QED BY <1>0, <1>1, <1>2, <1>3, <2>1, <2>2 DEF Owners
  <2>4. q.since <= IpList[i].last
    BY <1>0, <1>2, <1>5, <2>3 DEF Backed
  <2> QED BY <1>0, <1>1, <1>2, <1>4, <2>1, <2>3, <2>4
<1>6. ASSUME q.pc = "perIPCharge", \A i \in 1 .. Len(IpList) : IpList[i].id # b, NEW s \in 0 .. now
      PROVE  ~Quiet(q.ip, s, now)
  <2>1. PICK p \in pushedOut[q.ip] : q.since <= p
    BY <1>0, <1>6 DEF Backed
  <2>2. p \in 0 .. now
    BY <1>0, <1>1, <2>1 DEF History
  <2>3. p \in (s - Pause) .. now
    BY <1>0, <1>1, <1>4, <2>1, <2>2
  <2> QED BY <2>1, <2>3 DEF Quiet
<1> QED BY <1>1, <1>5, <1>6

(* A bucket is charged, whoever's it is, wherever it is.                   *)
LEMMA WindowCharge ==
  ASSUME GateIInv, WindowInv, NEW r \in Req, req[r].pc \in Charging, Charge(r), LetsGo(r),
         UNCHANGED <<now, maps, global, pushedOut>>,
         granted' = IF req[r].pc = "perIPCharge" /\ Affordable(r) THEN Count(req[r].ip) ELSE granted
  PROVE  WindowInv'
<1> DEFINE q == req[r]
           b == q.bucket
           had == HasToken(heap[b], now, Rate, Burst)
           c == AfterAllow(heap[b], now, Rate, Burst)
           counted == q.pc = "perIPCharge" /\ had
<1>0. /\ Budgets /\ History /\ Owners /\ InFlight /\ Dated /\ Room /\ RoomForAll /\ Earlier
      /\ now \in 0 .. MaxTime /\ now \in Nat /\ "all" \in Addresses /\ "all" \notin Client
      /\ Rate \in Nat /\ Burst \in Nat
  BY Shape, GateAssumption, RateSizes DEF GateIInv, WindowInv, Addresses
<1>1. /\ b \in Ids /\ q.ip \in Client
      /\ \A i \in 1 .. Len(IpList) : IpList[i].id = b =>
           q.pc = "perIPCharge" /\ IpList[i].key = q.ip /\ now <= IpList[i].last + Pause
      /\ q.pc = "perIPCharge" /\ (\A i \in 1 .. Len(IpList) : IpList[i].id # b) =>
           \A s \in 0 .. now : ~Quiet(q.ip, s, now)
  BY HeldBucket
<1>2. Owners' /\ InFlight'
  BY <1>0, LetGoKeeps, FlightStays
<1>3. heap[b] \in Bucket(Burst) /\ heap' = [heap EXCEPT ![b] = c] /\ heap'[b] = c
      /\ \A id \in Ids \ {b} : heap'[id] = heap[id]
  BY <1>0, <1>1, Shape DEF Charge
<1>4. granted' = IF counted THEN Count(q.ip) ELSE granted
  BY DEF Affordable
<1>5. heap[b].at <= now =>
        /\ c.at <= now
        /\ had => Level(c, now, Rate, Burst) = Level(heap[b], now, Rate, Burst) - 1
        /\ ~had => Level(c, now, Rate, Burst) = Level(heap[b], now, Rate, Burst)
  <2> DEFINE d == heap[b]
  <2>1. d \in Bucket(Burst)
    BY <1>3
  <2> HIDE DEF d
  <2>2. c = AfterAllow(d, now, Rate, Burst) /\ (had <=> HasToken(d, now, Rate, Burst))
    BY DEF d
  <2> HIDE DEF c, had
  <2> QED BY <1>0, <2>1, <2>2, LevelAllow DEF d
<1>6. IpList' = IpList
  BY DEF IpList
<1>7. \A i \in 1 .. Len(IpList) : /\ IpList[i].id \in Ids /\ IpList[i].key \in Client
                                  /\ heap[IpList[i].id] \in Bucket(Burst) /\ heap[IpList[i].id].at <= now
                                  /\ heap[IpList[i].id].at <= IpList[i].last + Pause
                                  /\ IpList[i].last \in Nat
  BY <1>0, IpShape DEF Dated
<1> HIDE DEF q, b, had, c, counted
<1>8. Dated'
  <2> SUFFICES ASSUME NEW i \in 1 .. Len(IpList)
               PROVE  heap'[IpList[i].id].at <= now /\ heap'[IpList[i].id].at <= IpList[i].last + Pause
    BY <1>6 DEF Dated
  <2>1. CASE IpList[i].id # b
    BY <1>3, <1>7, <2>1
  <2>2. CASE IpList[i].id = b
    <3>1. c.at <= now /\ now <= IpList[i].last + Pause /\ c.at \in Nat
      <4>1. c \in Bucket(Burst)
        BY <1>0, <1>3, AllowBounded DEF c
      <4> QED BY <1>1, <1>5, <1>7, <2>2, <4>1 DEF Bucket
    <3>2. c.at <= IpList[i].last + Pause
      BY <1>0, <1>7, <3>1, RateSizes
    <3> QED BY <1>3, <2>2, <3>1, <3>2
  <2> QED BY <2>1, <2>2
<1>9. /\ granted' \in [Addresses -> Counts] /\ \A a \in Addresses : Flat(granted'[a], now)
      /\ \A a \in Addresses : a # q.ip \/ ~counted => granted'[a] = granted[a]
      /\ counted => granted'[q.ip] =
           [u \in 0 .. MaxTime |-> IF u >= now THEN granted[q.ip][u] + 1 ELSE granted[q.ip][u]]
  <2>1. q.ip \in Addresses
    BY <1>1 DEF Addresses
  <2>2. CASE counted
    <3>1. granted' = Count(q.ip)
      BY <1>4, <2>2
    <3> QED BY <1>0, <2>1, <2>2, <3>1, CountIs
  <2>3. CASE ~counted
    BY <1>0, <1>4, <2>3 DEF History
  <2> QED BY <2>2, <2>3
<1>10. History'
  BY <1>0, <1>9 DEF History
<1>11. Room'
  <2> SUFFICES ASSUME NEW a \in Client, NEW s \in 0 .. now, NEW v \in 0 .. Burst,
                      Quiet(a, s, now), Spare(a, v)'
               PROVE  Within(granted'[a], s, now, v, Rate, Burst)
    BY DEF Room, Quiet
  <2>0. a \in Addresses
    BY DEF Addresses
  <2>1. CASE a = q.ip /\ counted
    <3>1. PICK i \in 1 .. Len(IpList) : IpList[i].id = b
      BY <1>1, <2>1 DEF counted
    <3>2. IpList[i].key = a
      BY <1>1, <2>1, <3>1
    <3>3. PICK w \in 0 .. Burst : w = Level(heap[b], now, Rate, Burst)
      BY <1>0, <1>7, <3>1, LevelTick
    <3>4. Spare(a, w)
      BY <3>1, <3>2, <3>3 DEF Spare
    <3>5. Within(granted[a], s, now, w, Rate, Burst)
      BY <1>0, <3>4 DEF Room
    <3>6. w \in Int /\ Flat(granted[a], now)
      BY <1>0, <2>0 DEF History
    <3>7. Within(granted'[a], s, now, w - 1, Rate, Burst)
      BY <1>0, <1>9, <2>1, <3>5, <3>6, WithinCount
    <3>8. v = w - 1
      <4>1. PICK j \in 1 .. Len(IpList) : /\ IpList[j].key = a
                                          /\ v = Level(heap'[IpList[j].id], now, Rate, Burst)
        BY <1>6, <3>2 DEF Spare
      <4>2. j = i
        BY <1>0, <3>2, <4>1, IpShape, OneEntry
      <4>3. had /\ heap[b].at <= now
        BY <1>7, <2>1, <3>1 DEF counted
      <4> QED BY <1>3, <1>5, <3>1, <3>3, <4>1, <4>2, <4>3
    <3> QED BY <3>7, <3>8
  <2>2. CASE ~(a = q.ip /\ counted)
    <3>1. granted'[a] = granted[a]
      BY <1>9, <2>0, <2>2
    <3>2. Spare(a, v)
      <4>1. CASE \A i \in 1 .. Len(IpList) : IpList[i].key # a
        BY <1>6, <4>1 DEF Spare
      <4>2. ASSUME NEW i \in 1 .. Len(IpList), IpList[i].key = a,
                   v = Level(heap'[IpList[i].id], now, Rate, Burst)
            PROVE  Spare(a, v)
        <5>1. CASE IpList[i].id # b
          BY <1>3, <1>7, <4>2, <5>1 DEF Spare
        <5>2. CASE IpList[i].id = b
          <6>1. ~had
            BY <1>1, <2>2, <4>2, <5>2 DEF counted
          <6>2. v = Level(heap[b], now, Rate, Burst)
            BY <1>3, <1>5, <1>7, <4>2, <5>2, <6>1
          <6> QED BY <4>2, <5>2, <6>2 DEF Spare
        <5> QED BY <5>1, <5>2
      <4> QED BY <1>6, <4>1, <4>2 DEF Spare
    <3> QED BY <1>0, <3>1, <3>2 DEF Room
  <2> QED BY <2>1, <2>2
<1>12. RoomForAll'
  <2>1. granted'["all"] = granted["all"]
    BY <1>0, <1>1, <1>9
  <2> QED BY <1>0, <2>1 DEF RoomForAll
<1>13. Earlier'
  <2>1. granted' = granted \/ \E a \in Addresses : granted' = Count(a)
    BY <1>1, <1>4 DEF Addresses
  <2>2. \A a \in Client : pushedOut[a] \subseteq pushedOut'[a]
    OBVIOUS
  <2> QED BY <1>0, <1>10, <2>1, <2>2, EarlierStays
<1> QED BY <1>2, <1>8, <1>10, <1>11, <1>12, <1>13 DEF WindowInv

-----------------------------------------------------------------------------
(* Time passes.                                                            *)

(* What is refilled in a tick is what the bounds of the windows grow by.   *)
LEMMA WindowTicks ==
  ASSUME GateIInv, WindowInv, Tick
  PROVE  WindowInv'
<1>0. /\ Budgets /\ History /\ Owners /\ InFlight /\ Dated /\ Room /\ RoomForAll /\ Earlier
      /\ now \in 0 .. MaxTime /\ now \in Nat /\ Rate \in Nat /\ Burst \in Nat /\ Pause \in Nat
      /\ GlobalRate \in Nat /\ GlobalBurst \in Nat /\ MaxTime \in Nat
  BY Shape, RateSizes DEF GateIInv, WindowInv
<1>1. /\ now' = now + 1 /\ now + 1 <= MaxTime /\ now + 1 \in Nat
      /\ UNCHANGED <<req, maps, heap, global, granted, pushedOut>>
      /\ \A r \in Req : req[r].bucket # 0 => now + 1 - req[r].since <= Pause
  BY <1>0 DEF Tick, budgetVars
<1>2. IpList' = IpList
  BY <1>1 DEF IpList
<1>3. Owners'
  BY <1>0, <1>1 DEF Owners, Named, InList
<1>4. InFlight'
  <2> SUFFICES ASSUME NEW r \in Req PROVE Prompt(req[r])' /\ Backed(req[r])'
    BY DEF InFlight
  <2>1. Prompt(req[r]) /\ Backed(req[r]) /\ ReqFits(req[r], tokens)
    BY <1>0 DEF InFlight, GateIInv, Requests
  <2>2. Backed(req[r])'
    BY <1>1, <1>2, <2>1 DEF Backed
  <2>3. Prompt(req[r])'
    <3>1. req[r].since \in Nat /\ (req[r].pc \in Charging => req[r].bucket # 0)
      <4>1. 0 \notin Ids
        BY DEF Ids
      <4>2. req[r].since \in Nat
        BY <2>1 DEF ReqFits, ReqState
      <4>3. req[r].pc \in Charging => req[r].bucket \in Ids
        BY <2>1 DEF ReqFits, Underway
      <4> QED BY <4>1, <4>2, <4>3
    <3>2. PICK q : q = req[r]
      OBVIOUS
    <3>3. q.pc \in Charging => q.since <= now + 1 /\ now + 1 <= q.since + Pause
      BY <1>0, <1>1, <2>1, <3>1, <3>2 DEF Prompt
    <3> QED BY <1>1, <3>2, <3>3 DEF Prompt
  <2> QED BY <2>2, <2>3
<1>5. \A i \in 1 .. Len(IpList) : /\ heap[IpList[i].id] \in Bucket(Burst) /\ heap[IpList[i].id].at <= now
                                  /\ heap[IpList[i].id].at \in Nat
  BY <1>0, IpShape DEF Dated, Bucket
<1>6. Dated'
  <2> SUFFICES ASSUME NEW i \in 1 .. Len(IpList) PROVE heap[IpList[i].id].at <= now + 1
    BY <1>0, <1>1, <1>2 DEF Dated
  <2> QED BY <1>0, <1>5
<1>7. History'
  <2>1. \A a \in Addresses : Flat(granted[a], now + 1)
    BY <1>0, <1>1, WindowTick DEF History
  <2>2. pushedOut \in [Client -> SUBSET (0 .. now + 1)]
    BY <1>0 DEF History
  <2>3. global.at <= now + 1 /\ global \in Bucket(GlobalBurst)
    BY <1>0 DEF History, Bucket
  <2> QED BY <1>0, <1>1, <2>1, <2>2, <2>3 DEF History
<1>8. \A s : s \in 0 .. now + 1 => s \in 0 .. now \/ s = now + 1
  BY <1>0
<1>9. Room'
  <2> SUFFICES ASSUME NEW a \in Client, NEW s \in 0 .. now + 1, NEW w \in 0 .. Burst,
                      Quiet(a, s, now + 1), Spare(a, w)'
               PROVE  Within(granted[a], s, now + 1, w, Rate, Burst)
    BY <1>1 DEF Room, Quiet
  <2>0. a \in Addresses /\ Flat(granted[a], now)
    BY <1>0 DEF Addresses, History
  <2>1. CASE s = now + 1
    BY <1>0, <1>1, <2>0, <2>1, WithinNew
  <2>2. CASE s \in 0 .. now
    <3>1. PICK v \in 0 .. Burst : Spare(a, v) /\ w <= v + Rate
      <4>1. CASE \A i \in 1 .. Len(IpList) : IpList[i].key # a
        <5>1. w = Burst /\ Burst \in 0 .. Burst /\ Burst <= Burst + Rate
          BY <1>0, <1>2, <4>1 DEF Spare
        <5> QED BY <4>1, <5>1 DEF Spare
      <4>2. ASSUME NEW i \in 1 .. Len(IpList), IpList[i].key = a,
                   w = Level(heap[IpList[i].id], now + 1, Rate, Burst)
            PROVE  \E v \in 0 .. Burst : Spare(a, v) /\ w <= v + Rate
        <5>1. PICK v \in 0 .. Burst : v = Level(heap[IpList[i].id], now, Rate, Burst)
          BY <1>0, <1>5, LevelTick
        <5>2. w <= v + Rate
          BY <1>0, <1>5, <4>2, <5>1, LevelTick
        <5> QED BY <4>2, <5>1, <5>2 DEF Spare
      <4> QED BY <1>1, <1>2, <4>1, <4>2 DEF Spare
    <3>2. Quiet(a, s, now)
      <4>1. \A p : p \in (s - Pause) .. now => p \in (s - Pause) .. now + 1
        BY <1>0
      <4> QED BY <4>1 DEF Quiet
    <3>3. Within(granted[a], s, now, v, Rate, Burst)
      BY <1>0, <2>2, <3>1, <3>2 DEF Room
    <3> QED BY <1>0, <1>1, <2>0, <2>2, <3>1, <3>3, WithinTick
  <2> QED BY <1>8, <2>1, <2>2
<1>10. RoomForAll'
  <2> SUFFICES ASSUME NEW s \in 0 .. now + 1
               PROVE  Within(granted["all"], s, now + 1, Level(global, now + 1, GlobalRate, GlobalBurst),
                             GlobalRate, GlobalBurst)
    BY <1>1 DEF RoomForAll
  <2>0. Flat(granted["all"], now)
    BY <1>0 DEF Addresses, History
  <2>1. PICK v \in 0 .. GlobalBurst : v = Level(global, now, GlobalRate, GlobalBurst)
    BY <1>0, LevelTick DEF History
  <2>2. PICK w \in 0 .. GlobalBurst : w = Level(global, now + 1, GlobalRate, GlobalBurst) /\ w <= v + GlobalRate
    BY <1>0, <2>1, LevelTick DEF History
  <2>3. CASE s = now + 1
    BY <1>0, <1>1, <2>0, <2>2, <2>3, WithinNew
  <2>4. CASE s \in 0 .. now
    <3>1. Within(granted["all"], s, now, v, GlobalRate, GlobalBurst)
      BY <1>0, <2>1, <2>4 DEF RoomForAll
    <3>2. Within(granted["all"], s, now + 1, w, GlobalRate, GlobalBurst)
      BY <1>0, <1>1, <2>0, <2>2, <2>4, <3>1, WithinTick
    <3> QED BY <2>2, <3>2
  <2> QED BY <1>8, <2>3, <2>4
<1>11. Earlier'
  <2> SUFFICES ASSUME NEW a \in Addresses, NEW e \in 0 .. now, NEW s \in 0 .. e
               PROVE  Kept(a, s, e)
    <3>1. (now + 1) - 1 = now
      BY <1>0
    <3> QED BY <1>1, <3>1 DEF Earlier, Kept, Quiet
  <2>1. CASE e = now
    BY <1>0, <2>1, KeptNow
  <2>2. CASE e \in 0 .. now - 1
    BY <1>0, <2>2 DEF Earlier
  <2> QED BY <1>0, <2>1, <2>2
<1> QED BY <1>3, <1>4, <1>6, <1>7, <1>9, <1>10, <1>11 DEF WindowInv

-----------------------------------------------------------------------------
(* A lookup.                                                               *)

(* A bucket of a list or of a request in flight is referenced, the new one *)
(* is not.                                                                 *)
LEMMA NewIdUnnamed ==
  ASSUME Budgets
  PROVE  /\ NewId \in Ids
         /\ \A m \in Maps : \A i \in 1 .. Len(maps[m]) : maps[m][i].id # NewId
         /\ \A q \in Req : req[q].bucket # NewId
<1>1. \A m \in Maps : maps[m] \in Seq(Entry) /\ Len(maps[m]) <= MaxEntries
  BY DEF Budgets, Lists
<1>2. NewId \in Ids /\ NewId \notin InUse
  BY <1>1, NewIdFree
<1>3. ASSUME NEW m \in Maps, NEW i \in 1 .. Len(maps[m]) PROVE maps[m][i].id \in InUse
  <2>1. maps[m][i] \in ToSet(maps[m])
    BY <1>1 DEF ToSet
  <2> QED BY <2>1, Zenon DEF InUse, Referenced
<1>4. \A q \in Req : req[q].bucket \in InUse
  BY Zenon DEF InUse, Referenced
<1> QED BY <1>2, <1>3, <1>4

(* Lookup(r, m, p) in terms of the lists before and after it.              *)
LookedUp(r, m, p, hit) ==
  LET key == req[r].ip
      old == maps[m]
      new == maps'[m]
  IN /\ new \in Seq(Entry) /\ Len(new) # 0 /\ new[1].key = key /\ new[1].last = now
     /\ \A l \in Maps \ {m} : maps'[l] = maps[l]
     /\ Stems(new, old, key, NewId, now) /\ Survives(new, old, now)
     /\ hit <=> IsHit(old, key, now)
     /\ ~hit => /\ new[1].id = NewId
                /\ \A i \in 1 .. Len(old) : old[i].key = key => now - old[i].last >= TTL
                /\ heap'[NewId] = newTokenBucket(Burst, now)
     /\ \A l \in Maps : \A i \in 1 .. Len(maps'[l]) : maps'[l][i].id # NewId => heap'[maps'[l][i].id] = heap[maps'[l][i].id]
     /\ req'[r].pc = p /\ req'[r].bucket = new[1].id /\ req'[r].since = now /\ req'[r].ip = key
     /\ \A q \in Req \ {r} : req'[q] = req[q]
     /\ \A a \in Client : pushedOut[a] \subseteq pushedOut'[a]
     /\ pushedOut' \in [Client -> SUBSET (0 .. now)]
     /\ m # "request" => pushedOut' = pushedOut
     /\ m = "request" => \A a \in Client :
          /\ \E i \in 1 .. Len(old) : old[i].key = a /\ ~(now - old[i].last >= TTL)
          /\ \A j \in 1 .. Len(new) : new[j].key # a
          => now \in pushedOut'[a]

(* It is that.                                                             *)
LEMMA LookupIs ==
  ASSUME GateIInv, History, NEW r \in Req, req[r].pc # "none", NEW m \in Maps, NEW p \in Charging,
         Lookup(r, m, p), UNCHANGED now
  PROVE  \E hit \in BOOLEAN : LookedUp(r, m, p, hit)
<1> DEFINE key == req[r].ip
           old == maps[m]
           after == getOrCreate(old, key, NewId, now)
           hitting == IsHit(old, key, now)
           lost == {e.key : e \in ToSet(old)} \ {e.key : e \in ToSet(after)}
           expired == {e.key : e \in {e \in ToSet(old) : now - e.last >= TTL}}
<1>0. /\ Budgets /\ Requests /\ now \in Nat /\ TTL \in Nat
      /\ maps \in [Maps -> Seq(Entry)] /\ pushedOut \in [Client -> SUBSET (0 .. now)]
  BY Shape, RateSizes DEF GateIInv, Budgets, Lists, History
<1>1. key \in Client /\ req \in [Req -> ReqState] /\ req[r] \in ReqState
  BY <1>0 DEF Requests, ReqFits, Addressed
<1>2. NewId \in Ids /\ MapFits(old, now) /\ old \in Seq(Entry)
  BY <1>0, NewIdUnnamed, Shape
<1>3. /\ after \in Seq(Entry) /\ Len(after) # 0 /\ Head(after) = after[1]
      /\ after[1].key = key /\ after[1].last = now
      /\ ~hitting => after[1].id = NewId
      /\ Stems(after, old, key, NewId, now) /\ Survives(after, old, now)
      /\ ~hitting => \A i \in 1 .. Len(old) : old[i].key = key => now - old[i].last >= TTL
  BY <1>0, <1>1, <1>2, GetOrCreateKeeps
<1>4. /\ maps' = [maps EXCEPT ![m] = after]
      /\ heap' = [i \in Ids |-> IF ~hitting /\ i = NewId THEN newTokenBucket(Burst, now)
                                ELSE IF i \in Referenced(maps') THEN heap[i]
                                ELSE Free]
      /\ req' = [req EXCEPT ![r].pc = p, ![r].bucket = Head(after).id, ![r].since = now]
      /\ pushedOut' = IF m # "request" THEN pushedOut
                      ELSE [a \in Client |-> IF a \in lost \ expired THEN pushedOut[a] \cup {now} ELSE pushedOut[a]]
  BY DEF Lookup
<1> HIDE DEF key, old, after, hitting, lost, expired
<1>5. maps'[m] = after /\ \A l \in Maps \ {m} : maps'[l] = maps[l]
  BY <1>0, <1>3, <1>4
<1>6. ~hitting => heap'[NewId] = newTokenBucket(Burst, now)
  BY <1>2, <1>4
<1>7. ASSUME NEW l \in Maps, NEW i \in 1 .. Len(maps'[l]), maps'[l][i].id # NewId
      PROVE  heap'[maps'[l][i].id] = heap[maps'[l][i].id]
  <2>1. maps'[l] \in Seq(Entry)
    BY <1>0, <1>3, <1>5
  <2>2. maps'[l][i] \in ToSet(maps'[l]) /\ maps'[l][i] \in Entry
    BY <2>1 DEF ToSet
  <2>3. maps'[l][i].id \in Referenced(maps')
    BY <2>2, Zenon DEF Referenced
  <2>4. maps'[l][i].id \in Ids
    BY <2>2 DEF Entry
  <2> QED BY <1>4, <1>7, <2>3, <2>4
<1>8. /\ req'[r].pc = p /\ req'[r].bucket = after[1].id /\ req'[r].since = now /\ req'[r].ip = key
      /\ \A q \in Req \ {r} : req'[q] = req[q]
  <2>1. PICK q \in ReqState : q = req[r]
    BY <1>1
  <2> DEFINE k == [q EXCEPT !.pc = p, !.bucket = after[1].id, !.since = now]
  <2>2. k.pc = p /\ k.bucket = after[1].id /\ k.since = now /\ k.ip = q.ip
    BY DEF ReqState
  <2>3. req' = [req EXCEPT ![r] = k]
    BY <1>1, <1>3, <1>4, <2>1
  <2> HIDE DEF k
  <2>4. req'[r] = k /\ \A x \in Req \ {r} : req'[x] = req[x]
    BY <1>1, <2>3
  <2> QED BY <2>1, <2>2, <2>4 DEF key
<1>9. /\ \A a \in Client : pushedOut[a] \subseteq pushedOut'[a]
      /\ pushedOut' \in [Client -> SUBSET (0 .. now)]
      /\ m # "request" => pushedOut' = pushedOut
  BY <1>0, <1>4
<1>10. ASSUME m = "request", NEW a \in Client, NEW i \in 1 .. Len(old), old[i].key = a,
              ~(now - old[i].last >= TTL), \A j \in 1 .. Len(after) : after[j].key # a
       PROVE  now \in pushedOut'[a]
  <2>1. ToSet(old) = {old[j] : j \in 1 .. Len(old)} /\ ToSet(after) = {after[j] : j \in 1 .. Len(after)}
    BY <1>2, <1>3 DEF ToSet
  <2>2. a \in lost
    BY <1>10, <2>1 DEF lost
  <2>3. a \notin expired
    <3> SUFFICES ASSUME a \in expired PROVE FALSE
      OBVIOUS
    <3>1. PICK j \in 1 .. Len(old) : now - old[j].last >= TTL /\ old[j].key = a
      BY <2>1 DEF expired
    <3>2. i = j
      BY <1>2, <1>10, <3>1, OneEntry
    <3> QED BY <1>10, <3>1, <3>2
  <2> QED BY <1>4, <1>10, <2>2, <2>3
<1>11. PICK hit \in BOOLEAN : hit <=> hitting
  OBVIOUS
<1>12. LookedUp(r, m, p, hit)
  BY <1>3, <1>5, <1>6, <1>7, <1>8, <1>9, <1>10, <1>11, Zenon DEF LookedUp, key, old, hitting
<1> QED BY <1>12

(* What a lookup did to an entry of the list of addresses: it is still     *)
(* there, or it was not asked for during a whole TTL, or it was pushed     *)
(* out now.                                                                *)
LEMMA EntryFate ==
  ASSUME NEW r \in Req, NEW m \in Maps, NEW p, NEW hit \in BOOLEAN, LookedUp(r, m, p, hit),
         NEW i \in 1 .. Len(IpList), IpList[i].key \in Client, IpList[i].last \in Nat
  PROVE  \/ \E j \in 1 .. Len(IpList') : /\ IpList'[j].key = IpList[i].key /\ IpList'[j].id = IpList[i].id
                                         /\ IpList[i].last <= IpList'[j].last
         \/ now - IpList[i].last >= TTL
         \/ /\ now \in pushedOut'[IpList[i].key]
            /\ \A j \in 1 .. Len(IpList') : IpList'[j].key # IpList[i].key
<1>0. "request" \in Maps
  BY DEF Maps
<1>1. CASE m = "request"
  <2>1. Survives(IpList', IpList, now)
    BY <1>1 DEF LookedUp, IpList
  <2>2. \A a \in Client :
          /\ \E k \in 1 .. Len(IpList) : IpList[k].key = a /\ ~(now - IpList[k].last >= TTL)
          /\ \A j \in 1 .. Len(IpList') : IpList'[j].key # a
          => now \in pushedOut'[a]
    BY <1>1 DEF LookedUp, IpList
  <2> QED BY <2>1, <2>2 DEF Survives
<1>2. CASE m # "request"
  <2>1. IpList' = IpList
    BY <1>0, <1>2 DEF LookedUp, IpList
  <2>2. IpList[i].last <= IpList[i].last
    OBVIOUS
  <2> QED BY <2>1, <2>2
<1> QED BY <1>1, <1>2

(* Where an entry of the list of addresses comes from: it was there, with  *)
(* the bucket as it is, or it is the new one, with a full bucket.          *)
LEMMA EntryOrigin ==
  ASSUME Budgets, NEW r \in Req, NEW m \in Maps, NEW p, NEW hit \in BOOLEAN, LookedUp(r, m, p, hit),
         NEW j \in 1 .. Len(IpList')
  PROVE  \/ \E i \in 1 .. Len(IpList) : /\ IpList[i].key = IpList'[j].key /\ IpList[i].id = IpList'[j].id
                                        /\ IpList[i].last <= IpList'[j].last
                                        /\ heap'[IpList'[j].id] = heap[IpList[i].id]
         \/ /\ ~hit /\ m = "request"
            /\ IpList'[j].key = req[r].ip /\ IpList'[j].id = NewId /\ IpList'[j].last = now
            /\ heap'[IpList'[j].id] = newTokenBucket(Burst, now)
            /\ \A i \in 1 .. Len(IpList) : IpList[i].key = req[r].ip => now - IpList[i].last >= TTL
<1>0. "request" \in Maps /\ \A i \in 1 .. Len(IpList) : IpList[i].id # NewId
  BY NewIdUnnamed DEF Maps, IpList
<1>1. \A i \in 1 .. Len(IpList') : IpList'[i].id # NewId => heap'[IpList'[i].id] = heap[IpList'[i].id]
  BY <1>0 DEF LookedUp, IpList
<1>2. CASE m = "request"
  <2>1. Stems(IpList', IpList, req[r].ip, NewId, now)
    BY <1>2 DEF LookedUp, IpList
  <2>2. hit <=> IsHit(IpList, req[r].ip, now)
    BY <1>2 DEF LookedUp, IpList
  <2>3. ~hit => /\ heap'[NewId] = newTokenBucket(Burst, now)
                /\ \A i \in 1 .. Len(IpList) : IpList[i].key = req[r].ip => now - IpList[i].last >= TTL
    BY <1>2 DEF LookedUp, IpList
  <2>4. CASE \E i \in 1 .. Len(IpList) : /\ IpList[i].key = IpList'[j].key /\ IpList[i].id = IpList'[j].id
                                         /\ IpList[i].last <= IpList'[j].last
    BY <1>0, <1>1, <2>4
  <2>5. CASE ~hit /\ IpList'[j] = [key |-> req[r].ip, id |-> NewId, last |-> now]
    BY <1>2, <2>3, <2>5
  <2> QED BY <2>1, <2>2, <2>4, <2>5 DEF Stems
<1>3. CASE m # "request"
  <2>1. IpList' = IpList
    BY <1>0, <1>3 DEF LookedUp, IpList
  <2>2. IpList[j].last <= IpList[j].last
    <3>1. IpList[j].last \in Nat
      BY <2>1, IpShape
    <3> QED BY <3>1
  <2> QED BY <1>0, <1>1, <2>1, <2>2
<1> QED BY <1>2, <1>3

(* A bucket keeps its owner, and the new one gets one.                     *)
LEMMA LookupOwners ==
  ASSUME Budgets, Owners, NEW r \in Req, req[r].ip \in Client, NEW m \in Maps, NEW p \in Charging,
         MapOf(p) = m, NEW hit \in BOOLEAN, LookedUp(r, m, p, hit)
  PROVE  Owners'
<1>0. /\ \A l \in Maps : \A i \in 1 .. Len(maps[l]) : maps[l][i].id # NewId
      /\ \A q \in Req : req[q].bucket # NewId
  BY NewIdUnnamed
<1>1. ASSUME NEW l \in Maps, NEW id, NEW a, InList(maps'[l], id, a)
      PROVE  InList(maps[l], id, a) \/ (~hit /\ id = NewId /\ l = m /\ a = req[r].ip)
  <2>1. CASE l # m
    <3>1. maps'[l] = maps[l]
      BY <2>1 DEF LookedUp
    <3> QED BY <1>1, <3>1
  <2>2. CASE l = m
    <3>1. PICK j \in 1 .. Len(maps'[m]) : maps'[m][j].id = id /\ maps'[m][j].key = a
      BY <1>1, <2>2 DEF InList
    <3>2. Stems(maps'[m], maps[m], req[r].ip, NewId, now) /\ (hit <=> IsHit(maps[m], req[r].ip, now))
      BY DEF LookedUp
    <3>3. CASE ~hit /\ maps'[m][j] = [key |-> req[r].ip, id |-> NewId, last |-> now]
      BY <2>2, <3>1, <3>3
    <3>4. CASE \E i \in 1 .. Len(maps[m]) : maps[m][i].key = maps'[m][j].key /\ maps[m][i].id = maps'[m][j].id
      BY <2>2, <3>1, <3>4 DEF InList
    <3> QED BY <3>2, <3>3, <3>4 DEF Stems
  <2> QED BY <2>1, <2>2
<1>2. ASSUME NEW q \in Req, NEW l \in Maps, NEW id, NEW a, Holds(req'[q], id, l, a)
      PROVE  Named(id, l, a) \/ (~hit /\ id = NewId /\ l = m /\ a = req[r].ip)
  <2>1. CASE q # r
    <3>1. req'[q] = req[q]
      BY <2>1 DEF LookedUp
    <3> QED BY <1>2, <3>1 DEF Named
  <2>2. CASE q = r
    <3>1. /\ req'[r].pc = p /\ req'[r].ip = req[r].ip /\ req'[r].bucket = maps'[m][1].id
          /\ maps'[m] \in Seq(Entry) /\ Len(maps'[m]) # 0 /\ maps'[m][1].key = req[r].ip
      BY DEF LookedUp
    <3>2. id = maps'[m][1].id /\ l = m /\ a = req[r].ip
      BY <1>2, <2>2, <3>1 DEF Holds
    <3>3. 1 \in 1 .. Len(maps'[m])
      BY <3>1
    <3>4. InList(maps'[m], id, a)
      BY <3>1, <3>2, <3>3 DEF InList
    <3> QED BY <1>1, <3>2, <3>4 DEF Named
  <2> QED BY <2>1, <2>2
<1>3. ASSUME NEW id, NEW l \in Maps, NEW a, Named(id, l, a)'
      PROVE  Named(id, l, a) \/ (~hit /\ id = NewId /\ l = m /\ a = req[r].ip)
  BY <1>1, <1>2, <1>3 DEF Named
<1>4. \A l \in Maps : \A a : ~Named(NewId, l, a)
  BY <1>0 DEF Named, InList, Holds
<1> SUFFICES ASSUME NEW id \in Ids, NEW k \in Maps, NEW l \in Maps, NEW a \in Client, NEW b \in Client,
                    Named(id, k, a)', Named(id, l, b)'
             PROVE  k = l /\ a = b
  BY DEF Owners
<1>5. Named(id, k, a) \/ (id = NewId /\ k = m /\ a = req[r].ip)
  BY <1>3
<1>6. Named(id, l, b) \/ (id = NewId /\ l = m /\ b = req[r].ip)
  BY <1>3
<1>7. CASE id = NewId
  BY <1>4, <1>5, <1>6, <1>7
<1>8. CASE id # NewId
  BY <1>5, <1>6, <1>8 DEF Owners
<1> QED BY <1>7, <1>8

(* The list of addresses after a lookup is a list.                         *)
LEMMA LookupShape ==
  ASSUME Budgets, Budgets', UNCHANGED now
  PROVE  /\ IpList' \in Seq(Entry) /\ MapFits(IpList', now) /\ Len(IpList') \in Nat
         /\ \A j \in 1 .. Len(IpList') : /\ IpList'[j] \in Entry /\ IpList'[j].id \in Ids
                                         /\ IpList'[j].key \in Client /\ IpList'[j].last \in Nat
<1>1. IpList' \in Seq(Entry) /\ MapFits(IpList', now)
  BY DEF Budgets, Lists, IpList, Maps
<1>2. PICK list \in Seq(Entry) : list = IpList'
  BY <1>1
<1>3. Len(list) \in Nat /\ \A j \in 1 .. Len(list) : list[j] \in Entry
  OBVIOUS
<1>4. \A j \in 1 .. Len(list) : list[j].id \in Ids /\ list[j].key \in Client /\ list[j].last \in Nat
  BY <1>3 DEF Entry
<1> QED BY <1>1, <1>2, <1>3, <1>4

(* The requests that hold a bucket stay prompt, and their entries theirs.  *)
LEMMA LookupFlight ==
  ASSUME GateIInv, WindowInv, Budgets', Owners', NEW r \in Req, req[r].ip \in Client,
         NEW m \in Maps, NEW p \in Charging, MapOf(p) = m, NEW hit \in BOOLEAN, LookedUp(r, m, p, hit),
         UNCHANGED now
  PROVE  InFlight'
<1>0. /\ Budgets /\ InFlight /\ now \in Nat /\ Pause \in Nat /\ TTL \in Nat /\ Pause < TTL
      /\ pushedOut \in [Client -> SUBSET (0 .. now)]
  BY Shape, RateSizes DEF GateIInv, WindowInv, History
<1>1. /\ \A a \in Client : pushedOut[a] \subseteq pushedOut'[a]
      /\ \A q \in Req \ {r} : req'[q] = req[q]
      /\ req'[r].pc = p /\ req'[r].since = now /\ req'[r].bucket = maps'[m][1].id
      /\ Len(maps'[m]) # 0 /\ maps'[m][1].key = req[r].ip /\ maps'[m][1].last = now
  BY DEF LookedUp
<1>2. /\ IpList' \in Seq(Entry) /\ MapFits(IpList', now) /\ Len(IpList') \in Nat
      /\ \A j \in 1 .. Len(IpList') : /\ IpList'[j].id \in Ids
                                      /\ IpList'[j].key \in Client /\ IpList'[j].last \in Nat
  BY <1>0, LookupShape
<1>3. Prompt(req[r])'
  BY <1>0, <1>1 DEF Prompt
<1>4. ASSUME p = "perIPCharge", NEW j \in 1 .. Len(IpList'), IpList'[j].id = req'[r].bucket
      PROVE  now <= IpList'[j].last
  <2>1. m = "request" /\ "request" \in Maps
    BY <1>4 DEF MapOf, Maps
  <2>2. 1 \in 1 .. Len(IpList') /\ IpList'[1].id = req'[r].bucket /\ IpList'[1].last = now
    BY <1>1, <1>2, <2>1 DEF IpList
  <2>3. PICK id \in Ids : id = req'[r].bucket
    BY <1>2, <1>4
  <2>4. PICK k \in Client : k = IpList'[j].key
    BY <1>2
  <2>5. PICK l \in Client : l = IpList'[1].key
    BY <1>2, <2>2
  <2>6. Named(id, "request", k)' /\ Named(id, "request", l)'
    BY <1>4, <2>2, <2>3, <2>4, <2>5 DEF Named, InList, IpList
  <2>7. k = l
    BY <2>1, <2>6 DEF Owners
  <2>8. \A list : MapFits(list, now) /\ j \in 1 .. Len(list) /\ 1 \in 1 .. Len(list) /\ list[j].key = list[1].key
                  => j = 1
    BY OneEntry
  <2>9. j = 1
    BY <1>2, <2>2, <2>4, <2>5, <2>7, <2>8
  <2> QED BY <1>0, <2>2, <2>9
<1>5. Backed(req[r])'
  <2>1. CASE p # "perIPCharge"
    BY <1>1, <2>1 DEF Backed
  <2>2. CASE p = "perIPCharge"
    <3>1. 1 \in 1 .. Len(IpList') /\ IpList'[1].id = req'[r].bucket
      BY <1>1, <1>2, <2>2 DEF IpList, MapOf
    <3> QED BY <1>1, <1>4, <2>2, <3>1 DEF Backed
  <2> QED BY <2>1, <2>2
<1>6. ASSUME NEW q \in Req \ {r}
      PROVE  Prompt(req[q])' /\ Backed(req[q])'
  <2>1. Prompt(req[q]) /\ Backed(req[q]) /\ req'[q] = req[q]
    BY <1>0, <1>1 DEF InFlight
  <2>2. Prompt(req[q])'
    BY <2>1 DEF Prompt
  <2>3. CASE req[q].pc # "perIPCharge"
    <3>1. req'[q].pc # "perIPCharge"
      BY <2>1, <2>3
    <3> QED BY <2>2, <3>1 DEF Backed
  <2>4. CASE req[q].pc = "perIPCharge"
    <3>1. /\ req[q].bucket \in Ids /\ req[q].ip \in Client
          /\ \A i \in 1 .. Len(IpList) : IpList[i].id = req[q].bucket => IpList[i].key = req[q].ip
      BY <2>4, HeldBucket DEF Charging
    <3>2. req[q].since \in Nat /\ req[q].since <= now /\ now <= req[q].since + Pause
      <4>1. req[q] \in ReqState
        BY DEF GateIInv, Requests
      <4>2. req[q].since \in Nat
        BY <4>1 DEF ReqState
      <4> QED BY <2>1, <2>4, <4>2 DEF Prompt, Charging
    <3>3. req[q].bucket # NewId
      BY <1>0, NewIdUnnamed
    <3>4. ASSUME NEW j \in 1 .. Len(IpList'), IpList'[j].id = req[q].bucket
          PROVE  req[q].since <= IpList'[j].last
      <4>1. PICK i \in 1 .. Len(IpList) : /\ IpList[i].id = IpList'[j].id
                                          /\ IpList[i].last <= IpList'[j].last
        BY <1>0, <3>3, <3>4, EntryOrigin
      <4>2. req[q].since <= IpList[i].last /\ IpList[i].last \in Nat
        BY <1>0, <2>1, <2>4, <3>4, <4>1, IpShape DEF Backed
      <4> QED BY <1>2, <3>2, <4>1, <4>2
    <3>5. ASSUME \A j \in 1 .. Len(IpList') : IpList'[j].id # req[q].bucket
          PROVE  \E s \in pushedOut'[req[q].ip] : req[q].since <= s
      <4>1. CASE \A i \in 1 .. Len(IpList) : IpList[i].id # req[q].bucket
        BY <1>1, <2>1, <2>4, <3>1, <4>1 DEF Backed
      <4>2. ASSUME NEW i \in 1 .. Len(IpList), IpList[i].id = req[q].bucket
            PROVE  \E s \in pushedOut'[req[q].ip] : req[q].since <= s
        <5>1. IpList[i].key = req[q].ip /\ req[q].since <= IpList[i].last /\ IpList[i].last \in Nat
          BY <1>0, <2>1, <2>4, <3>1, <4>2, IpShape DEF Backed
        <5>2. ~(now - IpList[i].last >= TTL)
          BY <1>0, <3>2, <5>1
        <5>3. now \in pushedOut'[IpList[i].key]
          BY <3>1, <3>5, <4>2, <5>1, <5>2, EntryFate
        <5> QED BY <3>2, <5>1, <5>3
      <4> QED BY <4>1, <4>2
    <3>6. /\ \A j \in 1 .. Len(IpList') : IpList'[j].id = req'[q].bucket => req'[q].since <= IpList'[j].last
          /\ (\A j \in 1 .. Len(IpList') : IpList'[j].id # req'[q].bucket) =>
               \E s \in pushedOut'[req'[q].ip] : req'[q].since <= s
      BY <2>1, <3>4, <3>5
    <3> QED BY <2>2, <3>6 DEF Backed
  <2> QED BY <2>2, <2>3, <2>4
<1> QED BY <1>3, <1>5, <1>6 DEF InFlight

(* What an address could get after a lookup it could get before, unless it *)
(* lost its entry now.                                                     *)
LEMMA LookupSpare ==
  ASSUME GateIInv, WindowInv, NEW r \in Req, req[r].ip \in Client,
         NEW m \in Maps, NEW p \in Charging, NEW hit \in BOOLEAN, LookedUp(r, m, p, hit), UNCHANGED now,
         NEW a \in Client, now \notin pushedOut'[a], NEW v, Spare(a, v)'
  PROVE  Spare(a, v)
<1>0. /\ Budgets /\ Dated /\ now \in Nat /\ Rate \in Nat /\ Burst \in Nat
  BY Shape, RateSizes DEF GateIInv, WindowInv
<1>1. \A i \in 1 .. Len(IpList) : /\ IpList[i].key \in Client /\ IpList[i].last \in Nat
                                  /\ heap[IpList[i].id] \in Bucket(Burst)
                                  /\ heap[IpList[i].id].at <= IpList[i].last + Pause
  BY <1>0, IpShape DEF Dated
<1>2. ASSUME NEW i \in 1 .. Len(IpList), now - IpList[i].last >= TTL
      PROVE  Level(heap[IpList[i].id], now, Rate, Burst) = Burst
  BY <1>0, <1>1, <1>2, LevelIdle
<1>3. ASSUME \A i \in 1 .. Len(IpList) : IpList[i].key = a => now - IpList[i].last >= TTL
      PROVE  Spare(a, Burst)
  BY <1>2, <1>3 DEF Spare
<1>4. CASE \A j \in 1 .. Len(IpList') : IpList'[j].key # a
  <2>1. v = Burst
    BY <1>4 DEF Spare
  <2>2. \A i \in 1 .. Len(IpList) : IpList[i].key = a => now - IpList[i].last >= TTL
    BY <1>1, <1>4, EntryFate
  <2> QED BY <1>3, <2>1, <2>2
<1>5. ASSUME NEW j \in 1 .. Len(IpList'), IpList'[j].key = a, v = Level(heap'[IpList'[j].id], now, Rate, Burst)
      PROVE  Spare(a, v)
  <2>1. CASE \E i \in 1 .. Len(IpList) : IpList[i].key = a /\ heap'[IpList'[j].id] = heap[IpList[i].id]
    BY <1>5, <2>1 DEF Spare
  <2>2. CASE /\ heap'[IpList'[j].id] = newTokenBucket(Burst, now)
             /\ \A i \in 1 .. Len(IpList) : IpList[i].key = a => now - IpList[i].last >= TTL
    BY <1>0, <1>3, <1>5, <2>2, LevelNew
  <2> QED BY <1>0, <1>5, <2>1, <2>2, EntryOrigin
<1> QED BY <1>4, <1>5 DEF Spare

(* A lookup, of a bucket that is there or a new one, while entries expire  *)
(* or are pushed out.                                                      *)
LEMMA WindowLookup ==
  ASSUME GateIInv, WindowInv, Budgets', NEW r \in Req, req[r].pc # "none", NEW m \in Maps,
         NEW p \in Charging, MapOf(p) = m, Lookup(r, m, p), UNCHANGED <<now, global, granted>>
  PROVE  WindowInv'
<1>0. /\ Budgets /\ History /\ Owners /\ InFlight /\ Dated /\ Room /\ RoomForAll /\ Earlier
      /\ now \in 0 .. MaxTime /\ now \in Nat /\ req[r].ip \in Client
      /\ Rate \in Nat /\ Burst \in Nat /\ Pause \in Nat
  BY Shape, RateSizes DEF GateIInv, WindowInv, Requests, ReqFits, Addressed
<1>1. PICK hit \in BOOLEAN : LookedUp(r, m, p, hit)
  BY <1>0, LookupIs
<1>2. Owners'
  BY <1>0, <1>1, LookupOwners
<1>3. InFlight'
  BY <1>0, <1>1, <1>2, LookupFlight
<1>4. /\ \A a \in Client : pushedOut[a] \subseteq pushedOut'[a]
      /\ pushedOut' \in [Client -> SUBSET (0 .. now)]
  BY <1>1 DEF LookedUp
<1>5. History'
  BY <1>0, <1>4 DEF History
<1>6. Dated'
  <2> SUFFICES ASSUME NEW j \in 1 .. Len(IpList')
               PROVE  heap'[IpList'[j].id].at <= now /\ heap'[IpList'[j].id].at <= IpList'[j].last + Pause
    BY DEF Dated
  <2>1. CASE heap'[IpList'[j].id] = newTokenBucket(Burst, now) /\ IpList'[j].last = now
    BY <1>0, <2>1, LevelNew
  <2>2. ASSUME NEW i \in 1 .. Len(IpList), IpList[i].last <= IpList'[j].last,
               heap'[IpList'[j].id] = heap[IpList[i].id]
        PROVE  heap'[IpList'[j].id].at <= now /\ heap'[IpList'[j].id].at <= IpList'[j].last + Pause
    <3>1. PICK b \in Nat : b = heap[IpList[i].id].at /\ b <= now /\ b <= IpList[i].last + Pause
      BY <1>0, IpShape DEF Dated, Bucket
    <3>2. PICK x \in Nat, y \in Nat : x = IpList[i].last /\ y = IpList'[j].last /\ x <= y
      <4>1. IpList[i].last \in Nat /\ IpList'[j].last \in Nat
        BY <1>0, IpShape, LookupShape
      <4> QED BY <2>2, <4>1
    <3>3. b <= y + Pause
      <4>1. b <= x + Pause /\ x <= y /\ Pause \in Nat
        BY <1>0, <3>1, <3>2
      <4> QED BY ONLY <4>1, b \in Nat, x \in Nat, y \in Nat
    <3>4. b <= IpList'[j].last + Pause
      BY <3>2, <3>3
    <3> QED BY <2>2, <3>1, <3>4
  <2> QED BY <1>0, <1>1, <2>1, <2>2, EntryOrigin
<1>7. Room'
  <2> SUFFICES ASSUME NEW a \in Client, NEW s \in 0 .. now, NEW v \in 0 .. Burst,
                      Quiet(a, s, now)', Spare(a, v)'
               PROVE  Within(granted[a], s, now, v, Rate, Burst)
    BY DEF Room, Quiet
  <2>1. now \notin pushedOut'[a] /\ Quiet(a, s, now)
    <3>1. now \in (s - Pause) .. now
      BY <1>0
    <3> QED BY <1>4, <3>1 DEF Quiet
  <2>2. Spare(a, v)
    BY <1>0, <1>1, <2>1, LookupSpare
  <2> QED BY <1>0, <2>1, <2>2 DEF Room
<1>8. RoomForAll'
  BY <1>0 DEF RoomForAll
<1>9. Earlier'
  BY <1>0, <1>4, <1>5, EarlierStays
<1> QED BY <1>2, <1>3, <1>5, <1>6, <1>7, <1>8, <1>9 DEF WindowInv

-----------------------------------------------------------------------------
(* The theorem about the windows.                                          *)

(* At the start every bucket is full and nothing was granted.              *)
LEMMA WindowInit ==
  ASSUME Init
  PROVE  WindowInv
<1>1. /\ now = 0 /\ req = [r \in Req |-> NoReq] /\ maps = [m \in Maps |-> <<>>]
      /\ global = newTokenBucket(GlobalBurst, 0)
      /\ granted = [a \in Client \cup {"all"} |-> [t \in 0 .. MaxTime |-> 0]]
      /\ pushedOut = [a \in Client |-> {}]
  BY DEF Init
<1>2. /\ Rate \in Nat /\ Burst \in Nat /\ GlobalRate \in Nat /\ GlobalBurst \in Nat /\ MaxTime \in Nat
      /\ 0 \in 0 .. MaxTime /\ "request" \in Maps
  BY RateSizes DEF Maps
<1>3. Len(IpList) = 0 /\ \A m \in Maps : Len(maps[m]) = 0
  BY <1>1, <1>2 DEF IpList
<1>4. \A r \in Req : req[r].pc \notin Charging
  BY <1>1 DEF NoReq, Charging
<1>5. Owners
  BY <1>3, <1>4 DEF Owners, Named, InList, Holds
<1>6. InFlight /\ Dated
  BY <1>3, <1>4 DEF InFlight, Prompt, Backed, Dated, Charging
<1>7. \A a \in Addresses : /\ granted[a] \in Counts /\ Flat(granted[a], 0) /\ Window(granted[a], 0, 0) = 0
                           /\ granted[a] = [t \in 0 .. MaxTime |-> 0]
  BY <1>1, <1>2 DEF Addresses, Counts, Flat, Window
<1>8. /\ global \in Bucket(GlobalBurst) /\ global.at = 0
      /\ Level(global, 0, GlobalRate, GlobalBurst) = GlobalBurst
  BY <1>1, <1>2, LevelNew
<1>9. History
  <2>1. granted \in [Addresses -> Counts]
    BY <1>1, <1>7 DEF Addresses
  <2>2. pushedOut \in [Client -> SUBSET (0 .. now)]
    BY <1>1
  <2>3. \A a \in Addresses : Flat(granted[a], now)
    BY <1>1, <1>7
  <2>4. global.at <= now
    <3>1. now = 0 /\ global.at = 0
      BY <1>1, <1>8
    <3> QED BY ONLY <3>1
  <2> QED BY <1>8, <2>1, <2>2, <2>3, <2>4 DEF History
<1>10. ASSUME NEW a \in Addresses, NEW rate \in Nat, NEW burst \in Nat, NEW v \in 0 .. burst
       PROVE  Within(granted[a], 0, 0, v, rate, burst)
  <2>1. rate * (0 - 0) = 0
    <3>1. 0 - 0 = 0
      OBVIOUS
    <3> QED BY <3>1
  <2> QED BY <1>7, <2>1 DEF Within
<1>11. Room
  <2>1. \A a \in Client : a \in Addresses
    BY DEF Addresses
  <2>2. \A s \in 0 .. 0 : s = 0
    OBVIOUS
  <2> QED BY <1>1, <1>2, <1>10, <2>1, <2>2 DEF Room
<1>12. RoomForAll
  <2>1. GlobalBurst \in 0 .. GlobalBurst /\ "all" \in Addresses
    BY <1>2 DEF Addresses
  <2>2. \A s \in 0 .. 0 : s = 0
    OBVIOUS
  <2> QED BY <1>1, <1>2, <1>8, <1>10, <2>1, <2>2 DEF RoomForAll
<1>13. Earlier
  BY <1>1 DEF Earlier
<1> QED BY <1>5, <1>6, <1>9, <1>11, <1>12, <1>13 DEF WindowInv

(* A new connection holds no bucket.                                       *)
LEMMA AcceptLetsGo ==
  ASSUME Requests, NEW r \in Req, AcceptConn(r)
  PROVE  LetsGo(r)
<1>1. req \in [Req -> ReqState]
  BY DEF Requests
<1>2. PICK c \in Client, chain \in Chains, ask \in Ask, direct \in BOOLEAN :
        LET http == IF direct THEN [remote |-> c, xff |-> chain, realIP |-> ""]
                    ELSE [remote |-> Proxy, xff |-> Append(chain, c), realIP |-> ""]
        IN  /\ WithinLoad(Arrived(ask)) /\ arrivals' = Arrived(ask)
            /\ ask.cred \in Token => tokens[ask.cred].known
            /\ req' = [req EXCEPT ![r] = [NoReq EXCEPT
               !.pc = IF IsPage(ask) THEN "global" ELSE "auth",
               !.from = c, !.ip = clientIP(http, {Proxy}),
               !.op = ask.op, !.cred = ask.cred, !.target = ask.target,
               !.stale = ask.cred \in Token /\ tokens[ask.cred].answered,
               !.valid = ask.cred \in Token /\ tokens[ask.cred].state = "active"]]
  BY Zenon DEF AcceptConn
<1> DEFINE http == IF direct THEN [remote |-> c, xff |-> chain, realIP |-> ""]
                   ELSE [remote |-> Proxy, xff |-> Append(chain, c), realIP |-> ""]
           k == [NoReq EXCEPT
                   !.pc = IF IsPage(ask) THEN "global" ELSE "auth",
                   !.from = c, !.ip = clientIP(http, {Proxy}),
                   !.op = ask.op, !.cred = ask.cred, !.target = ask.target,
                   !.stale = ask.cred \in Token /\ tokens[ask.cred].answered,
                   !.valid = ask.cred \in Token /\ tokens[ask.cred].state = "active"]
<1>3. req' = [req EXCEPT ![r] = k]
  BY <1>2, Zenon
<1>4. k.pc \in {"global", "auth"}
  <2>1. PICK p \in {"global", "auth"} : p = IF IsPage(ask) THEN "global" ELSE "auth"
    OBVIOUS
  <2>2. PICK ip, op, cred, target, old, good :
          /\ ip = clientIP(http, {Proxy}) /\ op = ask.op /\ cred = ask.cred /\ target = ask.target
          /\ old = (ask.cred \in Token /\ tokens[ask.cred].answered)
          /\ good = (ask.cred \in Token /\ tokens[ask.cred].state = "active")
    OBVIOUS
  <2>3. k = [NoReq EXCEPT !.pc = p, !.from = c, !.ip = ip, !.op = op, !.cred = cred,
                          !.target = target, !.stale = old, !.valid = good]
    <3> HIDE DEF http
    <3> QED BY <2>1, <2>2
  <2> HIDE DEF k, http
  <2>4. k.pc = p
    BY ONLY <2>3 DEF NoReq
  <2> QED BY <2>4
<1> HIDE DEF k
<1>5. req'[r] = k /\ \A q \in Req \ {r} : req'[q] = req[q]
  BY <1>1, <1>3
<1> QED BY <1>4, <1>5 DEF LetsGo, Charging

(* Closing a connection, or ending it, none either.                        *)
LEMMA CloseLetsGo ==
  ASSUME Requests, NEW r \in Req, Close(r) \/ EndConn(r)
  PROVE  LetsGo(r)
<1>1. req \in [Req -> ReqState]
  BY DEF Requests
<1>2. CASE Close(r)
  <2>1. req[r].pc \in {"done", "heavy"} /\ req' = [req EXCEPT ![r].closes = @ + 1]
    BY <1>2 DEF Close, Closable, At
  <2>2. req'[r].pc = req[r].pc /\ \A q \in Req \ {r} : req'[q] = req[q]
    BY <1>1, <2>1 DEF ReqState
  <2> QED BY <2>1, <2>2 DEF LetsGo, Charging
<1>3. CASE EndConn(r)
  <2>1. req' = [req EXCEPT ![r] = NoReq] /\ NoReq.pc = "none"
    BY <1>3, EmptyFits DEF EndConn
  <2> QED BY <1>1, <2>1 DEF LetsGo, Charging
<1> QED BY <1>2, <1>3

(* Revoking a token moves many requests, none of them to a bucket.         *)
LEMMA RevokeKeeps ==
  ASSUME Requests, NEW r \in Req, revokeAPIToken(r)
  PROVE  Keeps
<1> DEFINE t == req[r].target
<1>1. req \in [Req -> ReqState]
  BY DEF Requests
<1>2. CASE \E code : req' = Answer(r, code)
  BY <1>2, AnswerLetsGo, LetGoKeeps
<1>3. CASE req' = [q \in Req |-> IF q = r THEN [req[q] EXCEPT !.pc = "revoked", !.valid = @ /\ req[q].cred # t]
                                 ELSE [req[q] EXCEPT !.valid = @ /\ req[q].cred # t]]
  <2> SUFFICES ASSUME NEW q \in Req, req'[q].pc \in Charging
               PROVE  /\ req'[q].pc = req[q].pc /\ req'[q].bucket = req[q].bucket
                      /\ req'[q].ip = req[q].ip /\ req'[q].since = req[q].since
    BY DEF Keeps
  <2>1. PICK x \in ReqState : x = req[q]
    BY <1>1
  <2>2. PICK v : v = (x.valid /\ x.cred # t)
    OBVIOUS
  <2>3. CASE q = r
    <3>1. req'[q] = [x EXCEPT !.pc = "revoked", !.valid = v]
      BY <1>3, <2>1, <2>2, <2>3
    <3>2. req'[q].pc = "revoked"
      BY <3>1 DEF ReqState
    <3> QED BY <3>2 DEF Charging
  <2>4. CASE q # r
    <3>1. req'[q] = [x EXCEPT !.valid = v]
      BY <1>3, <2>1, <2>2, <2>4
    <3> QED BY <2>1, <3>1 DEF ReqState
  <2> QED BY <2>3, <2>4
<1> QED BY <1>2, <1>3, Zenon DEF revokeAPIToken

(* Every step keeps the invariant.                                         *)
LEMMA WindowStep ==
  ASSUME GateIInv, WindowInv, GateIInv', [Next]_vars
  PROVE  WindowInv'
<1>0. Budgets' /\ Requests /\ Requests'
  BY DEF GateIInv
<1>1. CASE Tick
  BY <1>1, WindowTicks
<1>2. CASE AcceptWait \/ AcceptFails \/ UNCHANGED vars
  <2>1. UNCHANGED <<req, now, maps, heap, global, granted, pushedOut>>
    BY <1>2 DEF AcceptWait, AcceptFails, vars, budgetVars
  <2> QED BY <2>1, WindowStill DEF Keeps
<1>3. ASSUME NEW r \in Req, AcceptConn(r) \/ Close(r) \/ EndConn(r)
      PROVE  WindowInv'
  <2>1. UNCHANGED <<now, maps, heap, global, granted, pushedOut>>
    BY <1>3 DEF AcceptConn, Close, EndConn, budgetVars
  <2> QED BY <1>0, <1>3, <2>1, AcceptLetsGo, CloseLetsGo, LetGoKeeps, WindowStill
<1>4. ASSUME NEW r \in Req, globalRateLimit(r)
      PROVE  WindowInv'
  BY <1>4, WindowGlobal
<1>5. ASSUME NEW r \in Req, allowRequestLookup(r) \/ notFoundLookup(r) \/ rejectAuthLookup(r)
      PROVE  WindowInv'
  <2>1. /\ UNCHANGED <<now, global, granted>> /\ req[r].pc # "none"
        /\ \E m \in Maps, p \in Charging : MapOf(p) = m /\ Lookup(r, m, p)
    BY <1>5 DEF allowRequestLookup, notFoundLookup, rejectAuthLookup, At, Maps, Charging, MapOf
  <2> QED BY <1>0, <2>1, WindowLookup
<1>6. ASSUME NEW r \in Req, allowRequestCharge(r) \/ notFoundCharge(r) \/ rejectAuthCharge(r)
      PROVE  WindowInv'
  <2>1. /\ Charge(r) /\ req[r].pc \in Charging /\ UNCHANGED <<now, maps, global, pushedOut>>
        /\ granted' = IF req[r].pc = "perIPCharge" /\ Affordable(r) THEN Count(req[r].ip) ELSE granted
    BY <1>6 DEF allowRequestCharge, notFoundCharge, rejectAuthCharge, At, Charging
  <2>2. \/ \E code : req' = Answer(r, code)
        \/ \E p \in {"notFound", "tarpit"} : req' = [Goto(r, p) EXCEPT ![r].bucket = 0]
    BY <1>6, Zenon DEF allowRequestCharge, notFoundCharge, rejectAuthCharge
  <2>3. {"notFound", "tarpit"} \subseteq Place \ Charging
    BY DEF Place, Charging
  <2>4. LetsGo(r)
    BY <1>0, <2>2, <2>3, AnswerLetsGo, GotoLetsGo
  <2> QED BY <2>1, <2>4, WindowCharge
<1>7. ASSUME NEW r \in Req, \/ tarpitSleep(r) \/ authMiddleware(r) \/ HeavyBegin(r) \/ HeavyEnd(r)
                            \/ createAPIToken(r) \/ revokeAPITokenAnswer(r)
      PROVE  WindowInv'
  <2>1. UNCHANGED <<now, maps, heap, global, granted, pushedOut>>
    BY <1>7 DEF tarpitSleep, authMiddleware, HeavyBegin, HeavyEnd, createAPIToken, revokeAPITokenAnswer, budgetVars
  <2>2. \/ \E code : req' = Answer(r, code)
        \/ \E p \in {"dispatch", "reject", "heavy"} :
             req' = Goto(r, p) \/ req' = [Goto(r, p) EXCEPT ![r].storeFailed = TRUE]
    BY <1>7, Zenon DEF tarpitSleep, authMiddleware, HeavyBegin, HeavyEnd, createAPIToken, revokeAPITokenAnswer
  <2>3. {"dispatch", "reject", "heavy"} \subseteq Place \ Charging
    BY DEF Place, Charging
  <2>4. LetsGo(r)
    BY <1>0, <2>2, <2>3, AnswerLetsGo, GotoLetsGo
  <2> QED BY <2>1, <2>4, LetGoKeeps, WindowStill
<1>8. ASSUME NEW r \in Req, revokeAPIToken(r)
      PROVE  WindowInv'
  <2>1. UNCHANGED <<now, maps, heap, global, granted, pushedOut>>
    BY <1>8 DEF revokeAPIToken, budgetVars
  <2> QED BY <1>0, <1>8, <2>1, RevokeKeeps, WindowStill
<1> QED BY <1>1, <1>2, <1>3, <1>4, <1>5, <1>6, <1>7, <1>8, Zenon DEF Next

(* The token buckets keep what rate limiting promises, whatever the        *)
(* evicting map forgets and however lookups, charges and evictions of      *)
(* different requests interleave: an address that did not lose its entry   *)
(* to the cap is admitted, in any window of time, no more often than its   *)
(* burst and what was refilled allow; and so are all clients together.     *)
THEOREM RateKept == Spec => []RateWindow
<1>1. Init => WindowInv
  BY WindowInit
<1>2. GateIInv /\ WindowInv /\ GateIInv' /\ [Next]_vars => WindowInv'
  BY WindowStep
<1>3. GateIInv /\ WindowInv => RateWindow
  BY WindowsHold
<1> QED BY <1>1, <1>2, <1>3, GateInvariant, PTL DEF Spec
=============================================================================
