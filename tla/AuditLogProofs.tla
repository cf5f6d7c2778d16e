--------------------------- MODULE AuditLogProofs ---------------------------
(***************************************************************************)
(* Machine-checked proofs about AuditLog, for any number of messages,      *)
(* writers, clients and events.  ChainInv says what makes the chain        *)
(* verifiable after any number of truncations: the table is a suffix of    *)
(* what was recorded, neighbours are linked, and if the first row's        *)
(* predecessor is gone, exactly one surviving checkpoint vouches for it.   *)
(***************************************************************************)
EXTENDS AuditLog, FiniteSetTheorems, WellFoundedInduction, TLAPS

Total == Len(recorded)
IsCheckpoint(s) == table[s].kind = "checkpoint"

Suffix ==
  /\ \A s \in Seqs : \A u \in s .. Total : u \in Seqs
  /\ Total # 0 => Total \in Seqs
  /\ \A s \in Seqs : table[s].msg = recorded[s]

Linked == \A s \in Seqs : s - 1 \in Seqs => table[s].prev = Hash(table[s - 1])

(* Only row 1 has no predecessor; a prev_hash is the hash of the row before. *)
PrevSeq ==
  \A s \in Seqs :
    IF s = 1 THEN table[s].prev = NoHash
    ELSE table[s].prev = Hash(table[s].prev[1]) /\ table[s].prev[1].seq = s - 1

AnchorsGone ==
  \A c \in Seqs : IsCheckpoint(c) =>
    /\ table[c].anchorSeq \notin Seqs /\ table[c].anchorSeq < c
    /\ table[c].anchorHash = Hash(table[c].anchorHash[1])
    /\ table[c].anchorHash[1].seq = table[c].anchorSeq

AnchorsDistinct ==
  \A c, d \in Seqs :
    IsCheckpoint(c) /\ IsCheckpoint(d) /\ table[c].anchorSeq = table[d].anchorSeq => c = d

FirstAnchored ==
  \A s \in Seqs : s # 1 /\ s - 1 \notin Seqs =>
    \E c \in Seqs : IsCheckpoint(c) /\ table[c].anchorHash = table[s].prev

ChainInv ==
  TypeOK /\ Suffix /\ Linked /\ PrevSeq /\ AnchorsGone /\ AnchorsDistinct /\ FirstAnchored

-----------------------------------------------------------------------------
(* Least and greatest elements of sets of naturals.                        *)

(* Min of a non-empty set of naturals is its least element. *)
LEMMA MinLeast ==
  ASSUME NEW S, S \subseteq Nat, S # {}
  PROVE  Min(S) \in S /\ \A y \in S : Min(S) <= y
<1>1. PICK x \in S : \A y \in S : ~(<<y, x>> \in OpToRel(<, Nat))
  BY NatLessThanWellFounded, WFMin, Zenon
<1>2. \A y \in S : x <= y
  <2>1. TAKE y \in S
  <2>2. ~(<<y, x>> \in OpToRel(<, Nat))
    BY <1>1
  <2>3. x \in Nat /\ y \in Nat
    OBVIOUS
  <2>4. ~(y < x)
    BY <2>2, <2>3 DEF OpToRel
  <2> QED
    BY <2>3, <2>4
<1> QED
  BY <1>2 DEF Min

(* The last row of the table is the last row recorded. *)
LEMMA LastIsTotal ==
  ASSUME ChainInv
  PROVE  /\ Total \in Nat
         /\ LastSeq = Total
         /\ Seqs = {} <=> Total = 0
         /\ Seqs # {} => Max(Seqs) = Total
<1>1. Total \in Nat /\ Seqs \subseteq 1 .. Total
  BY DEF ChainInv, TypeOK, Total
<1>2. Seqs = {} <=> Total = 0
  BY <1>1 DEF ChainInv, Suffix
<1>3. ASSUME Seqs # {} PROVE Max(Seqs) = Total
  <2>0. Total \in Seqs
    BY <1>2, <1>3 DEF ChainInv, Suffix
  <2>1. Total \in Seqs /\ \A y \in Seqs : Total >= y
    BY <1>1, <2>0
  <2>2. \A x \in Seqs : (\A y \in Seqs : x >= y) => x = Total
    BY <1>1, <2>1
  <2> QED
    BY <2>1, <2>2 DEF Max
<1> QED
  BY <1>1, <1>2, <1>3 DEF LastSeq

-----------------------------------------------------------------------------
(* Appending a row, and deleting a prefix that the row anchors, keeps the  *)
(* invariant.  RecordCommit is the case b = 0, TruncateAudit the other.    *)

RowType(r) ==
  /\ r.at \in Nat /\ r.anchorSeq \in Nat
  /\ r.kind \in {"event", "checkpoint"}
  /\ r.msg \in Message \cup {NoMessage}

(* Appending a row above a boundary b and dropping the rows up to b, as Record *)
(* (b = 0) and TruncateAudit do, preserves the chain invariant.               *)
LEMMA AppendStep ==
  ASSUME ChainInv, TypeOK',
         NEW b \in Nat, NEW r, RowType(r),
         r.seq = Total + 1, r.prev = LastHash,
         \/ b = 0 /\ r.kind = "event"
         \/ /\ b \in Seqs /\ r.kind = "checkpoint"
            /\ r.anchorSeq = b /\ r.anchorHash = Hash(table[b]),
         table' = Survivors(table, b, r),
         recorded' = Append(recorded, r.msg)
  PROVE  ChainInv'
<1> DEFINE n == Total
<1>a. n \in Nat /\ LastSeq = n /\ (Seqs = {} <=> n = 0) /\ (Seqs # {} => Max(Seqs) = n)
  BY LastIsTotal
<1>b. Seqs \subseteq 1 .. n
  BY DEF ChainInv, TypeOK, Total
<1>c. /\ Seqs' = {u \in Seqs : u > b} \cup {n + 1}
      /\ \A s \in Seqs : s > b => table'[s] = table[s]
      /\ table'[n + 1] = r
  BY <1>a, <1>b DEF Survivors, Seqs
<1>d. Total' = n + 1 /\ recorded'[n + 1] = r.msg /\ \A s \in 1 .. n : recorded'[s] = recorded[s]
  BY DEF ChainInv, TypeOK, Total, RowType
<1>e. n # 0 => n \in Seqs /\ r.prev = Hash(table[n])
  BY <1>a DEF LastHash, ChainInv, Suffix
<1>f. n = 0 => r.prev = NoHash
  BY <1>a DEF LastHash
<1>g. \A s \in Seqs : table[s].seq = s
  BY DEF ChainInv, TypeOK
<1>h. \A s \in Seqs : \A u \in s .. n : u \in Seqs
  BY DEF ChainInv, Suffix
<1> HIDE DEF n
<1>1. Suffix'
  <2>1. ASSUME NEW s \in Seqs', NEW u \in s .. Total' PROVE u \in Seqs'
    BY <1>a, <1>b, <1>c, <1>d, <1>h
  <2>2. Total' \in Seqs'
    BY <1>c, <1>d
  <2>3. ASSUME NEW s \in Seqs' PROVE table'[s].msg = recorded'[s]
    <3>1. CASE s = n + 1
      BY <3>1, <1>c, <1>d
    <3>2. CASE s \in Seqs /\ s > b
      BY <3>2, <1>b, <1>c, <1>d DEF ChainInv, Suffix
    <3> QED
      BY <3>1, <3>2, <1>c
  <2> QED
    BY <2>1, <2>2, <2>3 DEF Suffix
<1>2. Linked'
  <2> SUFFICES ASSUME NEW s \in Seqs', s - 1 \in Seqs'
               PROVE  table'[s].prev = Hash(table'[s - 1])
    BY DEF Linked, Hash
  <2>1. CASE s = n + 1
    BY <2>1, <1>a, <1>b, <1>c, <1>e
  <2>2. CASE s \in Seqs /\ s > b
    BY <2>2, <1>a, <1>b, <1>c DEF ChainInv, Linked
  <2> QED
    BY <2>1, <2>2, <1>c
<1>3. PrevSeq'
  <2> SUFFICES ASSUME NEW s \in Seqs'
               PROVE  IF s = 1 THEN table'[s].prev = NoHash
                      ELSE table'[s].prev = Hash(table'[s].prev[1]) /\ table'[s].prev[1].seq = s - 1
    BY DEF PrevSeq, Hash, NoHash
  <2>1. CASE s = n + 1
    BY <2>1, <1>a, <1>c, <1>e, <1>f, <1>g DEF Hash
  <2>2. CASE s \in Seqs /\ s > b
    BY <2>2, <1>c DEF ChainInv, PrevSeq
  <2> QED
    BY <2>1, <2>2, <1>c
<1>4. AnchorsGone'
  <2> SUFFICES ASSUME NEW c \in Seqs', table'[c].kind = "checkpoint"
               PROVE  /\ table'[c].anchorSeq \notin Seqs' /\ table'[c].anchorSeq < c
                      /\ table'[c].anchorHash = Hash(table'[c].anchorHash[1])
                      /\ table'[c].anchorHash[1].seq = table'[c].anchorSeq
    BY DEF AnchorsGone, Hash, IsCheckpoint
  <2>1. CASE c = n + 1
    BY <2>1, <1>a, <1>b, <1>c, <1>g DEF Hash
  <2>2. CASE c \in Seqs /\ c > b
    <3>1. /\ table[c].anchorSeq \notin Seqs /\ table[c].anchorSeq < c
          /\ table[c].anchorHash = Hash(table[c].anchorHash[1])
          /\ table[c].anchorHash[1].seq = table[c].anchorSeq
      BY <2>2, <1>c DEF ChainInv, AnchorsGone, IsCheckpoint
    <3>2. table[c].anchorSeq # n + 1
      BY <1>a, <1>b, <2>2, <3>1 DEF ChainInv, TypeOK
    <3> QED
      BY <3>1, <3>2, <2>2, <1>c
  <2> QED
    BY <2>1, <2>2, <1>c
<1>5. AnchorsDistinct'
  <2> SUFFICES ASSUME NEW c \in Seqs', NEW d \in Seqs',
                      table'[c].kind = "checkpoint", table'[d].kind = "checkpoint",
                      table'[c].anchorSeq = table'[d].anchorSeq
               PROVE  c = d
    BY DEF AnchorsDistinct, IsCheckpoint
  <2>1. ASSUME NEW e \in Seqs, e > b, table[e].kind = "checkpoint", r.kind = "checkpoint"
        PROVE  table[e].anchorSeq # r.anchorSeq
    BY <2>1 DEF ChainInv, AnchorsGone, IsCheckpoint
  <2>2. CASE c \in Seqs /\ d \in Seqs
    BY <2>2, <1>b, <1>c, <1>a DEF ChainInv, AnchorsDistinct, IsCheckpoint
  <2> QED
    BY <2>1, <2>2, <1>a, <1>b, <1>c
<1>6. FirstAnchored'
  <2> SUFFICES ASSUME NEW s \in Seqs', s # 1, s - 1 \notin Seqs'
               PROVE  \E c \in Seqs' : table'[c].kind = "checkpoint" /\ table'[c].anchorHash = table'[s].prev
    BY DEF FirstAnchored, IsCheckpoint
  <2>1. CASE s = n + 1
    <3>1. n # 0 /\ n \in Seqs /\ n <= b
      BY <2>1, <1>a, <1>c, <1>e
    <3>2. b = n /\ r.kind = "checkpoint" /\ r.anchorHash = Hash(table[n])
      BY <3>1, <1>a, <1>b
    <3> QED
      BY <3>1, <3>2, <2>1, <1>c, <1>e
  <2>2. CASE s \in Seqs /\ s > b /\ b = 0
    <3>1. s - 1 \notin Seqs
      BY <2>2, <1>a, <1>b, <1>c
    <3>2. PICK c \in Seqs : table[c].kind = "checkpoint" /\ table[c].anchorHash = table[s].prev
      BY <3>1, <2>2 DEF ChainInv, FirstAnchored, IsCheckpoint
    <3> QED
      BY <3>2, <2>2, <1>b, <1>c
  <2>3. CASE s \in Seqs /\ s > b /\ b # 0
    <3>1. b \in Seqs /\ r.kind = "checkpoint" /\ r.anchorHash = Hash(table[b])
      BY <2>3
    <3>2. s - 1 \in Seqs
      BY <2>3, <3>1, <1>a, <1>b, <1>h
    <3>3. s - 1 = b
      BY <3>2, <2>3, <1>a, <1>b, <1>c
    <3>4. table[s].prev = Hash(table[b])
      BY <3>2, <3>3, <2>3 DEF ChainInv, Linked
    <3> QED
      BY <3>1, <3>4, <2>3, <1>c
  <2> QED
    BY <2>1, <2>2, <2>3, <1>c
<1> QED
  BY <1>1, <1>2, <1>3, <1>4, <1>5, <1>6 DEF ChainInv

-----------------------------------------------------------------------------
(* Max of a non-empty bounded set of naturals is its greatest element. *)
LEMMA MaxGreatest ==
  ASSUME NEW n \in Nat, NEW S, S \subseteq 0 .. n, S # {}
  PROVE  Max(S) \in S /\ \A y \in S : y <= Max(S)
<1> DEFINE T == {n - x : x \in S}
<1>0. \A x \in S : x \in Nat /\ n - x \in Nat
  OBVIOUS
<1>1. T \subseteq Nat /\ T # {}
  BY <1>0
<1>2. Min(T) \in T /\ \A y \in T : Min(T) <= y
  BY <1>1, MinLeast
<1>3. PICK x \in S : Min(T) = n - x
  BY <1>2
<1>4. \A y \in S : x >= y
  <2> TAKE y \in S
  <2>1. n - y \in T
    OBVIOUS
  <2>2. n - x <= n - y
    BY <2>1, <1>2, <1>3
  <2> QED
    BY <2>2, <1>0
<1> QED
  BY <1>4 DEF Max

(* A client's position is a number: a page with a successor is not empty. *)
LEMMA PageLast ==
  ASSUME ChainInv, NEW ss \in SUBSET Seqs, Page(ss) # ss
  PROVE  Max(Page(ss)) \in Nat
<1>1. Total \in Nat /\ ss \subseteq 0 .. Total /\ ss # {}
  <2>1. Total \in Nat /\ Seqs \subseteq 1 .. Total
    BY DEF ChainInv, TypeOK, Total
  <2>2. ss # {}
    BY DEF Page
  <2> QED
    BY <2>1, <2>2
<1>n. ss \subseteq Nat
  BY <1>1
<1>2. Min(ss) \in ss /\ \A y \in ss : Min(ss) <= y
  BY <1>1, <1>n, MinLeast
<1>3. {u \in ss : u < Min(ss)} = {}
  <2> SUFFICES ASSUME NEW u \in ss PROVE ~(u < Min(ss))
    OBVIOUS
  <2>1. u \in Nat /\ Min(ss) \in Nat /\ Min(ss) <= u
    BY <1>n, <1>2
  <2> QED
    BY <2>1
<1>4. Min(ss) \in Page(ss)
  BY <1>2, <1>3, FS_EmptySet, AuditAssumption DEF Page
<1>p. Page(ss) \subseteq 0 .. Total /\ Page(ss) # {}
  BY <1>1, <1>4 DEF Page
<1>5. Max(Page(ss)) \in Page(ss)
  BY <1>1, <1>p, MaxGreatest
<1> QED
  BY <1>n, <1>5 DEF Page

(* Every step of the log preserves the types. *)
LEMMA TypeStep ==
  ASSUME ChainInv, [Next]_vars
  PROVE  TypeOK'
<1> USE DEF ChainInv, TypeOK, Seqs
<1>0. Total \in Nat /\ Seqs \subseteq 1 .. Total /\ LastSeq = Total
  BY LastIsTotal DEF Total
<1>s. ASSUME NEW b, NEW r, RowType(r), r.seq = Total + 1,
             table' = Survivors(table, b, r), recorded' = Append(recorded, r.msg)
      PROVE  /\ DOMAIN table' \subseteq 1 .. Len(recorded')
             /\ \A s \in DOMAIN table' :
                  /\ table'[s].seq = s /\ table'[s].at \in Nat /\ table'[s].anchorSeq \in Nat
                  /\ table'[s].kind \in {"event", "checkpoint"}
                  /\ table'[s].msg \in Message \cup {NoMessage}
             /\ recorded' \in Seq(Message \cup {NoMessage})
  <2>1. Len(recorded') = Total + 1 /\ recorded' \in Seq(Message \cup {NoMessage})
    BY <1>s DEF RowType, Total
  <2>2. DOMAIN table' = {u \in DOMAIN table : u > b} \cup {Total + 1}
    BY <1>s DEF Survivors
  <2>3. \A s \in DOMAIN table' : table'[s] = IF s = Total + 1 THEN r ELSE table[s]
    BY <1>s DEF Survivors
  <2>4. DOMAIN table' \subseteq 1 .. Len(recorded')
    BY <2>1, <2>2, <1>0
  <2> QED
    BY <2>1, <2>2, <2>3, <2>4, <1>s DEF RowType
<1>1. CASE Tick
  BY <1>1 DEF Tick
<1>2. ASSUME NEW w \in Writer, NEW m \in Message \cup {NoMessage}, RecordBegin(w, m) PROVE TypeOK'
  BY <1>2 DEF RecordBegin, Event
<1>3. ASSUME NEW w \in Writer, RecordCommit(w) PROVE TypeOK'
  <2> DEFINE r == EventRow(LastSeq + 1, LastHash, rec[w].msg, rec[w].at)
  <2>1. RowType(r) /\ r.seq = Total + 1 /\ r.msg = rec[w].msg
    BY <1>0 DEF RowType, EventRow, Event
  <2>2. rec' \in [Writer -> Event]
    BY <1>3 DEF RecordCommit, NoEvent, Event
  <2> QED
    BY <1>3, <1>s, <2>1, <2>2 DEF RecordCommit
<1>4. ASSUME NEW w \in Writer, RecordFails(w) PROVE TypeOK'
  BY <1>4 DEF RecordFails, NoEvent, Event
<1>5. ASSUME NEW m \in Message, NEW hold \in BOOLEAN, SetHold(m, hold) PROVE TypeOK'
  BY <1>5 DEF SetHold
<1>6. CASE TruncateBegin
  BY <1>6 DEF TruncateBegin
<1>7. CASE TruncateCommit
  <2> DEFINE b == clampToHold(auditTruncationBoundary(trunc.from))
             r == Checkpoint(LastSeq + 1, LastHash, clock, b, Hash(table[b]))
  <2>1. CASE Eligible(b)
    <3>1. RowType(r) /\ r.seq = Total + 1 /\ r.msg = NoMessage
      BY <2>1, <1>0 DEF RowType, Checkpoint, Eligible
    <3>2. trunc' \in [open : BOOLEAN, from : Nat] /\ UNCHANGED <<clock, held, rec, pager>>
      BY <1>7 DEF TruncateCommit, TruncIdle
    <3>3. table' = Survivors(table, b, r) /\ recorded' = Append(recorded, r.msg)
      BY <1>7, <2>1, <3>1 DEF TruncateCommit, TruncateAudit
    <3> QED
      BY <1>s, <3>1, <3>2, <3>3
  <2>2. CASE ~Eligible(b)
    BY <1>7, <2>2 DEF TruncateCommit, TruncIdle
  <2> QED
    BY <2>1, <2>2
<1>8. CASE TruncateFails
  BY <1>8 DEF TruncateFails, TruncIdle
<1>a. ASSUME NEW c \in Client, NEW ss \in SUBSET Seqs, NEW f \in Message \cup {NoMessage},
             NEW seen \in SUBSET Nat, Answer(c, ss, f, seen),
             UNCHANGED <<clock, table, held, rec, trunc, recorded>>
      PROVE  TypeOK'
  <2>0. ss \in SUBSET Nat /\ Page(ss) \in SUBSET Nat
    BY <1>0 DEF Page
  <2>1. CASE Page(ss) = ss
    BY <1>a, <2>0, <2>1 DEF Answer
  <2>2. CASE Page(ss) # ss
    <3>1. Max(Page(ss)) \in Nat
      BY <2>2, PageLast
    <3> QED
      BY <1>a, <2>0, <2>2, <3>1 DEF Answer
  <2> QED
    BY <2>1, <2>2
<1>9. ASSUME NEW c \in Client, NEW f \in Message \cup {NoMessage}, FirstPage(c, f) PROVE TypeOK'
  <2>1. Matching(0, f) \in SUBSET Seqs /\ {} \in SUBSET Nat
    BY DEF Matching
  <2>2. Answer(c, Matching(0, f), f, {}) /\ UNCHANGED <<clock, table, held, rec, trunc, recorded>>
    BY <1>9 DEF FirstPage
  <2> QED
    BY <2>1, <2>2, <1>a
<1>10. ASSUME NEW c \in Client, NextPage(c) PROVE TypeOK'
  <2>1. CASE CursorTruncated(pager[c].after)
    <3>1. /\ pager' = [pager EXCEPT ![c].pc = "gone"]
          /\ UNCHANGED <<clock, table, held, rec, trunc, recorded>>
      BY <1>10, <2>1 DEF NextPage
    <3>2. pager' \in [Client -> [pc : {"start", "more", "done", "gone"}, after : Nat,
                                filter : Message \cup {NoMessage}, seen : SUBSET Nat]]
      <4>1. pager[c] \in [pc : {"start", "more", "done", "gone"}, after : Nat,
                          filter : Message \cup {NoMessage}, seen : SUBSET Nat]
        OBVIOUS
      <4>2. [pager[c] EXCEPT !.pc = "gone"] \in
              [pc : {"start", "more", "done", "gone"}, after : Nat,
               filter : Message \cup {NoMessage}, seen : SUBSET Nat]
        BY <4>1
      <4> QED
        BY <3>1, <4>2
    <3> QED
      BY <3>1, <3>2
  <2>2. CASE ~CursorTruncated(pager[c].after)
    <3> DEFINE p == pager[c]
    <3>1. Matching(p.after, p.filter) \in SUBSET Seqs
      BY DEF Matching
    <3>2. /\ Answer(c, Matching(p.after, p.filter), p.filter, p.seen)
          /\ UNCHANGED <<clock, table, held, rec, trunc, recorded>>
      BY <1>10, <2>2 DEF NextPage
    <3>3. p.filter \in Message \cup {NoMessage} /\ p.seen \in SUBSET Nat
      OBVIOUS
    <3> QED
      BY <3>1, <3>2, <3>3, <1>a
  <2> QED
    BY <2>1, <2>2
<1>11. CASE UNCHANGED vars
  BY <1>11 DEF vars
<1> QED
  BY <1>1, <1>2, <1>3, <1>4, <1>5, <1>6, <1>7, <1>8, <1>9, <1>10, <1>11 DEF Next

-----------------------------------------------------------------------------
(* The invariant is inductive.                                             *)

(* The empty log satisfies the chain invariant. *)
LEMMA ChainInit == Init => ChainInv
<1> SUFFICES ASSUME Init PROVE ChainInv
  OBVIOUS
<1>1. Seqs = {} /\ Total = 0 /\ recorded \in Seq(Message \cup {NoMessage})
  BY DEF Init, Seqs, Total
<1>2. TypeOK
  BY <1>1, AuditAssumption DEF Init, TypeOK, NoEvent, Event, TruncIdle
<1> QED
  BY <1>1, <1>2 DEF ChainInv, Suffix, Linked, PrevSeq, AnchorsGone, AnchorsDistinct, FirstAnchored

(* Every step of Record, TruncateAudit, SetHold and the clients preserves it. *)
LEMMA ChainStep ==
  ASSUME ChainInv, [Next]_vars
  PROVE  ChainInv'
<1>0. TypeOK' /\ LastSeq = Total
  BY TypeStep, LastIsTotal
<1>1. CASE UNCHANGED <<table, recorded>>
  BY <1>0, <1>1 DEF ChainInv, Suffix, Linked, PrevSeq, AnchorsGone, AnchorsDistinct,
                    FirstAnchored, IsCheckpoint, Seqs, Total, Hash, NoHash
<1>2. ASSUME NEW w \in Writer, RecordCommit(w) PROVE ChainInv'
  <2> DEFINE r == EventRow(LastSeq + 1, LastHash, rec[w].msg, rec[w].at)
  <2>1. /\ RowType(r) /\ r.seq = Total + 1 /\ r.prev = LastHash
        /\ r.kind = "event" /\ r.msg = rec[w].msg
    BY <1>0 DEF RowType, EventRow, Event, ChainInv, TypeOK
  <2>2. table' = Survivors(table, 0, r) /\ recorded' = Append(recorded, r.msg)
    BY <1>2, <2>1 DEF RecordCommit
  <2> QED
    BY <1>0, <2>1, <2>2, AppendStep
<1>3. ASSUME TruncateCommit, ~UNCHANGED <<table, recorded>> PROVE ChainInv'
  <2> DEFINE b == clampToHold(auditTruncationBoundary(trunc.from))
             r == Checkpoint(LastSeq + 1, LastHash, clock, b, Hash(table[b]))
  <2>1. b \in Seqs /\ table' = Survivors(table, b, r) /\ recorded' = Append(recorded, NoMessage)
    BY <1>3 DEF TruncateCommit, TruncateAudit, Eligible
  <2>2. b \in Nat /\ clock \in Nat
    <3> HIDE DEF b
    <3>1. Seqs \subseteq Nat /\ clock \in Nat
      BY DEF ChainInv, TypeOK
    <3> QED
      BY <2>1, <3>1
  <2>3. /\ RowType(r) /\ r.seq = Total + 1 /\ r.prev = LastHash /\ r.msg = NoMessage
        /\ r.kind = "checkpoint" /\ r.anchorSeq = b /\ r.anchorHash = Hash(table[b])
    BY <1>0, <2>2 DEF RowType, Checkpoint
  <2> QED
    BY <1>0, <2>1, <2>2, <2>3, AppendStep
<1> QED
  BY <1>1, <1>2, <1>3 DEF Next, vars, Tick, RecordBegin, RecordFails, SetHold, TruncateBegin,
                          TruncateFails, FirstPage, NextPage

(* ChainInv holds in every reachable state. *)
THEOREM ChainInvariant == Spec => []ChainInv
<1>1. ChainInv /\ [Next]_vars => ChainInv'
  BY ChainStep
<1> QED
  BY ChainInit, <1>1, PTL DEF Spec

(* TypeOK holds in every reachable state. *)
THEOREM TypeCorrect == Spec => []TypeOK
<1>1. ChainInv => TypeOK
  BY DEF ChainInv
<1> QED
  BY ChainInvariant, <1>1, PTL

-----------------------------------------------------------------------------
(* Verify accepts the log after any interleaving of Record, TruncateAudit  *)
(* and SetHold: the chain walk of audit/verify.go finds every link intact  *)
(* and a checkpoint for the truncated prefix.                              *)
THEOREM VerifyAccepts == Spec => []ChainVerifies
<1>1. ASSUME ChainInv PROVE ChainVerifies
  <2> DEFINE first == Min(Seqs)
  <2> SUFFICES ASSUME Seqs # {}
               PROVE  /\ \A s \in Seqs \ {first} : LinkOK(table, s)
                      /\ StartOK(table, first)
    BY DEF ChainVerifies, VerifyOK, Seqs
  <2>1. Seqs \subseteq 1 .. Total /\ Seqs \subseteq Nat /\ Total \in Nat
    BY <1>1 DEF ChainInv, TypeOK, Total
  <2>2. first \in Seqs /\ \A y \in Seqs : first <= y
    BY <2>1, MinLeast
  <2> HIDE DEF first
  <2>3. ASSUME NEW s \in Seqs \ {first} PROVE LinkOK(table, s)
    <3>1. s - 1 \in first .. Total
      BY <2>1, <2>2
    <3>2. s - 1 \in Seqs
      BY <3>1, <2>2, <1>1 DEF ChainInv, Suffix
    <3> QED
      BY <3>2, <1>1 DEF ChainInv, Linked, LinkOK, Seqs
  <2>4. CASE first = 1
    BY <2>2, <2>3, <2>4, <1>1 DEF ChainInv, PrevSeq, StartOK
  <2>5. CASE first # 1
    <3>1. first - 1 \notin Seqs
      BY <2>1, <2>2
    <3>2. PICK c \in Seqs : IsCheckpoint(c) /\ table[c].anchorHash = table[first].prev
      BY <3>1, <2>2, <2>5, <1>1 DEF ChainInv, FirstAnchored
    <3>3. table[first].prev[1].seq = first - 1
      BY <2>2, <2>5, <1>1 DEF ChainInv, PrevSeq
    <3>4. \A d \in Seqs : IsCheckpoint(d) /\ table[d].anchorHash = table[first].prev
                             => table[d].anchorSeq = first - 1
      BY <3>3, <1>1 DEF ChainInv, AnchorsGone
    <3>5. \A d \in Seqs : IsCheckpoint(d) /\ table[d].anchorHash = table[first].prev => d = c
      BY <3>2, <3>4, <1>1 DEF ChainInv, AnchorsDistinct
    <3>6. Vouches(table, c, table[first].prev) /\ table[c].anchorSeq = first - 1
      BY <3>2, <3>4, <3>5, <2>1 DEF Vouches, IsCheckpoint, Seqs
    <3> QED
      BY <2>3, <3>6 DEF StartOK, Seqs
  <2> QED
    BY <2>4, <2>5
<1> QED
  BY ChainInvariant, <1>1, PTL

(* The seq of a new row is never one given before, although it is computed *)
(* from the newest row the truncations left.                               *)
THEOREM SeqUnique == Spec => []SeqNeverReused
<1>1. ASSUME ChainInv PROVE SeqNeverReused
  BY <1>1, LastIsTotal DEF SeqNeverReused, ChainInv, Suffix, Total
<1> QED
  BY ChainInvariant, <1>1, PTL

-----------------------------------------------------------------------------
(* What a truncation may remove.                                           *)

(* Every recent row lies above the truncation boundary. *)
LEMMA BoundaryBelowRecent ==
  ASSUME ChainInv, NEW from \in Nat
  PROVE  /\ auditTruncationBoundary(from) \in Int
         /\ \A s \in Seqs : Recent(table[s], from) => s > auditTruncationBoundary(from)
<1> DEFINE recent == {s \in Seqs : Recent(table[s], from)}
<1>1. Seqs \subseteq Nat /\ LastSeq \in Nat
  BY LastIsTotal DEF ChainInv, TypeOK
<1>2. CASE recent = {}
  BY <1>1, <1>2 DEF auditTruncationBoundary
<1>3. CASE recent # {}
  <2>1. Min(recent) \in recent /\ \A y \in recent : Min(recent) <= y
    BY <1>1, <1>3, MinLeast
  <2>2. auditTruncationBoundary(from) = Min(recent) - 1
    BY <1>3 DEF auditTruncationBoundary
  <2>3. Min(recent) \in Nat
    BY <1>1, <2>1
  <2> QED
    BY <1>1, <2>1, <2>2, <2>3
<1> QED
  BY <1>2, <1>3

(* The clamp only lowers the boundary, below every event of a held message. *)
LEMMA ClampBelowHeld ==
  ASSUME ChainInv, NEW b \in Int
  PROVE  /\ clampToHold(b) \in Int /\ clampToHold(b) <= b
         /\ \A s \in Seqs : table[s].msg \in held => s > clampToHold(b)
<1> DEFINE heldSeqs == {s \in Seqs : s <= b /\ table[s].msg \in held}
<1>1. Seqs \subseteq Nat
  BY DEF ChainInv, TypeOK
<1>2. CASE heldSeqs = {}
  <2>1. clampToHold(b) = b
    BY <1>2 DEF clampToHold
  <2>2. \A s \in Seqs : table[s].msg \in held => ~(s <= b)
    BY <1>2
  <2> QED
    BY <2>1, <2>2, <1>1
<1>3. CASE heldSeqs # {}
  <2>1. Min(heldSeqs) \in heldSeqs /\ \A y \in heldSeqs : Min(heldSeqs) <= y
    BY <1>1, <1>3, MinLeast
  <2>2. clampToHold(b) = Min(heldSeqs) - 1
    BY <1>3 DEF clampToHold
  <2>3. Min(heldSeqs) \in Nat /\ Min(heldSeqs) <= b
    BY <1>1, <2>1
  <2>4. ASSUME NEW s \in Seqs, table[s].msg \in held PROVE s >= Min(heldSeqs)
    <3>1. CASE s <= b
      BY <2>1, <2>4, <3>1, <1>1
    <3>2. CASE ~(s <= b)
      BY <2>3, <3>2, <1>1
    <3> QED
      BY <3>1, <3>2
  <2> HIDE DEF heldSeqs
  <2>5. \A s \in Seqs : table[s].msg \in held => s > Min(heldSeqs) - 1
    BY <1>1, <2>3, <2>4
  <2> QED
    BY <2>2, <2>3, <2>5
<1> QED
  BY <1>2, <1>3

(* A row that a step removes was below the clamped boundary of TruncateCommit. *)
LEMMA RemovedByTruncation ==
  ASSUME ChainInv, [Next]_vars, NEW s \in Seqs, s \notin Seqs'
  PROVE  TruncateCommit /\ ~(s > clampToHold(auditTruncationBoundary(trunc.from)))
<1> DEFINE b == clampToHold(auditTruncationBoundary(trunc.from))
<1>0. Seqs \subseteq 1 .. Total /\ Total \in Nat
  BY DEF ChainInv, TypeOK, Total
<1>1. table' # table
  BY DEF Seqs
<1>2. ~ \E w \in Writer : RecordCommit(w)
  <2> SUFFICES ASSUME NEW w \in Writer, RecordCommit(w) PROVE FALSE
    OBVIOUS
  <2>1. s \in Nat /\ s > 0
    BY <1>0
  <2> QED
    BY <2>1 DEF RecordCommit, Survivors, Seqs
<1>3. TruncateCommit
  BY <1>1, <1>2 DEF Next, vars, Tick, RecordBegin, RecordFails, SetHold, TruncateBegin,
                    TruncateFails, FirstPage, NextPage
<1>4. table' = Survivors(table, b, Checkpoint(LastSeq + 1, LastHash, clock, b, Hash(table[b])))
  BY <1>1, <1>3 DEF TruncateCommit, TruncateAudit
<1>5. ~(s > b)
  BY <1>4 DEF Survivors, Seqs
<1> QED
  BY <1>3, <1>5

(* TruncateAudit never removes an event of a message under legal hold,     *)
(* whatever holds are set or released around it.                           *)
THEOREM HeldKept == Spec => HeldEventsKept
<1>1. ASSUME ChainInv, [Next]_vars
      PROVE  [\A s \in Seqs : table[s].msg \in held => s \in DOMAIN table']_vars
  <2> SUFFICES ASSUME NEW s \in Seqs, table[s].msg \in held, s \notin DOMAIN table' PROVE FALSE
    OBVIOUS
  <2>1. TruncateCommit /\ ~(s > clampToHold(auditTruncationBoundary(trunc.from)))
    BY <1>1, RemovedByTruncation DEF Seqs
  <2>2. auditTruncationBoundary(trunc.from) \in Int
    BY <1>1, BoundaryBelowRecent DEF ChainInv, TypeOK
  <2> QED
    BY <1>1, <2>1, <2>2, ClampBelowHeld
<1> QED
  BY ChainInvariant, <1>1, PTL DEF Spec, HeldEventsKept

(* The sweeper's cutoff was read in the past. *)
CutoffPast == trunc.from <= clock

(* The cutoff of a TruncateAudit call is never ahead of the clock. *)
LEMMA CutoffInvariant == Spec => []CutoffPast
<1>1. Init => CutoffPast
  BY DEF Init, CutoffPast, TruncIdle
<1>2. ASSUME TypeOK, CutoffPast, [Next]_vars PROVE CutoffPast'
  <2> USE <1>2 DEF TypeOK, CutoffPast
  <2>1. CASE Tick
    BY <2>1 DEF Tick
  <2>2. CASE TruncateBegin
    BY <2>2 DEF TruncateBegin
  <2>3. CASE TruncateCommit
    BY <2>3 DEF TruncateCommit, TruncIdle
  <2>4. CASE TruncateFails
    BY <2>4 DEF TruncateFails, TruncIdle
  <2>5. CASE UNCHANGED <<clock, trunc>>
    BY <2>5
  <2> QED
    BY <2>1, <2>2, <2>3, <2>4, <2>5
       DEF Next, vars, RecordBegin, RecordCommit, RecordFails, SetHold, FirstPage, NextPage
<1> QED
  BY TypeCorrect, <1>1, <1>2, PTL DEF Spec

(* TruncateAudit never removes an event inside the retention window, even  *)
(* if rows got their seq in another order than their timestamps.           *)
THEOREM RecentKept == Spec => RecentEventsKept
<1>1. ASSUME ChainInv, CutoffPast, [Next]_vars
      PROVE  [\A s \in Seqs : Recent(table[s], clock) => s \in DOMAIN table']_vars
  <2> SUFFICES ASSUME NEW s \in Seqs, Recent(table[s], clock), s \notin DOMAIN table' PROVE FALSE
    OBVIOUS
  <2> DEFINE b == auditTruncationBoundary(trunc.from)
  <2>0. s \in Nat /\ trunc.from \in Nat /\ clock \in Nat /\ table[s].at \in Nat
    BY <1>1 DEF ChainInv, TypeOK
  <2>1. ~(s > clampToHold(b))
    BY <1>1, RemovedByTruncation DEF Seqs
  <2>2. Recent(table[s], trunc.from)
    BY <1>1, <2>0, AuditAssumption DEF Recent, CutoffPast
  <2>3. b \in Int /\ s > b
    BY <1>1, <2>0, <2>2, BoundaryBelowRecent
  <2>4. clampToHold(b) \in Int /\ clampToHold(b) <= b
    BY <1>1, <2>3, ClampBelowHeld
  <2> HIDE DEF b
  <2> QED
    BY <2>0, <2>1, <2>3, <2>4
<1> QED
  BY ChainInvariant, CutoffInvariant, <1>1, PTL DEF Spec, RecentEventsKept

-----------------------------------------------------------------------------
(* What audit.Verify notices.                                              *)

(* Every row has a timestamp to tamper with. *)
Stamped == \A s \in Seqs : "at" \in DOMAIN table[s]

(* Record and TruncateAudit write complete rows and change none.           *)
LEMMA StampedInvariant == Spec => []Stamped
<1>1. Init => Stamped
  BY DEF Init, Stamped, Seqs
<1>2. ASSUME ChainInv, Stamped, [Next]_vars PROVE Stamped'
  <2>1. ASSUME NEW b, NEW r, "at" \in DOMAIN r, table' = Survivors(table, b, r) PROVE Stamped'
    <3>1. \A s \in Seqs' : table'[s] = r \/ (s \in Seqs /\ table'[s] = table[s])
      BY <2>1 DEF Survivors, Seqs
    <3> QED BY <1>2, <2>1, <3>1 DEF Stamped
  <2>2. CASE UNCHANGED table
    BY <1>2, <2>2 DEF Stamped, Seqs
  <2>3. ASSUME NEW w \in Writer, RecordCommit(w) PROVE Stamped'
    <3> DEFINE r == EventRow(LastSeq + 1, LastHash, rec[w].msg, rec[w].at)
    <3>1. "at" \in DOMAIN r
      BY DEF EventRow
    <3> QED BY <2>1, <2>3, <3>1 DEF RecordCommit
  <2>4. CASE TruncateCommit
    <3> DEFINE b == clampToHold(auditTruncationBoundary(trunc.from))
               r == Checkpoint(LastSeq + 1, LastHash, clock, b, Hash(table[b]))
    <3>1. "at" \in DOMAIN r
      BY DEF Checkpoint
    <3>2. table' = Survivors(table, b, r) \/ table' = table
      BY <2>4 DEF TruncateCommit, TruncateAudit
    <3> QED BY <2>1, <2>2, <3>1, <3>2
  <2> QED BY <1>2, <2>2, <2>3, <2>4 DEF Next, vars, Tick, RecordBegin, RecordFails, SetHold,
                                        TruncateBegin, TruncateFails, FirstPage, NextPage
<1> QED BY ChainInvariant, <1>1, <1>2, PTL DEF Spec

(* The walk compares every row but the first with the one before it.       *)
LEMMA WalkReaches ==
  ASSUME NEW t, DOMAIN t \subseteq Nat, VerifyOK(t),
         NEW u \in DOMAIN t, NEW v \in DOMAIN t, u < v
  PROVE  LinkOK(t, v)
<1>1. v # Min(DOMAIN t)
  BY MinLeast
<1> QED BY <1>1 DEF VerifyOK

(* If a row other than the newest was deleted or rewritten, audit.Verify   *)
(* rejects the log: the row after it still carries the old hash, and no    *)
(* checkpoint that TruncateAudit ever wrote vouches for a row still there. *)
THEOREM TamperDetected == Spec => []TamperEvident
<1>1. ASSUME ChainInv, Stamped PROVE TamperEvident
  <2> SUFFICES ASSUME NEW s \in Seqs, s # LastSeq
               PROVE  ~VerifyOK(Without(s)) /\ ~VerifyOK(Altered(s))
    BY DEF TamperEvident
  <2>1. Seqs \subseteq 1 .. Total /\ Seqs \subseteq Nat /\ Total \in Nat /\ LastSeq = Total
    BY <1>1, LastIsTotal DEF ChainInv, TypeOK, Total
  <2>2. s \in Nat /\ s + 1 \in Nat /\ (s + 1) - 1 = s /\ s < s + 1
    BY <2>1
  <2>3. s + 1 \in Seqs
    BY <1>1, <2>1 DEF ChainInv, Suffix
  <2>4. table[s + 1].prev = Hash(table[s])
    BY <1>1, <2>2, <2>3 DEF ChainInv, Linked
  <2>5. ASSUME VerifyOK(Without(s)) PROVE FALSE
    <3> DEFINE t == Without(s)
    <3>1. DOMAIN t = Seqs \ {s} /\ \A u \in Seqs \ {s} : t[u] = table[u]
      BY DEF Without
    <3>2. s + 1 \in DOMAIN t /\ DOMAIN t \subseteq Nat
      BY <2>1, <2>2, <2>3, <3>1
    <3> HIDE DEF t
    <3>3. ~LinkOK(t, s + 1)
      BY <2>2, <3>1 DEF LinkOK
    <3>4. \A u \in DOMAIN t : ~(u < s + 1)
      BY <2>5, <3>2, <3>3, WalkReaches DEF t
    <3>5. Min(DOMAIN t) = s + 1
      <4>1. Min(DOMAIN t) \in DOMAIN t /\ Min(DOMAIN t) <= s + 1
        BY <3>2, MinLeast
      <4> QED BY <2>2, <3>2, <3>4, <4>1
    <3>6. StartOK(t, s + 1)
      BY <2>5, <3>2, <3>5 DEF VerifyOK, t
    <3>7. t[s + 1].prev = Hash(table[s]) /\ Hash(table[s]) # NoHash
      BY <2>3, <2>4, <3>1, <3>2 DEF Hash, NoHash
    <3>8. PICK c \in DOMAIN t : Vouches(t, c, t[s + 1].prev) /\ t[c].anchorSeq = (s + 1) - 1
      BY <3>6, <3>7 DEF StartOK
    <3>9. c \in Seqs /\ IsCheckpoint(c) /\ table[c].anchorSeq = s
      BY <2>2, <3>1, <3>8 DEF Vouches, IsCheckpoint
    <3> QED BY <1>1, <3>9 DEF ChainInv, AnchorsGone
  <2>6. ASSUME VerifyOK(Altered(s)) PROVE FALSE
    <3> DEFINE t == Altered(s)
    <3>1. DOMAIN t = Seqs /\ t[s] = [table[s] EXCEPT !.at = @ + 1] /\ t[s + 1] = table[s + 1]
      BY <2>2, <2>3 DEF Altered, Seqs
    <3>2. "at" \in DOMAIN table[s] /\ table[s].at \in Nat
      BY <1>1 DEF Stamped, ChainInv, TypeOK
    <3>3. t[s].at # table[s].at
      BY <3>1, <3>2
    <3> HIDE DEF t
    <3>4. LinkOK(t, s + 1)
      BY <2>1, <2>2, <2>3, <2>6, <3>1, WalkReaches DEF t
    <3>5. Hash(t[s]) = Hash(table[s])
      BY <2>2, <2>4, <3>1, <3>4 DEF LinkOK
    <3> QED BY <3>3, <3>5 DEF Hash
  <2> QED BY <2>5, <2>6
<1> QED BY ChainInvariant, StampedInvariant, <1>1, PTL

-----------------------------------------------------------------------------
(* Paging.                                                                 *)

(* The events a client's filter selects, whether still in the table or not. *)
Selects(filter, s) == filter = NoMessage \/ recorded[s] = filter

(* No selected event lies unseen between two that were seen. *)
GapFree(filter, seen) ==
  \A u, v \in seen : \A s \in u .. v : Selects(filter, s) => s \in seen

(* Where a client stands: the cursor is the last event it has seen.        *)
PagerFits(p) ==
  /\ p.seen \subseteq 1 .. Total
  /\ p.pc = "more" => p.after \in p.seen /\ \A u \in p.seen : u <= p.after
  /\ GapFree(p.filter, p.seen)

PagersFit == \A c \in Client : PagerFits(pager[c])

(* A page takes the matching rows from the front.                          *)
LEMMA PageIsFront ==
  ASSUME ChainInv, NEW ss \in SUBSET Seqs, NEW v \in Page(ss), NEW s \in ss, s <= v
  PROVE  s \in Page(ss)
<1>1. Total \in Nat /\ Seqs \subseteq 1 .. Total /\ Seqs \subseteq Nat
  BY DEF ChainInv, TypeOK, Total
<1> DEFINE below(x) == {u \in ss : u < x}
<1>2. IsFiniteSet(below(v)) /\ below(s) \subseteq below(v)
  <2>1. below(v) \subseteq 1 .. Total
    BY <1>1
  <2>2. \A u \in ss : u < s => u < v
    BY <1>1 DEF Page
  <2>3. IsFiniteSet(1 .. Total)
    BY <1>1, FS_Interval
  <2>4. IsFiniteSet(below(v))
    BY <2>1, <2>3, FS_Subset
  <2> QED BY <2>2, <2>4
<1>3. /\ Cardinality(below(s)) \in Nat /\ Cardinality(below(v)) \in Nat
      /\ Cardinality(below(s)) <= Cardinality(below(v))
  BY <1>2, FS_Subset, FS_CardinalityType
<1>4. Cardinality(below(v)) < Limit
  BY DEF Page
<1>5. Cardinality(below(s)) < Limit
  BY <1>3, <1>4, AuditAssumption
<1> QED BY <1>5 DEF Page

(* The next cursor is the last row of the page.                            *)
LEMMA CursorIsLast ==
  ASSUME ChainInv, NEW ss \in SUBSET Seqs, Page(ss) # ss
  PROVE  Max(Page(ss)) \in Page(ss) /\ \A u \in Page(ss) : u <= Max(Page(ss))
<1>1. Total \in Nat /\ ss \subseteq 0 .. Total /\ ss \subseteq Nat /\ ss # {}
  <2>1. Total \in Nat /\ Seqs \subseteq 1 .. Total
    BY DEF ChainInv, TypeOK, Total
  <2>2. ss # {}
    BY DEF Page
  <2> QED BY <2>1, <2>2
<1>2. Min(ss) \in ss /\ \A y \in ss : Min(ss) <= y
  BY <1>1, MinLeast
<1>3. {u \in ss : u < Min(ss)} = {}
  <2> SUFFICES ASSUME NEW u \in ss PROVE ~(u < Min(ss))
    OBVIOUS
  <2>1. u \in Nat /\ Min(ss) \in Nat /\ Min(ss) <= u
    BY <1>1, <1>2
  <2> QED BY <2>1
<1>4. Min(ss) \in Page(ss)
  BY <1>2, <1>3, FS_EmptySet, AuditAssumption DEF Page
<1>5. Page(ss) \subseteq 0 .. Total /\ Page(ss) # {}
  BY <1>1, <1>4 DEF Page
<1> QED BY <1>1, <1>5, MaxGreatest

PagerState ==
  [pc : {"start", "more", "done", "gone"}, after : Nat,
   filter : Message \cup {NoMessage}, seen : SUBSET Nat]

(* One answer of ListEvents extends what the client has seen without a gap *)
(* if the rows it read lie behind the cursor and no selected row between   *)
(* was missing from the snapshot.                                          *)
LEMMA AnswerFits ==
  ASSUME ChainInv, UNCHANGED recorded, NEW c \in Client, NEW ss \in SUBSET Seqs,
         NEW f \in Message \cup {NoMessage}, NEW seen \in SUBSET (1 .. Total),
         Answer(c, ss, f, seen), pager \in [Client -> PagerState],
         GapFree(f, seen),
         \A u \in seen, w \in ss : u < w,
         \A u \in seen \cup ss, w \in ss : \A s \in u .. w : Selects(f, s) => s \in seen \cup ss
  PROVE  /\ PagerFits(pager[c])'
         /\ \A d \in Client \ {c} : pager'[d] = pager[d]
<1>1. Total \in Nat /\ Total' = Total /\ Seqs \subseteq 1 .. Total /\ seen \subseteq Nat /\ ss \subseteq Nat
  <2>1. Total \in Nat /\ Total' = Total /\ Seqs \subseteq 1 .. Total
    BY DEF ChainInv, TypeOK, Total
  <2>2. 1 .. Total \subseteq Nat
    BY <2>1
  <2> QED BY <2>1, <2>2
<1>2. \A s : Selects(f, s)' <=> Selects(f, s)
  BY DEF Selects
<1>3. Page(ss) \subseteq ss
  BY DEF Page
<1>4. ASSUME NEW u \in seen \cup Page(ss), NEW v \in seen \cup Page(ss),
             NEW s \in u .. v, Selects(f, s)
      PROVE  s \in seen \cup Page(ss)
  <2>1. s \in Nat /\ u \in Nat /\ v \in Nat /\ u <= s /\ s <= v
    BY <1>1, <1>3
  <2>2. CASE v \in seen
    <3>1. u \in seen
      BY <1>1, <1>3, <2>1, <2>2
    <3> QED BY <1>4, <2>2, <3>1 DEF GapFree
  <2>3. CASE v \in Page(ss)
    <3>1. s \in seen \cup ss
      BY <1>3, <1>4, <2>3
    <3>2. s \in ss => s \in Page(ss)
      BY <2>1, <2>3, PageIsFront
    <3> QED BY <3>1, <3>2
  <2> QED BY <2>2, <2>3
<1>5. \A d \in Client \ {c} : pager'[d] = pager[d]
  BY DEF Answer
<1>6. CASE Page(ss) = ss
  <2>1. /\ pager'[c].pc = "done" /\ pager'[c].filter = f /\ pager'[c].seen = seen \cup Page(ss)
    BY <1>6 DEF Answer
  <2>2. GapFree(f, seen \cup Page(ss))'
    BY <1>2, <1>4, <1>6 DEF GapFree
  <2> QED BY <1>1, <1>3, <1>5, <2>1, <2>2 DEF PagerFits, GapFree
<1>7. CASE Page(ss) # ss
  <2>1. /\ pager'[c].pc = "more" /\ pager'[c].filter = f /\ pager'[c].seen = seen \cup Page(ss)
        /\ pager'[c].after = Max(Page(ss))
    BY <1>7 DEF Answer
  <2>2. Max(Page(ss)) \in Page(ss) /\ \A u \in Page(ss) : u <= Max(Page(ss))
    BY <1>7, CursorIsLast
  <2>3. ASSUME NEW u \in seen PROVE u <= Max(Page(ss))
    <3>1. Max(Page(ss)) \in ss
      BY <1>3, <2>2
    <3>2. u \in Nat /\ Max(Page(ss)) \in Nat /\ u < Max(Page(ss))
      BY <1>1, <3>1
    <3> QED BY <3>2
  <2> QED BY <1>1, <1>2, <1>3, <1>4, <1>5, <2>1, <2>2, <2>3 DEF PagerFits, GapFree
<1> QED BY <1>5, <1>6, <1>7

(* A call that records or truncates leaves what was recorded as it was.    *)
LEMMA RecordedGrows ==
  ASSUME ChainInv, PagersFit, UNCHANGED pager,
         recorded' = recorded \/ \E m \in Message \cup {NoMessage} : recorded' = Append(recorded, m)
  PROVE  PagersFit'
<1>0. recorded \in Seq(Message \cup {NoMessage})
  BY DEF ChainInv, TypeOK
<1>1. Total \in Nat /\ Total' \in Nat /\ Total <= Total' /\ \A s \in 1 .. Total : recorded'[s] = recorded[s]
  <2>1. CASE recorded' = recorded
    BY <1>0, <2>1 DEF Total
  <2>2. ASSUME NEW m \in Message \cup {NoMessage}, recorded' = Append(recorded, m)
        PROVE  /\ Len(recorded') = Len(recorded) + 1
               /\ \A s \in 1 .. Len(recorded) : recorded'[s] = recorded[s]
    BY <1>0, <2>2
  <2> QED BY <1>0, <2>1, <2>2 DEF Total
<1>2. ASSUME NEW c \in Client PROVE PagerFits(pager[c])'
  <2>1. /\ pager[c].seen \subseteq 1 .. Total /\ GapFree(pager[c].filter, pager[c].seen)
        /\ pager[c].pc = "more" =>
             pager[c].after \in pager[c].seen /\ \A u \in pager[c].seen : u <= pager[c].after
    BY DEF PagersFit, PagerFits
  <2>2. ASSUME NEW u \in pager[c].seen, NEW v \in pager[c].seen, NEW s \in u .. v,
               pager[c].filter = NoMessage \/ recorded'[s] = pager[c].filter
        PROVE  s \in pager[c].seen
    <3>1. s \in 1 .. Total
      BY <1>1, <2>1
    <3> QED BY <1>1, <2>1, <2>2, <3>1 DEF GapFree, Selects
  <2>3. pager[c].seen \subseteq 1 .. Total'
    BY <1>1, <2>1
  <2> QED BY <2>1, <2>2, <2>3 DEF PagerFits, GapFree, Selects
<1> QED BY <1>2 DEF PagersFit

(* The first page starts at the oldest row that matches.                   *)
LEMMA FirstPageFits ==
  ASSUME ChainInv, PagersFit, NEW c \in Client, NEW f \in Message \cup {NoMessage}, FirstPage(c, f)
  PROVE  PagersFit'
<1> DEFINE ss == Matching(0, f)
<1>1. ss \in SUBSET Seqs /\ Seqs \subseteq 1 .. Total /\ Total \in Nat /\ UNCHANGED recorded
  BY DEF Matching, FirstPage, ChainInv, TypeOK, Total
<1>2. ASSUME NEW u \in ss, NEW w \in ss, NEW s \in u .. w, Selects(f, s) PROVE s \in ss
  <2>0. u \in 1 .. Total /\ w \in 1 .. Total /\ u \in Seqs
    BY <1>1
  <2>1. s \in u .. Total /\ s > 0
    BY <1>1, <2>0
  <2>2. s \in Seqs /\ table[s].msg = recorded[s]
    BY <2>0, <2>1 DEF ChainInv, Suffix
  <2> QED BY <1>2, <2>1, <2>2 DEF Matching, Selects
<1>3. Answer(c, ss, f, {})
  BY DEF FirstPage
<1>4. GapFree(f, {})
  BY DEF GapFree
<1>5. pager \in [Client -> PagerState]
  BY DEF ChainInv, TypeOK, PagerState
<1> HIDE DEF ss
<1>6. /\ PagerFits(pager[c])'
      /\ \A d \in Client \ {c} : pager'[d] = pager[d]
  BY <1>1, <1>2, <1>3, <1>4, <1>5, AnswerFits
<1>7. \A d \in Client \ {c} : PagerFits(pager[d])'
  BY <1>1, <1>6 DEF PagersFit, PagerFits, GapFree, Selects, Total
<1> QED BY <1>6, <1>7 DEF PagersFit

(* The next page follows the cursor, unless rows behind it were truncated. *)
LEMMA NextPageFits ==
  ASSUME ChainInv, PagersFit, NEW c \in Client, NextPage(c)
  PROVE  PagersFit'
<1> DEFINE p == pager[c]
           ss == Matching(p.after, p.filter)
<1>1. ss \in SUBSET Seqs /\ Seqs \subseteq 1 .. Total /\ Total \in Nat /\ UNCHANGED recorded
  BY DEF Matching, NextPage, ChainInv, TypeOK, Total
<1>2. pager \in [Client -> PagerState]
  BY DEF ChainInv, TypeOK, PagerState
<1>3. /\ p.pc = "more" /\ p.after \in Nat /\ p.filter \in Message \cup {NoMessage}
      /\ p.seen \subseteq 1 .. Total /\ p.after \in p.seen /\ \A u \in p.seen : u <= p.after
      /\ GapFree(p.filter, p.seen)
  BY <1>2 DEF NextPage, PagersFit, PagerFits, PagerState
<1>4. CASE CursorTruncated(p.after)
  <2>1. pager' = [pager EXCEPT ![c].pc = "gone"]
    BY <1>4 DEF NextPage
  <2>2. \A d \in Client : /\ pager'[d].seen = pager[d].seen /\ pager'[d].filter = pager[d].filter
                          /\ pager'[d].pc = "more" => pager[d].pc = "more" /\ pager'[d].after = pager[d].after
    BY <1>2, <2>1 DEF PagerState
  <2> QED BY <1>1, <2>2 DEF PagersFit, PagerFits, GapFree, Selects, Total
<1>5. CASE ~CursorTruncated(p.after)
  <2>1. Answer(c, ss, p.filter, p.seen)
    BY <1>5 DEF NextPage
  <2>2. ASSUME NEW s \in Nat, s > p.after, s <= Total, Seqs # {} PROVE s \in Seqs
    <3>0. Seqs \subseteq Nat
      BY <1>1
    <3>1. Oldest \in Seqs /\ Oldest \in Nat
      BY <2>2, <3>0, MinLeast DEF Oldest
    <3>2. Oldest <= p.after + 1
      BY <1>3, <1>5, <2>2, <3>1 DEF CursorTruncated
    <3>3. s \in Oldest .. Total
      BY <1>1, <1>3, <2>2, <3>1, <3>2
    <3> QED BY <3>1, <3>3 DEF ChainInv, Suffix
  <2>3. \A u \in p.seen, w \in ss : u < w
    <3> SUFFICES ASSUME NEW u \in p.seen, NEW w \in ss PROVE u < w
      OBVIOUS
    <3>1. u \in Nat /\ w \in Nat /\ u <= p.after /\ p.after < w
      <4>1. u \in 1 .. Total /\ w \in 1 .. Total
        BY <1>1, <1>3
      <4>2. p.after < w
        BY DEF Matching
      <4> QED BY <1>1, <1>3, <4>1, <4>2
    <3> QED BY <1>3, <3>1
  <2>4. ASSUME NEW u \in p.seen \cup ss, NEW w \in ss, NEW s \in u .. w, Selects(p.filter, s)
        PROVE  s \in p.seen \cup ss
    <3>1. s \in Nat /\ s <= Total /\ Seqs # {} /\ u \in Nat /\ u <= s
      <4>1. u \in 1 .. Total /\ w \in 1 .. Total /\ Seqs # {}
        BY <1>1, <1>3
      <4> QED BY <1>1, <4>1
    <3>2. CASE s <= p.after
      <4>1. u \in p.seen
        BY <1>3, <2>4, <3>1, <3>2 DEF Matching
      <4>2. s \in u .. p.after
        BY <1>3, <3>1, <3>2
      <4> QED BY <1>3, <2>4, <4>1, <4>2 DEF GapFree
    <3>3. CASE s > p.after
      <4>1. s \in Seqs /\ table[s].msg = recorded[s]
        BY <2>2, <3>1, <3>3 DEF ChainInv, Suffix
      <4> QED BY <2>4, <3>3, <4>1 DEF Matching, Selects
    <3> QED BY <1>3, <3>1, <3>2, <3>3
  <2> HIDE DEF ss, p
  <2>6. /\ PagerFits(pager[c])'
        /\ \A d \in Client \ {c} : pager'[d] = pager[d]
    BY <1>1, <1>2, <1>3, <2>1, <2>3, <2>4, AnswerFits
  <2>7. \A d \in Client \ {c} : PagerFits(pager[d])'
    BY <1>1, <2>6 DEF PagersFit, PagerFits, GapFree, Selects, Total
  <2> QED BY <2>6, <2>7 DEF PagersFit
<1> QED BY <1>4, <1>5

(* Clients stand where PagersFit says, whatever the log does around them.  *)
LEMMA PagerInvariant == Spec => []PagersFit
<1>1. Init => PagersFit
  BY DEF Init, PagersFit, PagerFits, GapFree
<1>2. ASSUME ChainInv, PagersFit, [Next]_vars PROVE PagersFit'
  <2>1. CASE UNCHANGED <<pager, recorded>>
    BY <1>2, <2>1, RecordedGrows
  <2>2. ASSUME NEW w \in Writer, RecordCommit(w) PROVE PagersFit'
    <3>1. rec[w].msg \in Message \cup {NoMessage}
      BY <1>2 DEF ChainInv, TypeOK, Event
    <3>2. UNCHANGED pager /\ recorded' = Append(recorded, rec[w].msg)
      BY <2>2 DEF RecordCommit
    <3> QED BY <1>2, <3>1, <3>2, RecordedGrows
  <2>3. CASE TruncateCommit
    <3>1. UNCHANGED pager /\ (recorded' = recorded \/ recorded' = Append(recorded, NoMessage))
      BY <2>3 DEF TruncateCommit, TruncateAudit
    <3> QED BY <1>2, <3>1, RecordedGrows
  <2> QED BY <1>2, <2>1, <2>2, <2>3, FirstPageFits, NextPageFits
          DEF Next, vars, Tick, RecordBegin, RecordFails, SetHold, TruncateBegin, TruncateFails
<1> QED BY ChainInvariant, <1>1, <1>2, PTL DEF Spec

(* A client that follows next_cursor sees every selected event between the *)
(* first and the last one it got: what a truncation removes between two    *)
(* pages ends its paging (410) and is never skipped silently.              *)
THEOREM PagesLeaveNoGap == Spec => []NoSilentGap
<1>1. ASSUME ChainInv, PagersFit PROVE NoSilentGap
  <2> SUFFICES ASSUME NEW c \in Client, pager[c].seen # {},
                      NEW s \in Min(pager[c].seen) .. Max(pager[c].seen),
                      Selects(pager[c].filter, s)
               PROVE  s \in pager[c].seen
    BY DEF NoSilentGap, Selects
  <2>1. Total \in Nat /\ pager[c].seen \subseteq 1 .. Total /\ GapFree(pager[c].filter, pager[c].seen)
    BY <1>1 DEF ChainInv, TypeOK, Total, PagersFit, PagerFits
  <2>2. Min(pager[c].seen) \in pager[c].seen
    <3>1. pager[c].seen \subseteq Nat
      BY <2>1
    <3> QED BY <3>1, MinLeast
  <2>3. Max(pager[c].seen) \in pager[c].seen
    <3>1. pager[c].seen \subseteq 0 .. Total
      BY <2>1
    <3> QED BY <2>1, <3>1, MaxGreatest
  <2> QED BY <2>1, <2>2, <2>3 DEF GapFree
<1> QED BY ChainInvariant, PagerInvariant, <1>1, PTL
=============================================================================
