------------------------------ MODULE AuditLog ------------------------------
(***************************************************************************)
(* The tamper-evident audit log: Record, TruncateAudit and ListEvents of   *)
(* internal/core/store/sqlite/audit.go and the chain walk of               *)
(* internal/core/audit/verify.go.  Event producers read the clock before   *)
(* they wait for the single writer connection, the sweeper fixes its       *)
(* cutoff before its transaction, holds come and go, and an API client     *)
(* pages through the log while all this happens.                           *)
(***************************************************************************)
EXTENDS FiniteSetsExt, Sequences

CONSTANTS
  Message,      \* values of message_id
  NoMessage,    \* the empty message_id (and: no filter)
  Writer,       \* concurrent Record calls
  Client,       \* API clients paging through the log
  Retention,    \* audit_retention_seconds
  Limit,        \* page size of ListEvents
  MaxEvents,    \* bound on the rows ever appended
  MaxTime       \* bound on the clock

ASSUME AuditAssumption ==
  /\ NoMessage \notin Message
  /\ Retention \in Nat \ {0} /\ Limit \in Nat \ {0}
  /\ MaxEvents \in Nat /\ MaxTime \in Nat

VARIABLES
  clock,
  table,      \* audit_events: its rows by seq
  held,       \* messages with a link under legal hold
  rec,        \* Record calls: the event waiting for the writer
  trunc,      \* the sweeper's TruncateAudit call
  pager,      \* the clients, each following next_cursor
  recorded    \* message of every row ever appended, in commit order (history)

vars == <<clock, table, held, rec, trunc, pager, recorded>>

(* HashRecord covers every column of a row, prev_hash included.  SHA-256    *)
(* without collisions is the hashed record itself.                          *)
NoHash == <<>>
Hash(row) == <<row>>

NoEvent == [msg |-> NoMessage, at |-> 0]
Event == [msg : Message \cup {NoMessage}, at : Nat]
TruncIdle == [open |-> FALSE, from |-> 0]

Seqs == DOMAIN table
Oldest == Min(Seqs)

(* The types of the log and of the calls in flight; every row in the table *)
(* carries its own seq, one that Record or TruncateAudit has given.         *)
TypeOK ==
  /\ clock \in Nat \ {0}
  /\ Seqs \subseteq 1 .. Len(recorded)
  /\ \A s \in Seqs :
       /\ table[s].seq = s /\ table[s].at \in Nat /\ table[s].anchorSeq \in Nat
       /\ table[s].kind \in {"event", "checkpoint"}
       /\ table[s].msg \in Message \cup {NoMessage}
  /\ held \in SUBSET Message
  /\ rec \in [Writer -> Event]
  /\ trunc \in [open : BOOLEAN, from : Nat]
  /\ pager \in [Client -> [pc : {"start", "more", "done", "gone"}, after : Nat,
                           filter : Message \cup {NoMessage}, seen : SUBSET Nat]]
  /\ recorded \in Seq(Message \cup {NoMessage})

Init ==
  /\ clock = 1
  /\ table = <<>>
  /\ held = {}
  /\ rec = [w \in Writer |-> NoEvent]
  /\ trunc = TruncIdle
  /\ pager = [c \in Client |-> [pc |-> "start", after |-> 0, filter |-> NoMessage, seen |-> {}]]
  /\ recorded = <<>>

Tick ==
  /\ clock < MaxTime
  /\ clock' = clock + 1
  /\ UNCHANGED <<table, held, rec, trunc, pager, recorded>>

-----------------------------------------------------------------------------
(* lastAuditRecord, and the row a new event becomes.                       *)

LastSeqOffByOne == IF Seqs = {} THEN 0 ELSE Max(Seqs) + 1
LastSeq == IF Seqs = {} THEN 0 ELSE Max(Seqs)
LastHash == IF Seqs = {} THEN NoHash ELSE Hash(table[Max(Seqs)])

EventRow(seq, prev, msg, at) ==
  [seq |-> seq, prev |-> prev, kind |-> "event", msg |-> msg, at |-> at,
   anchorSeq |-> 0, anchorHash |-> NoHash]
Checkpoint(seq, prev, at, anchorSeq, anchorHash) ==
  [seq |-> seq, prev |-> prev, kind |-> "checkpoint", msg |-> NoMessage, at |-> at,
   anchorSeq |-> anchorSeq, anchorHash |-> anchorHash]

(* The rows of t above seq b, and row r. *)
Survivors(t, b, r) ==
  [s \in {u \in DOMAIN t : u > b} \cup {r.seq} |-> IF s = r.seq THEN r ELSE t[s]]

(* Record: stamp the event, then wait for the writer connection. *)
RecordBegin(w, m) ==
  /\ rec[w] = NoEvent
  /\ rec' = [rec EXCEPT ![w] = [msg |-> m, at |-> clock]]
  /\ UNCHANGED <<clock, table, held, trunc, pager, recorded>>

RecordCommit(w) ==
  /\ rec[w] # NoEvent /\ Len(recorded) < MaxEvents
  /\ table' = Survivors(table, 0, EventRow(LastSeq + 1, LastHash, rec[w].msg, rec[w].at))
  /\ recorded' = Append(recorded, rec[w].msg)
  /\ rec' = [rec EXCEPT ![w] = NoEvent]
  /\ UNCHANGED <<clock, held, trunc, pager>>

(* The transaction fails; producers log the error and go on. *)
RecordFails(w) ==
  /\ rec[w] # NoEvent
  /\ rec' = [rec EXCEPT ![w] = NoEvent]
  /\ UNCHANGED <<clock, table, held, trunc, pager, recorded>>

-----------------------------------------------------------------------------
(* store.SetHold on a link of message m, as the truncation query sees it.  *)

SetHold(m, hold) ==
  /\ held' = IF hold THEN held \cup {m} ELSE held \ {m}
  /\ UNCHANGED <<clock, table, rec, trunc, pager, recorded>>

-----------------------------------------------------------------------------
(* TruncateAudit.                                                          *)

(* created_at >= cutoff, where cutoff is from minus the retention. *)
Recent(row, from) == row.at + Retention >= from

(* The seq before the first recent row; the whole table if there is none. *)
auditTruncationBoundaryByTime(from) ==
  LET old == {s \in Seqs : ~Recent(table[s], from)}
  IN  IF old = {} THEN 0 ELSE Max(old)
auditTruncationBoundary(from) ==
  LET recent == {s \in Seqs : Recent(table[s], from)}
  IN  IF recent = {} THEN LastSeq ELSE Min(recent) - 1

(* The hold clamp: stop before the oldest event of a held message. *)
clampToHoldOffByOne(b) ==
  LET heldSeqs == {s \in Seqs : s <= b /\ table[s].msg \in held}
  IN  IF heldSeqs = {} THEN b ELSE Min(heldSeqs)
clampToHold(b) ==
  LET heldSeqs == {s \in Seqs : s <= b /\ table[s].msg \in held}
  IN  IF heldSeqs = {} THEN b ELSE Min(heldSeqs) - 1

(* sweepAudit computes the cutoff, then calls TruncateAudit. *)
TruncateBegin ==
  /\ ~trunc.open
  /\ trunc' = [open |-> TRUE, from |-> clock]
  /\ UNCHANGED <<clock, table, held, rec, pager, recorded>>

(* Nothing is written unless a row at the boundary is there to anchor on. *)
Eligible(b) == b \in Seqs

(* The transaction: checkpoint at the tail, then delete the prefix. *)
TruncateAuditDeleteFirst(b) ==
  LET kept == {s \in Seqs : s > b}
      seq == IF kept = {} THEN 1 ELSE Max(kept) + 1
      prev == IF kept = {} THEN NoHash ELSE Hash(table[Max(kept)])
  IN  /\ table' = Survivors(table, b, Checkpoint(seq, prev, clock, b, Hash(table[b])))
      /\ recorded' = Append(recorded, NoMessage)
TruncateAuditAnchorNext(b) ==
  /\ table' = Survivors(table, b, Checkpoint(LastSeq + 1, LastHash, clock, b + 1, Hash(table[b])))
  /\ recorded' = Append(recorded, NoMessage)
TruncateAudit(b) ==
  /\ table' = Survivors(table, b, Checkpoint(LastSeq + 1, LastHash, clock, b, Hash(table[b])))
  /\ recorded' = Append(recorded, NoMessage)

TruncateCommit ==
  LET b == clampToHold(auditTruncationBoundary(trunc.from)) IN
  /\ trunc.open /\ Len(recorded) < MaxEvents
  /\ IF Eligible(b) THEN TruncateAudit(b) ELSE UNCHANGED <<table, recorded>>
  /\ trunc' = TruncIdle
  /\ UNCHANGED <<clock, held, rec, pager>>

(* An error or a cancelled context: the next pass retries. *)
TruncateFails ==
  /\ trunc.open
  /\ trunc' = TruncIdle
  /\ UNCHANGED <<clock, table, held, rec, pager, recorded>>

-----------------------------------------------------------------------------
(* ListEvents: limit + 1 rows are read, the extra one only to know whether *)
(* there is a next page.                                                   *)

Matching(after, filter) ==
  {s \in Seqs : s > after /\ (filter = NoMessage \/ table[s].msg = filter)}
Page(ss) == {s \in ss : Cardinality({u \in ss : u < s}) < Limit}

Answer(c, ss, filter, seen) ==
  pager' = [pager EXCEPT ![c] =
              IF Page(ss) = ss
                THEN [pc |-> "done", after |-> 0, filter |-> filter, seen |-> seen \cup ss]
                ELSE [pc |-> "more", after |-> Max(Page(ss)), filter |-> filter,
                      seen |-> seen \cup Page(ss)]]

FirstPage(c, filter) ==
  /\ pager[c].pc = "start"
  /\ Answer(c, Matching(0, filter), filter, {})
  /\ UNCHANGED <<clock, table, held, rec, trunc, recorded>>

(* The guard and the SELECT share one read snapshot. *)
CursorTruncatedNever(after) == FALSE
CursorTruncated(after) == Seqs # {} /\ after + 1 < Oldest
NextPage(c) ==
  /\ pager[c].pc = "more"
  /\ IF CursorTruncated(pager[c].after)
       THEN pager' = [pager EXCEPT ![c].pc = "gone"]
       ELSE Answer(c, Matching(pager[c].after, pager[c].filter), pager[c].filter, pager[c].seen)
  /\ UNCHANGED <<clock, table, held, rec, trunc, recorded>>

-----------------------------------------------------------------------------
Next ==
  \/ Tick
  \/ \E w \in Writer, m \in Message \cup {NoMessage} : RecordBegin(w, m)
  \/ \E w \in Writer : RecordCommit(w)
  \/ \E w \in Writer : RecordFails(w)
  \/ \E m \in Message, hold \in BOOLEAN : SetHold(m, hold)
  \/ TruncateBegin
  \/ TruncateCommit
  \/ TruncateFails
  \/ \E c \in Client, f \in Message \cup {NoMessage} : FirstPage(c, f)
  \/ \E c \in Client : NextPage(c)

Spec == Init /\ [][Next]_vars

-----------------------------------------------------------------------------
(* audit.Verify: the chain walk and its report.                            *)

LinkOKSeqOnly(t, s) == s - 1 \in DOMAIN t
LinkOK(t, s) == s - 1 \in DOMAIN t /\ t[s].prev = Hash(t[s - 1])

(* The walker's checkpoints map: the last one with this anchor hash counts. *)
Vouches(t, c, h) ==
  /\ t[c].kind = "checkpoint" /\ t[c].anchorHash = h
  /\ \A d \in DOMAIN t : t[d].kind = "checkpoint" /\ t[d].anchorHash = h => d <= c

StartOK(t, first) ==
  \/ t[first].prev = NoHash
  \/ \E c \in DOMAIN t : Vouches(t, c, t[first].prev) /\ t[c].anchorSeq = first - 1

VerifyOK(t) ==
  DOMAIN t = {} \/ LET first == Min(DOMAIN t)
                   IN  /\ \A s \in DOMAIN t \ {first} : LinkOK(t, s)
                       /\ StartOK(t, first)

-----------------------------------------------------------------------------
(* Properties.                                                             *)

(* However Record, TruncateAudit and SetHold interleave, audit.Verify       *)
(* accepts the log: a legitimate truncation never looks like tampering.     *)
ChainVerifies == VerifyOK(table)

(* Conversely the walk notices when one row other than the newest was       *)
(* deleted or its content changed without rewriting what follows it.        *)
Without(s) == [u \in Seqs \ {s} |-> table[u]]
Altered(s) == [table EXCEPT ![s].at = @ + 1]
TamperEvident == \A s \in Seqs : s # LastSeq => ~VerifyOK(Without(s)) /\ ~VerifyOK(Altered(s))

(* A seq is never given twice, although it is computed from the last row    *)
(* left in the table, and no row changes after its insert.                  *)
SeqNeverReused ==
  /\ LastSeq = Len(recorded)
  /\ \A s \in Seqs : table[s].msg = recorded[s]

(* TruncateAudit never removes an event of a message held at that moment.   *)
HeldEventsKept == [][\A s \in Seqs : table[s].msg \in held => s \in DOMAIN table']_vars

(* Nor one that is inside the retention window, although rows are stamped   *)
(* before they get their seq, so that seq order is not time order.          *)
RecentEventsKept == [][\A s \in Seqs : Recent(table[s], clock) => s \in DOMAIN table']_vars

(* A client that follows next_cursor to the end, or is told the cursor is   *)
(* gone, has seen every matching event between the first and the last one   *)
(* it got: truncation between two pages never skips events silently.        *)
NoSilentGap ==
  \A c \in Client :
    LET p == pager[c] IN
    p.seen # {} =>
      \A s \in Min(p.seen) .. Max(p.seen) :
        p.filter = NoMessage \/ recorded[s] = p.filter => s \in p.seen

=============================================================================
