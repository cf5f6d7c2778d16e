----------------------------- MODULE Retention -----------------------------
(***************************************************************************)
(* The background sweeper (internal/core/retention/sweeper.go), a single   *)
(* goroutine run by the ticker loop of cmd/attachra/retention.go.  A pass  *)
(* fixes its cutoff, marks stale links, then lists and purges chunks: for  *)
(* every attachment of a chunk it re-checks the hold, deletes the object,  *)
(* and only then deletes the rows.  The three are separate calls to two    *)
(* systems, so holds, downloads and uploads interleave between them.       *)
(***************************************************************************)
EXTENDS Persistence

CONSTANTS
  ChunkSize,    \* attachments per ListExpiredAttachments call
  Faulty,       \* attachments on which a storage or database call may fail
  Broken        \* attachments whose storage delete always fails

ASSUME RetentionAssumption ==
  /\ ChunkSize \in Nat \ {0}
  /\ Broken \subseteq Faulty /\ Faulty \subseteq Attachment

VARIABLE sweep

(* at: the pass's cutoff; batch: chunk not purged yet; cur: attachment     *)
(* being purged; full: the chunk had ChunkSize rows, list again after it.  *)
SweepState == [pc : {"idle", "list", "purge", "object", "rows", "audit"}, at : Nat,
               batch : SUBSET Attachment, cur : SUBSET Attachment, full : BOOLEAN]
SweepIdle == [pc |-> "idle", at |-> 0, batch |-> {}, cur |-> {}, full |-> FALSE]

RetentionTypeOK == sweep \in SweepState
RetentionInit == sweep = SweepIdle

SweepAt(pc) == sweep.pc = pc
Purging(a) == sweep.cur = {a}

-----------------------------------------------------------------------------
(* A tick fires: fix now, ExpireStaleLinks (an error there is only logged). *)
SweepStart(expire) ==
  /\ SweepAt("idle")
  /\ IF expire THEN ExpireStaleLinks(now) ELSE UNCHANGED dbVars
  /\ sweep' = [SweepIdle EXCEPT !.pc = "list", !.at = now]
  /\ UNCHANGED objects

(* ORDER BY retain_until LIMIT ChunkSize. *)
Chunk(candidates) ==
  {s \in SUBSET candidates :
     /\ Cardinality(s) <= ChunkSize
     /\ s = candidates \/ Cardinality(s) = ChunkSize
     /\ \A a \in s, b \in candidates \ s : attachments[a] <= attachments[b]}

(* An empty chunk ends the loop. *)
SweepList ==
  /\ SweepAt("list")
  /\ \E s \in Chunk(ExpiredAttachments(sweep.at)) :
       sweep' = IF s = {} THEN [sweep EXCEPT !.pc = "audit"]
                ELSE [sweep EXCEPT !.pc = "purge", !.batch = s,
                                   !.full = Cardinality(s) = ChunkSize]
  /\ UNCHANGED <<dbVars, objects>>

(* Listing failed: Sweep returns the error; the next tick starts over. *)
SweepListFails ==
  /\ SweepAt("list")
  /\ sweep' = SweepIdle
  /\ UNCHANGED <<dbVars, objects>>

(* purgeOne's IsAttachmentHeld re-check.  The order within a chunk is left  *)
(* open.                                                                    *)
PurgeAllowedUnchecked(a) == TRUE
PurgeAllowed(a) == ~AttachmentHeld(a)
PurgeCheck(a) ==
  /\ SweepAt("purge") /\ a \in sweep.batch
  /\ sweep' = IF PurgeAllowed(a)
                THEN [sweep EXCEPT !.pc = "object", !.cur = {a}, !.batch = @ \ {a}]
                ELSE [sweep EXCEPT !.batch = @ \ {a}]
  /\ UNCHANGED <<dbVars, objects>>

PurgeCheckFails(a) ==
  /\ SweepAt("purge") /\ a \in sweep.batch \cap Faulty
  /\ sweep' = [sweep EXCEPT !.batch = @ \ {a}]
  /\ UNCHANGED <<dbVars, objects>>

(* storage.Delete; an object already gone counts as deleted. *)
PurgeObject(a) ==
  /\ SweepAt("object") /\ Purging(a) /\ a \notin Broken
  /\ objects' = objects \ {a}
  /\ sweep' = [sweep EXCEPT !.pc = "rows"]
  /\ UNCHANGED dbVars

PurgeObjectFailsThenRows(a) ==
  /\ SweepAt("object") /\ Purging(a) /\ a \in Faulty
  /\ sweep' = [sweep EXCEPT !.pc = "rows"]
  /\ UNCHANGED <<dbVars, objects>>
PurgeObjectFails(a) ==
  /\ SweepAt("object") /\ Purging(a) /\ a \in Faulty
  /\ sweep' = [sweep EXCEPT !.pc = "purge", !.cur = {}]
  /\ UNCHANGED <<dbVars, objects>>

PurgeRows(a) ==
  /\ SweepAt("rows") /\ Purging(a)
  /\ DeleteAttachment(a)
  /\ sweep' = [sweep EXCEPT !.pc = "purge", !.cur = {}]
  /\ UNCHANGED objects

(* DeleteAttachment answers ErrHeld, ErrNotFound or a database error. *)
PurgeRowsRefused(a) ==
  /\ SweepAt("rows") /\ Purging(a)
  /\ AttachmentHeld(a) \/ ~AttachmentExists(a) \/ a \in Faulty
  /\ sweep' = [sweep EXCEPT !.pc = "purge", !.cur = {}]
  /\ UNCHANGED <<dbVars, objects>>

(* A short chunk means the backlog is drained; a full one is listed again. *)
SweepChunkDoneRelist ==
  /\ SweepAt("purge") /\ sweep.batch = {}
  /\ sweep' = [sweep EXCEPT !.pc = "list", !.full = FALSE]
  /\ UNCHANGED <<dbVars, objects>>
SweepChunkDone ==
  /\ SweepAt("purge") /\ sweep.batch = {}
  /\ sweep' = [sweep EXCEPT !.pc = IF sweep.full THEN "list" ELSE "audit", !.full = FALSE]
  /\ UNCHANGED <<dbVars, objects>>

(* sweepAudit (its truncation is specified in AuditLog) and return. *)
SweepAudit ==
  /\ SweepAt("audit")
  /\ sweep' = SweepIdle
  /\ UNCHANGED <<dbVars, objects>>

(* The context is cancelled: the pass stops where it is. *)
SweepCancelled ==
  /\ ~SweepAt("idle")
  /\ sweep' = SweepIdle

SweepStep ==
  \/ \E expire \in BOOLEAN : SweepStart(expire)
  \/ SweepList
  \/ \E a \in Attachment : PurgeCheck(a)
  \/ \E a \in Attachment : PurgeCheckFails(a)
  \/ \E a \in Attachment : PurgeObject(a)
  \/ \E a \in Attachment : PurgeObjectFails(a)
  \/ \E a \in Attachment : PurgeRows(a)
  \/ \E a \in Attachment : PurgeRowsRefused(a)
  \/ SweepChunkDone
  \/ SweepAudit

=============================================================================
