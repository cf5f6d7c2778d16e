--------------------------- MODULE DeliveryProofs ---------------------------
(***************************************************************************)
(* Proofs about Delivery.  The inductive invariant comes in layers, each    *)
(* proved with the ones before it:                                          *)
(*   RowInv    what the database rows owe to the Process calls that wrote   *)
(*             them and to one another,                                     *)
(*   BytesInv  where the bytes of every attachment are, and what the        *)
(*             sweeper knows of the attachments it is about to delete,      *)
(*   GrantInv  the downloads charged, on the rows and in service,           *)
(*   CutInv    what a revoke has covered.                                   *)
(* The parts of RowInv take the state as arguments, so that one lemma about *)
(* a table serves both sides of a step.                                     *)
(***************************************************************************)
EXTENDS Delivery, FiniteSetTheorems, TLAPS

Unwritten == {"idle", "upload", "message"}

(* What a Process call k remembers of its message m. *)
ProcShape(m, k) ==
  /\ k.todo \subseteq AttachmentsOf(m) /\ k.done \subseteq AttachmentsOf(m)
  /\ k.expires <= k.until
  /\ k.pc \in {"message", "attachments", "links", "rewrite"} => k.until # NoRow
  /\ k.pc = "links" => k.rcpts # {}

(* The retain_until of a row, and the call k of its message. *)
AttachmentFits(a, k, ms, until) ==
  /\ k.pc = "attachments" /\ a \in k.todo => until = NoRow
  /\ until # NoRow => until = k.until /\ MessageOf[a] \in ms

(* A link row, the call k of its message and the row of its attachment. *)
LinkFits(k, until, row) ==
  row.status # "none" => row.expires = k.expires /\ until # NoRow

(* Rows appear in the order of CreateLinks, with the times it resolved,    *)
(* under the parents the schema asks for.                                   *)
Rows(pr, ms, as, ls, ps) ==
  /\ \A m \in Message : ProcShape(m, pr[m])
  /\ \A m \in Message : pr[m].pc \in Unwritten => m \notin ms
  /\ \A a \in Attachment : AttachmentFits(a, pr[MessageOf[a]], ms, as[a])
  /\ \A l \in Link : LinkFits(pr[MessageOf[l[1]]], as[l[1]], ls[l])
  /\ \A p \in Package : ps[p].status # "none" => p[1] \in ms

(* The arguments of a request in flight. *)
OperatorFits(k) ==
  /\ k.pc \in {"revoke", "hold"} => k.link \in Link
  /\ k.pc = "cascade" => k.msg \in Message

DownloadFits(k, pr) == k.pc # "idle" =>
  /\ k.pkg \in Package /\ k.link \in Link
  /\ pr[k.pkg[1]].pc = "delivered" /\ k.pkg[2] = FirstRecipient
  /\ k.pc # "lookup" => MessageOf[k.link[1]] = k.pkg[1] /\ k.link[2] = k.pkg[2]

Requests ==
  /\ \A o \in Operator : OperatorFits(op[o])
  /\ \A d \in Downloader : DownloadFits(dl[d], proc)

RowInv == TypeOK /\ Rows(proc, messages, attachments, links, packages) /\ Requests

-----------------------------------------------------------------------------
(* Row lemmas.                                                             *)

(* A Process call that moves on without touching a row: it never goes back  *)
(* before its first row, and keeps the times its rows carry.                *)
Advances(j, k) ==
  /\ k.pc \in Unwritten => j.pc \in Unwritten
  /\ k.pc = "attachments" => j.pc = "attachments" /\ k.todo \subseteq j.todo
  /\ j.pc \in Unwritten \/ (k.until = j.until /\ k.expires = j.expires)

(* The tables fit the call after it as they did before.                     *)
LEMMA RowsAdvance ==
  ASSUME NEW pr \in [Message -> ProcState], NEW ms, NEW as, NEW ls, NEW ps,
         NEW m \in Message, NEW k \in ProcState,
         Rows(pr, ms, as, ls, ps), ProcShape(m, k), Advances(pr[m], k)
  PROVE  Rows([pr EXCEPT ![m] = k], ms, as, ls, ps)
<1> DEFINE qr == [pr EXCEPT ![m] = k]
<1>q. qr[m] = k /\ \A n \in Message : n # m => qr[n] = pr[n]
  OBVIOUS
<1> HIDE DEF qr
<1>1. \A n \in Message : ProcShape(n, qr[n])
  BY <1>q DEF Rows
<1>2. \A n \in Message : qr[n].pc \in Unwritten => n \notin ms
  BY <1>q DEF Rows, Advances
<1>3. ASSUME NEW a \in Attachment
      PROVE  AttachmentFits(a, qr[MessageOf[a]], ms, as[a])
  <2>1. MessageOf[a] \in Message /\ AttachmentFits(a, pr[MessageOf[a]], ms, as[a])
    BY PersistenceAssumption DEF Rows
  <2>2. MessageOf[a] \in ms => pr[MessageOf[a]].pc \notin Unwritten
    BY <2>1 DEF Rows
  <2>3. CASE MessageOf[a] = m
    BY <2>1, <2>2, <2>3, <1>q DEF AttachmentFits, Advances
  <2> QED BY <2>1, <2>3, <1>q
<1>4. ASSUME NEW l \in Link
      PROVE  LinkFits(qr[MessageOf[l[1]]], as[l[1]], ls[l])
  <2>1. /\ l[1] \in Attachment /\ MessageOf[l[1]] \in Message
        /\ LinkFits(pr[MessageOf[l[1]]], as[l[1]], ls[l])
        /\ AttachmentFits(l[1], pr[MessageOf[l[1]]], ms, as[l[1]])
    BY PersistenceAssumption DEF Rows, Link
  <2>2. MessageOf[l[1]] \in ms => pr[MessageOf[l[1]]].pc \notin Unwritten
    BY <2>1 DEF Rows
  <2>3. CASE MessageOf[l[1]] = m
    BY <2>1, <2>2, <2>3, <1>q DEF AttachmentFits, LinkFits, Advances
  <2> QED BY <2>1, <2>3, <1>q
<1> QED BY <1>1, <1>2, <1>3, <1>4 DEF Rows, qr

(* An update that neither creates nor deletes a row, nor moves its times,   *)
(* leaves the tables as they fit: a charge, a revoke, a hold, an expiry.    *)
LEMMA RowsKept ==
  ASSUME NEW pr, NEW ms, NEW as, NEW ls, NEW ps, NEW ls2, NEW ps2,
         Rows(pr, ms, as, ls, ps),
         \A l \in Link : /\ ls2[l].status = "none" <=> ls[l].status = "none"
                         /\ ls2[l].expires = ls[l].expires,
         \A p \in Package : ps2[p].status = "none" <=> ps[p].status = "none"
  PROVE  Rows(pr, ms, as, ls2, ps2)
BY DEF Rows, LinkFits

(* CreateMessage: its call turns to the attachments, none of which has a    *)
(* row yet.                                                                 *)
LEMMA RowsMessage ==
  ASSUME NEW pr \in [Message -> ProcState], NEW ms, NEW as, NEW ls, NEW ps,
         NEW m \in Message, NEW k \in ProcState,
         Rows(pr, ms, as, ls, ps), ProcShape(m, k),
         pr[m].pc = "message", k.pc = "attachments"
  PROVE  Rows([pr EXCEPT ![m] = k], ms \cup {m}, as, ls, ps)
<1> DEFINE qr == [pr EXCEPT ![m] = k]
<1>q. qr[m] = k /\ \A n \in Message : n # m => qr[n] = pr[n]
  OBVIOUS
<1>0. m \notin ms /\ k.pc \notin Unwritten
  BY DEF Rows, Unwritten
<1> HIDE DEF qr
<1>1. \A n \in Message : ProcShape(n, qr[n])
  BY <1>q DEF Rows
<1>2. \A n \in Message : qr[n].pc \in Unwritten => n \notin ms \cup {m}
  BY <1>q, <1>0 DEF Rows
<1>3. \A a \in Attachment : AttachmentFits(a, qr[MessageOf[a]], ms \cup {m}, as[a])
  BY ZenonT(30), <1>q, <1>0, PersistenceAssumption DEF Rows, AttachmentFits
<1>4. ASSUME NEW l \in Link
      PROVE  LinkFits(qr[MessageOf[l[1]]], as[l[1]], ls[l])
  BY ZenonT(30), <1>q, <1>0, PersistenceAssumption DEF Rows, AttachmentFits, LinkFits, Link
<1> QED BY <1>1, <1>2, <1>3, <1>4 DEF Rows, qr

(* CreateAttachment, for a call that has moved past the attachment.         *)
LEMMA RowsAttachment ==
  ASSUME NEW pr, NEW ms, NEW as \in [Attachment -> Nat], NEW ls, NEW ps,
         NEW a \in Attachment, NEW until,
         Rows(pr, ms, as, ls, ps), MessageOf[a] \in ms, until # NoRow,
         until = pr[MessageOf[a]].until, a \notin pr[MessageOf[a]].todo
  PROVE  Rows(pr, ms, [as EXCEPT ![a] = until], ls, ps)
BY PersistenceAssumption DEF Rows, AttachmentFits, LinkFits, Link

(* CreateLink.                                                              *)
LEMMA RowsLink ==
  ASSUME NEW pr, NEW ms, NEW as, NEW ls \in [Link -> LinkRow], NEW ps,
         NEW l \in Link, NEW row,
         Rows(pr, ms, as, ls, ps), as[l[1]] # NoRow, row.expires = pr[MessageOf[l[1]]].expires
  PROVE  Rows(pr, ms, as, [ls EXCEPT ![l] = row], ps)
BY DEF Rows, LinkFits

(* CreateMessageLink.                                                       *)
LEMMA RowsPackage ==
  ASSUME NEW pr, NEW ms, NEW as, NEW ls, NEW ps \in [Package -> PackageRow],
         NEW p \in Package, NEW row,
         Rows(pr, ms, as, ls, ps), p[1] \in ms
  PROVE  Rows(pr, ms, as, ls, [ps EXCEPT ![p] = row])
BY DEF Rows

(* DeleteAttachment: the links go with the row.                             *)
LEMMA RowsDropAttachment ==
  ASSUME NEW pr, NEW ms, NEW as \in [Attachment -> Nat], NEW ls, NEW ps, NEW a,
         NEW as2, as2 = [as EXCEPT ![a] = NoRow],
         NEW ls2, ls2 = [l \in Link |-> IF l[1] = a THEN NoLink ELSE ls[l]],
         Rows(pr, ms, as, ls, ps)
  PROVE  Rows(pr, ms, as2, ls2, ps)
<1>1. \A b \in Attachment : AttachmentFits(b, pr[MessageOf[b]], ms, as2[b])
  BY DEF Rows, AttachmentFits
<1>2. NoLink.status = "none"
  BY DEF NoLink
<1>3. \A l \in Link : LinkFits(pr[MessageOf[l[1]]], as2[l[1]], ls2[l])
  BY <1>2 DEF Rows, LinkFits, Link
<1> QED BY <1>1, <1>3 DEF Rows

(* DeleteMessage: the attachments, links and packages go with the row.      *)
LEMMA RowsDropMessage ==
  ASSUME NEW pr, NEW ms, NEW as, NEW ls, NEW ps, NEW m,
         NEW as2, as2 = [a \in Attachment |-> IF MessageOf[a] = m THEN NoRow ELSE as[a]],
         NEW ls2, ls2 = [l \in Link |-> IF MessageOf[l[1]] = m THEN NoLink ELSE ls[l]],
         NEW ps2, ps2 = [p \in Package |-> IF p[1] = m THEN NoPackage ELSE ps[p]],
         Rows(pr, ms, as, ls, ps)
  PROVE  Rows(pr, ms \ {m}, as2, ls2, ps2)
<1>1. \A b \in Attachment : AttachmentFits(b, pr[MessageOf[b]], ms \ {m}, as2[b])
  BY DEF Rows, AttachmentFits
<1>2. NoLink.status = "none" /\ NoPackage.status = "none"
  BY DEF NoLink, NoPackage
<1>3. \A l \in Link : LinkFits(pr[MessageOf[l[1]]], as2[l[1]], ls2[l])
  BY <1>2 DEF Rows, LinkFits, Link
<1>4. \A p \in Package : ps2[p].status # "none" => p[1] \in ms \ {m}
  BY <1>2 DEF Rows
<1>5. \A n \in Message : pr[n].pc \in Unwritten => n \notin ms \ {m}
  BY DEF Rows
<1> QED BY <1>1, <1>3, <1>4, <1>5 DEF Rows

-----------------------------------------------------------------------------
(* The Process calls: what each step makes of the call of its message.     *)

(* The Process call of m becomes the call k. *)
Becomes(m, k) == k \in ProcState /\ proc' = [proc EXCEPT ![m] = k]

(* What TypeOK says of one call and of its message's attachments.           *)
LEMMA CallType ==
  ASSUME TypeOK, NEW m \in Message
  PROVE  /\ proc \in [Message -> ProcState] /\ proc[m] \in ProcState
         /\ AttachmentsOf(m) \in SUBSET Attachment
BY DEF TypeOK, PipelineTypeOK, AttachmentsOf

(* The policy decided: the upload starts.                                  *)
LEMMA BeginCall ==
  ASSUME TypeOK, NEW m \in Message, NEW p \in PolicyParams, Begin(m, p)
  PROVE  \E k : /\ Becomes(m, k)
                /\ k = [proc[m] EXCEPT !.pc = "upload", !.params = p, !.todo = AttachmentsOf(m)]
<1>1. PICK k : k = [proc[m] EXCEPT !.pc = "upload", !.params = p, !.todo = AttachmentsOf(m)]
  OBVIOUS
<1>0. p \in [ttl : Nat, retention : Nat, max : Nat]
  BY PipelineAssumption
<1>2. k \in ProcState
  BY ZenonT(30), CallType, <1>0, <1>1 DEF ProcState, Phase
<1>3. proc' = [proc EXCEPT ![m] = k]
  BY CallType, <1>1 DEF Begin
<1> QED BY <1>1, <1>2, <1>3 DEF Becomes

(* One attachment more is stored.                                          *)
LEMMA UploadCall ==
  ASSUME TypeOK, NEW m \in Message, NEW a \in Attachment, Upload(m, a)
  PROVE  \E k : /\ Becomes(m, k)
                /\ k = [proc[m] EXCEPT !.todo = @ \ {a}, !.done = @ \cup {a}]
<1>1. PICK k : k = [proc[m] EXCEPT !.todo = @ \ {a}, !.done = @ \cup {a}]
  OBVIOUS
<1>2. k \in ProcState
  BY ZenonT(30), CallType, <1>1 DEF ProcState, Phase
<1>3. proc' = [proc EXCEPT ![m] = k]
  BY CallType, <1>1 DEF Upload
<1> QED BY <1>1, <1>2, <1>3 DEF Becomes

(* An upload error turns to the cleanup.                                   *)
LEMMA UploadFailsCall ==
  ASSUME TypeOK, NEW m \in Message, NEW a, NEW stored, UploadFails(m, a, stored)
  PROVE  \E k : /\ Becomes(m, k)
                /\ k = [proc[m] EXCEPT !.pc = "rollback"]
<1>1. PICK k : k = [proc[m] EXCEPT !.pc = "rollback"]
  OBVIOUS
<1>2. k \in ProcState
  BY CallType, <1>1 DEF ProcState, Phase
<1>3. proc' = [proc EXCEPT ![m] = k]
  BY CallType, <1>1 DEF UploadFails
<1> QED BY <1>1, <1>2, <1>3 DEF Becomes

(* The message row is in; the attachments are next.                        *)
LEMMA WriteMessageCall ==
  ASSUME TypeOK, NEW m \in Message, WriteMessage(m)
  PROVE  \E k : /\ Becomes(m, k)
                /\ k = [proc[m] EXCEPT !.pc = "attachments", !.todo = AttachmentsOf(m)]
<1>1. PICK k : k = [proc[m] EXCEPT !.pc = "attachments", !.todo = AttachmentsOf(m)]
  OBVIOUS
<1>2. k \in ProcState
  BY ZenonT(30), CallType, <1>1 DEF ProcState, Phase
<1>3. proc' = [proc EXCEPT ![m] = k]
  BY CallType, <1>1 DEF WriteMessage
<1> QED BY <1>1, <1>2, <1>3 DEF Becomes

(* One attachment row less to write.                                       *)
LEMMA WriteAttachmentCall ==
  ASSUME TypeOK, NEW m \in Message, NEW a, WriteAttachment(m, a)
  PROVE  \E k : /\ Becomes(m, k)
                /\ k = [proc[m] EXCEPT !.todo = @ \ {a}]
<1>1. PICK k : k = [proc[m] EXCEPT !.todo = @ \ {a}]
  OBVIOUS
<1>2. k \in ProcState
  BY CallType, <1>1 DEF ProcState, Phase
<1>3. proc' = [proc EXCEPT ![m] = k]
  BY CallType, <1>1 DEF WriteAttachment
<1> QED BY <1>1, <1>2, <1>3 DEF Becomes

(* The attachment rows are in; every recipient is to be linked.            *)
LEMMA StartLinkLoopCall ==
  ASSUME TypeOK, NEW m \in Message, StartLinkLoop(m)
  PROVE  \E k : /\ Becomes(m, k)
                /\ k = [proc[m] EXCEPT !.pc = "links", !.todo = AttachmentsOf(m), !.rcpts = Recipient]
<1>1. PICK k : k = [proc[m] EXCEPT !.pc = "links", !.todo = AttachmentsOf(m), !.rcpts = Recipient]
  OBVIOUS
<1>2. k \in ProcState
  BY ZenonT(30), CallType, <1>1 DEF ProcState, Phase
<1>3. proc' = [proc EXCEPT ![m] = k]
  BY CallType, <1>1 DEF StartLinkLoop
<1> QED BY <1>1, <1>2, <1>3 DEF Becomes

(* One link of the recipient less to write.                                *)
LEMMA WriteLinkCall ==
  ASSUME TypeOK, NEW m \in Message, NEW a, WriteLink(m, a)
  PROVE  \E k : /\ Becomes(m, k)
                /\ k = [proc[m] EXCEPT !.todo = @ \ {a}]
<1>1. PICK k : k = [proc[m] EXCEPT !.todo = @ \ {a}]
  OBVIOUS
<1>2. k \in ProcState
  BY CallType, <1>1 DEF ProcState, Phase
<1>3. proc' = [proc EXCEPT ![m] = k]
  BY CallType, <1>1 DEF WriteLink
<1> QED BY <1>1, <1>2, <1>3 DEF Becomes

(* Any later error turns to the cleanup as well.                           *)
LEMMA ProcessFailsCall ==
  ASSUME TypeOK, NEW m \in Message, ProcessFails(m)
  PROVE  \E k : /\ Becomes(m, k)
                /\ k = [proc[m] EXCEPT !.pc = "rollback"]
<1>1. PICK k : k = [proc[m] EXCEPT !.pc = "rollback"]
  OBVIOUS
<1>2. k \in ProcState
  BY CallType, <1>1 DEF ProcState, Phase
<1>3. proc' = [proc EXCEPT ![m] = k]
  BY CallType, <1>1 DEF ProcessFails
<1> QED BY <1>1, <1>2, <1>3 DEF Becomes

(* The rewritten body leaves; the uploads are no longer the call's to undo. *)
LEMMA DeliverCall ==
  ASSUME TypeOK, NEW m \in Message, Deliver(m)
  PROVE  \E k : /\ Becomes(m, k)
                /\ k = [proc[m] EXCEPT !.pc = "delivered", !.done = {}]
<1>1. PICK k : k = [proc[m] EXCEPT !.pc = "delivered", !.done = {}]
  OBVIOUS
<1>2. k \in ProcState
  BY ZenonT(30), CallType, <1>1 DEF ProcState, Phase
<1>3. proc' = [proc EXCEPT ![m] = k]
  BY CallType, <1>1 DEF Deliver
<1> QED BY <1>1, <1>2, <1>3 DEF Becomes

(* One upload undone.                                                      *)
LEMMA RollbackObjectCall ==
  ASSUME TypeOK, NEW m \in Message, NEW a, RollbackObject(m, a)
  PROVE  \E k : /\ Becomes(m, k)
                /\ k = [proc[m] EXCEPT !.done = @ \ {a}]
<1>1. PICK k : k = [proc[m] EXCEPT !.done = @ \ {a}]
  OBVIOUS
<1>2. k \in ProcState
  BY CallType, <1>1 DEF ProcState, Phase
<1>3. proc' = [proc EXCEPT ![m] = k]
  BY CallType, <1>1 DEF RollbackObject
<1> QED BY <1>1, <1>2, <1>3 DEF Becomes

(* One upload given up.                                                    *)
LEMMA RollbackObjectFailsCall ==
  ASSUME TypeOK, NEW m \in Message, NEW a, RollbackObjectFails(m, a)
  PROVE  \E k : /\ Becomes(m, k)
                /\ k = [proc[m] EXCEPT !.done = @ \ {a}]
<1>1. PICK k : k = [proc[m] EXCEPT !.done = @ \ {a}]
  OBVIOUS
<1>2. k \in ProcState
  BY CallType, <1>1 DEF ProcState, Phase
<1>3. proc' = [proc EXCEPT ![m] = k]
  BY CallType, <1>1 DEF RollbackObjectFails
<1> QED BY <1>1, <1>2, <1>3 DEF Becomes

(* The rows are purged and the call has failed.                            *)
LEMMA PurgeMessageCall ==
  ASSUME TypeOK, NEW m \in Message, PurgeMessage(m)
  PROVE  \E k : /\ Becomes(m, k)
                /\ k = [proc[m] EXCEPT !.pc = "failed"]
<1>1. PICK k : k = [proc[m] EXCEPT !.pc = "failed"]
  OBVIOUS
<1>2. k \in ProcState
  BY CallType, <1>1 DEF ProcState, Phase
<1>3. proc' = [proc EXCEPT ![m] = k]
  BY CallType, <1>1 DEF PurgeMessage
<1> QED BY <1>1, <1>2, <1>3 DEF Becomes

(* The call has failed without a purge.                                    *)
LEMMA PurgeSkippedCall ==
  ASSUME TypeOK, NEW m \in Message, PurgeSkipped(m)
  PROVE  \E k : /\ Becomes(m, k)
                /\ k = [proc[m] EXCEPT !.pc = "failed"]
<1>1. PICK k : k = [proc[m] EXCEPT !.pc = "failed"]
  OBVIOUS
<1>2. k \in ProcState
  BY CallType, <1>1 DEF ProcState, Phase
<1>3. proc' = [proc EXCEPT ![m] = k]
  BY CallType, <1>1 DEF PurgeSkipped
<1> QED BY <1>1, <1>2, <1>3 DEF Becomes

(* CreateLinks fixes the expiry and the retention of every row to come; the *)
(* clamp of resolveParams keeps the object at least as long as its links.   *)
LEMMA ResolvedTimes ==
  ASSUME NEW q \in [ttl : Nat, retention : Nat, max : Nat]
  PROVE  /\ resolveParams(q).ttl \in Nat \ {0} /\ resolveParams(q).retention \in Nat
         /\ resolveParams(q).max \in Nat
         /\ resolveParams(q).ttl <= resolveParams(q).retention
BY PipelineAssumption DEF resolveParams, Given

(* ResolveLinks fixes the expiry of the links and of the objects from the   *)
(* decision of the policy, clamped and defaulted.                           *)
LEMMA ResolveLinksCall ==
  ASSUME TypeOK, NEW m \in Message, ResolveLinks(m)
  PROVE  \E k, q :
           /\ Becomes(m, k) /\ q = resolveParams(proc[m].params)
           /\ q.ttl \in Nat \ {0} /\ q.retention \in Nat /\ q.ttl <= q.retention
           /\ k = [proc[m] EXCEPT !.pc = "message", !.purge = TRUE, !.max = q.max,
                                  !.expires = now + q.ttl, !.until = now + q.retention]
<1>1. PICK q : q = resolveParams(proc[m].params)
  OBVIOUS
<1>2. PICK k : k = [proc[m] EXCEPT !.pc = "message", !.purge = TRUE, !.max = q.max,
                                   !.expires = now + q.ttl, !.until = now + q.retention]
  OBVIOUS
<1>3. /\ q.ttl \in Nat \ {0} /\ q.retention \in Nat /\ q.max \in Nat
      /\ q.ttl <= q.retention
  BY CallType, ResolvedTimes, <1>1 DEF ProcState
<1>4. now \in Nat
  BY DEF TypeOK, PersistenceTypeOK
<1>5. now + q.ttl \in Nat /\ now + q.retention \in Nat
  BY <1>3, <1>4
<1>6. k \in ProcState
  BY ZenonT(30), CallType, <1>2, <1>3, <1>5 DEF ProcState, Phase
<1>7. proc' = [proc EXCEPT ![m] = k]
  BY CallType, <1>1, <1>2 DEF ResolveLinks
<1> QED BY <1>1, <1>2, <1>3, <1>6, <1>7 DEF Becomes

(* The recipients done, the body is rewritten; else the next one's links.   *)
LEMMA WritePackageCall ==
  ASSUME TypeOK, NEW m \in Message, WritePackage(m)
  PROVE  \E k, rest :
           /\ Becomes(m, k) /\ rest = proc[m].rcpts \ {NextRecipient(proc[m].rcpts)}
           /\ k = [proc[m] EXCEPT !.rcpts = rest,
                                  !.todo = IF rest = {} THEN {} ELSE AttachmentsOf(m),
                                  !.pc = IF rest = {} THEN "rewrite" ELSE "links"]
<1>1. PICK rest : rest = proc[m].rcpts \ {NextRecipient(proc[m].rcpts)}
  OBVIOUS
<1>2. PICK k : k = [proc[m] EXCEPT !.rcpts = rest,
                                   !.todo = IF rest = {} THEN {} ELSE AttachmentsOf(m),
                                   !.pc = IF rest = {} THEN "rewrite" ELSE "links"]
  OBVIOUS
<1>3. k \in ProcState
  BY ZenonT(30), CallType, <1>1, <1>2 DEF ProcState, Phase
<1>4. proc' = [proc EXCEPT ![m] = k]
  BY CallType, <1>1, <1>2 DEF WritePackage
<1> QED BY <1>1, <1>2, <1>3, <1>4 DEF Becomes

-----------------------------------------------------------------------------
(* RowInv is inductive.                                                    *)

(* The parts of TypeOK, for steps that rewrite only some of the variables.  *)
LEMMA TypeParts ==
  ASSUME PersistenceTypeOK', PipelineTypeOK', RetentionTypeOK', EngineTypeOK',
         crashes' \in Nat, Observe
  PROVE  TypeOK'
<1>1. protected' \in SUBSET Attachment
  BY DEF Observe
<1> QED BY <1>1 DEF TypeOK

(* A step of a Process call changes the call, the leaked objects, the       *)
(* storage and the tables; the requests stay, and what was delivered is.    *)
LEMMA PipelineFrame ==
  ASSUME RowInv, NEW m \in Message, NEW k, Becomes(m, k), proc[m].pc # "delivered",
         leaked' \in SUBSET Attachment, PersistenceTypeOK',
         Rows(proc', messages', attachments', links', packages'),
         UNCHANGED <<sweep, engineVars, crashes>>, Observe
  PROVE  RowInv'
<1>1. proc \in [Message -> ProcState]
  BY DEF RowInv, TypeOK, PipelineTypeOK
<1>2. PipelineTypeOK'
  BY <1>1 DEF Becomes, PipelineTypeOK
<1>3. RetentionTypeOK' /\ EngineTypeOK' /\ crashes' \in Nat
  BY DEF RowInv, TypeOK, RetentionTypeOK, EngineTypeOK, engineVars
<1>4. dl' = dl /\ op' = op
  BY DEF engineVars
<1>5. ASSUME NEW d \in Downloader
      PROVE  DownloadFits(dl'[d], proc')
  <2>1. DownloadFits(dl[d], proc)
    BY DEF RowInv, Requests
  <2>2. dl[d].pc # "idle" => proc'[dl[d].pkg[1]] = proc[dl[d].pkg[1]]
    BY <1>1, <2>1 DEF Becomes, DownloadFits, Package
  <2> QED BY <1>4, <2>1, <2>2 DEF DownloadFits
<1>6. Requests'
  BY <1>4, <1>5 DEF Requests, RowInv
<1>7. TypeOK'
  BY <1>2, <1>3, TypeParts
<1> QED BY <1>6, <1>7 DEF RowInv

(* A step of a Process call that touches no row.                            *)
LEMMA QuietCall ==
  ASSUME RowInv, NEW m \in Message, NEW k, Becomes(m, k), proc[m].pc # "delivered",
         ProcShape(m, k), Advances(proc[m], k),
         leaked' \in SUBSET Attachment, objects' \in SUBSET Attachment,
         UNCHANGED <<now, dbVars, sweep, engineVars, crashes>>, Observe
  PROVE  RowInv'
<1>1. /\ messages' = messages /\ attachments' = attachments
      /\ links' = links /\ packages' = packages /\ now' = now
  BY DEF dbVars
<1>2. PersistenceTypeOK'
  BY <1>1 DEF RowInv, TypeOK, PersistenceTypeOK
<1>3. proc \in [Message -> ProcState]
  BY DEF RowInv, TypeOK, PipelineTypeOK
<1>4. Rows([proc EXCEPT ![m] = k], messages, attachments, links, packages)
  BY <1>3, RowsAdvance DEF RowInv, Becomes
<1>5. Rows(proc', messages', attachments', links', packages')
  BY <1>1, <1>4 DEF Becomes
<1> QED BY <1>2, <1>5, PipelineFrame

(* What a Process call knows before it moves.                               *)
LEMMA CallKnown ==
  ASSUME RowInv, NEW m \in Message
  PROVE  /\ TypeOK /\ proc \in [Message -> ProcState] /\ proc[m] \in ProcState
         /\ AttachmentsOf(m) \in SUBSET Attachment
         /\ leaked \in SUBSET Attachment /\ objects \in SUBSET Attachment
         /\ ProcShape(m, proc[m])
BY CallType DEF RowInv, Rows, TypeOK, PipelineTypeOK, PersistenceTypeOK

(* The frame every pipeline step leaves alone.                              *)
PipelineRest == UNCHANGED <<now, sweep, engineVars, crashes>> /\ Observe

(* The steps before the rows: uploads, and the times CreateLinks resolves.  *)
LEMMA UploadRows ==
  ASSUME RowInv, PipelineRest, NEW m \in Message,
         \/ \E p \in PolicyParams : Begin(m, p)
         \/ \E a \in Attachment : Upload(m, a)
         \/ \E a \in Attachment, stored \in BOOLEAN : UploadFails(m, a, stored)
         \/ ResolveLinks(m)
  PROVE  RowInv'
<1>1. CASE \E p \in PolicyParams : Begin(m, p)
  <2>1. PICK p \in PolicyParams : Begin(m, p)
    BY <1>1
  <2>2. PICK k : /\ Becomes(m, k)
                 /\ k = [proc[m] EXCEPT !.pc = "upload", !.params = p, !.todo = AttachmentsOf(m)]
    BY <2>1, CallKnown, BeginCall
  <2>3. proc[m].pc = "idle"
    BY <2>1 DEF Begin, At
  <2>4. ProcShape(m, k) /\ Advances(proc[m], k)
    BY <2>2, <2>3, CallKnown DEF ProcState, ProcShape, Advances, Unwritten
  <2> QED BY <2>1, <2>2, <2>3, <2>4, CallKnown, QuietCall DEF Begin, PipelineRest
<1>2. CASE \E a \in Attachment : Upload(m, a)
  <2>1. PICK a \in Attachment : Upload(m, a)
    BY <1>2
  <2>2. PICK k : Becomes(m, k) /\ k = [proc[m] EXCEPT !.todo = @ \ {a}, !.done = @ \cup {a}]
    BY <2>1, CallKnown, UploadCall
  <2>3. proc[m].pc = "upload" /\ a \in proc[m].todo
    BY <2>1 DEF Upload, At
  <2>4. ProcShape(m, k) /\ Advances(proc[m], k)
    BY <2>2, <2>3, CallKnown DEF ProcState, ProcShape, Advances, Unwritten
  <2> QED BY <2>1, <2>2, <2>3, <2>4, CallKnown, QuietCall DEF Upload, PipelineRest
<1>3. CASE \E a \in Attachment, stored \in BOOLEAN : UploadFails(m, a, stored)
  <2>1. PICK a \in Attachment, stored \in BOOLEAN : UploadFails(m, a, stored)
    BY <1>3
  <2>2. PICK k : Becomes(m, k) /\ k = [proc[m] EXCEPT !.pc = "rollback"]
    BY <2>1, CallKnown, UploadFailsCall
  <2>3. proc[m].pc = "upload"
    BY <2>1 DEF UploadFails, At
  <2>4. ProcShape(m, k) /\ Advances(proc[m], k)
    BY <2>2, <2>3, CallKnown DEF ProcState, ProcShape, Advances, Unwritten
  <2>5. leaked' \in SUBSET Attachment /\ objects' \in SUBSET Attachment
    BY <2>1, CallKnown DEF UploadFails
  <2> QED BY <2>1, <2>2, <2>3, <2>4, <2>5, QuietCall DEF UploadFails, PipelineRest
<1>4. CASE ResolveLinks(m)
  <2>2. PICK k, q :
          /\ Becomes(m, k) /\ q = resolveParams(proc[m].params)
          /\ q.ttl \in Nat \ {0} /\ q.retention \in Nat /\ q.ttl <= q.retention
          /\ k = [proc[m] EXCEPT !.pc = "message", !.purge = TRUE, !.max = q.max,
                                 !.expires = now + q.ttl, !.until = now + q.retention]
    BY <1>4, CallKnown, ResolveLinksCall
  <2>3. proc[m].pc = "upload"
    BY <1>4 DEF ResolveLinks, At
  <2>4. now \in Nat
    BY DEF RowInv, TypeOK, PersistenceTypeOK
  <2>5. now + q.ttl <= now + q.retention /\ now + q.retention # NoRow
    BY <2>2, <2>4 DEF NoRow
  <2>6. ProcShape(m, k) /\ Advances(proc[m], k)
    BY <2>2, <2>3, <2>5, CallKnown DEF ProcState, ProcShape, Advances, Unwritten
  <2> QED BY <1>4, <2>2, <2>3, <2>6, CallKnown, QuietCall DEF ResolveLinks, PipelineRest
<1> QED BY <1>1, <1>2, <1>3, <1>4

(* Every recipient in turn: the next one is one that is left.               *)
LEMMA NextIsLeft ==
  ASSUME NEW rs \in SUBSET Recipient, rs # {}
  PROVE  NextRecipient(rs) \in rs
BY DEF NextRecipient

(* The tables as the row lemmas take them.                                  *)
LEMMA TablesKnown ==
  ASSUME RowInv
  PROVE  /\ now \in Nat /\ messages \in SUBSET Message /\ attachments \in [Attachment -> Nat]
         /\ links \in [Link -> LinkRow] /\ packages \in [Package -> PackageRow]
         /\ objects \in SUBSET Attachment
         /\ Rows(proc, messages, attachments, links, packages)
BY DEF RowInv, TypeOK, PersistenceTypeOK

(* CreateLinks: the message row, the attachment rows, then the links and    *)
(* the package page of every recipient.                                     *)
LEMMA WriteRows ==
  ASSUME RowInv, PipelineRest, NEW m \in Message,
         \/ WriteMessage(m)
         \/ \E a \in Attachment : WriteAttachment(m, a)
         \/ StartLinkLoop(m)
         \/ \E a \in Attachment : WriteLink(m, a)
         \/ WritePackage(m)
  PROVE  RowInv'
<1>k. /\ TypeOK /\ proc \in [Message -> ProcState] /\ proc[m] \in ProcState
      /\ AttachmentsOf(m) \in SUBSET Attachment
      /\ leaked \in SUBSET Attachment /\ objects \in SUBSET Attachment
      /\ ProcShape(m, proc[m])
  BY CallKnown
<1>t. /\ now \in Nat /\ messages \in SUBSET Message /\ attachments \in [Attachment -> Nat]
      /\ links \in [Link -> LinkRow] /\ packages \in [Package -> PackageRow]
      /\ objects \in SUBSET Attachment
      /\ Rows(proc, messages, attachments, links, packages)
  BY TablesKnown
<1>1. CASE WriteMessage(m)
  <2>1. PICK k : Becomes(m, k) /\ k = [proc[m] EXCEPT !.pc = "attachments", !.todo = AttachmentsOf(m)]
    BY <1>1, <1>k, WriteMessageCall
  <2>2. proc[m].pc = "message"
    BY <1>1 DEF WriteMessage, At
  <2>3. ProcShape(m, k) /\ k.pc = "attachments"
    BY <2>1, <2>2, <1>k DEF ProcState, ProcShape
  <2>4. Rows([proc EXCEPT ![m] = k], messages \cup {m}, attachments, links, packages)
    BY <2>1, <2>2, <2>3, <1>k, <1>t, RowsMessage DEF Becomes
  <2>5. Rows(proc', messages', attachments', links', packages')
    BY <1>1, <2>1, <2>4 DEF WriteMessage, CreateMessage, Becomes
  <2>6. PersistenceTypeOK'
    BY <1>1, <1>t DEF WriteMessage, CreateMessage, PersistenceTypeOK, PipelineRest
  <2> QED BY <1>1, <1>k, <2>1, <2>2, <2>5, <2>6, PipelineFrame DEF WriteMessage, PipelineRest
<1>2. CASE \E a \in Attachment : WriteAttachment(m, a)
  <2>0. PICK a \in Attachment : WriteAttachment(m, a)
    BY <1>2
  <2>1. PICK k : Becomes(m, k) /\ k = [proc[m] EXCEPT !.todo = @ \ {a}]
    BY <2>0, <1>k, WriteAttachmentCall
  <2>2. proc[m].pc = "attachments" /\ a \in proc[m].todo /\ MessageOf[a] \in messages
    BY <2>0 DEF WriteAttachment, CreateAttachment, At
  <2>3. /\ ProcShape(m, k) /\ Advances(proc[m], k)
        /\ a \notin k.todo /\ k.until = proc[m].until
        /\ proc[m].until # NoRow /\ proc[m].until \in Nat /\ MessageOf[a] = m
    BY <2>1, <2>2, <1>k DEF ProcState, ProcShape, Advances, Unwritten, AttachmentsOf
  <2>4. Rows([proc EXCEPT ![m] = k], messages, attachments, links, packages)
    BY <2>1, <2>3, <1>k, <1>t, RowsAdvance DEF Becomes
  <2>5. [proc EXCEPT ![m] = k][MessageOf[a]] = k
    BY <2>3, <1>k
  <2>6. Rows([proc EXCEPT ![m] = k], messages, [attachments EXCEPT ![a] = proc[m].until],
             links, packages)
    BY <2>2, <2>3, <2>4, <2>5, <1>t, RowsAttachment
  <2>7. Rows(proc', messages', attachments', links', packages')
    BY <2>0, <2>1, <2>6 DEF WriteAttachment, CreateAttachment, Becomes
  <2>8. PersistenceTypeOK'
    BY <2>0, <2>3, <1>t DEF WriteAttachment, CreateAttachment, PersistenceTypeOK, PipelineRest
  <2> QED BY <2>0, <1>k, <2>1, <2>2, <2>7, <2>8, PipelineFrame DEF WriteAttachment, PipelineRest
<1>3. CASE StartLinkLoop(m)
  <2>1. PICK k : /\ Becomes(m, k)
                 /\ k = [proc[m] EXCEPT !.pc = "links", !.todo = AttachmentsOf(m), !.rcpts = Recipient]
    BY <1>3, <1>k, StartLinkLoopCall
  <2>2. proc[m].pc = "attachments" /\ Recipient # {}
    BY <1>3, PipelineAssumption DEF StartLinkLoop, At
  <2>3. ProcShape(m, k) /\ Advances(proc[m], k)
    BY <2>1, <2>2, <1>k DEF ProcState, ProcShape, Advances, Unwritten
  <2> QED BY <1>3, <2>1, <2>2, <2>3, <1>k, QuietCall DEF StartLinkLoop, PipelineRest
<1>4. CASE \E a \in Attachment : WriteLink(m, a)
  <2>0. PICK a \in Attachment : WriteLink(m, a)
    BY <1>4
  <2>1. PICK k : Becomes(m, k) /\ k = [proc[m] EXCEPT !.todo = @ \ {a}]
    BY <2>0, <1>k, WriteLinkCall
  <2>2. proc[m].pc = "links" /\ a \in proc[m].todo
    BY <2>0 DEF WriteLink, At
  <2>3. /\ ProcShape(m, k) /\ Advances(proc[m], k) /\ k.expires = proc[m].expires
        /\ MessageOf[a] = m /\ proc[m].expires \in Nat /\ proc[m].max \in Nat
    BY <2>1, <2>2, <1>k DEF ProcState, ProcShape, Advances, Unwritten, AttachmentsOf
  <2>4. PICK l : l = <<a, NextRecipient(proc[m].rcpts)>>
    OBVIOUS
  <2>5. l \in Link /\ l[1] = a
    <3>1. proc[m].rcpts \in SUBSET Recipient /\ proc[m].rcpts # {}
      BY <2>2, <1>k DEF ProcState, ProcShape
    <3> QED BY <3>1, <2>4, NextIsLeft DEF Link
  <2>6. PICK row : row = [status |-> "active", expires |-> proc[m].expires, max |-> proc[m].max,
                          downloads |-> 0, hold |-> FALSE]
    OBVIOUS
  <2>7. /\ attachments[l[1]] # NoRow /\ links' = [links EXCEPT ![l] = row]
        /\ UNCHANGED <<messages, attachments, packages, objects, leaked>>
    BY <2>0, <2>4, <2>6 DEF WriteLink, CreateLink, AttachmentExists
  <2>8. row \in LinkRow /\ row.expires = proc[m].expires
    BY <2>3, <2>6 DEF LinkRow, LinkStatus
  <2>9. Rows([proc EXCEPT ![m] = k], messages, attachments, links, packages)
    BY <2>1, <2>3, <1>k, <1>t, RowsAdvance DEF Becomes
  <2>10. [proc EXCEPT ![m] = k][MessageOf[l[1]]] = k
    BY <2>3, <2>5, <1>k
  <2>11. Rows([proc EXCEPT ![m] = k], messages, attachments, [links EXCEPT ![l] = row], packages)
    BY <2>3, <2>5, <2>7, <2>8, <2>9, <2>10, <1>t, RowsLink
  <2>12. Rows(proc', messages', attachments', links', packages')
    BY <2>1, <2>7, <2>11 DEF Becomes
  <2>13. PersistenceTypeOK'
    BY <2>5, <2>7, <2>8, <1>t DEF PersistenceTypeOK, PipelineRest
  <2> QED BY <1>k, <2>1, <2>2, <2>7, <2>12, <2>13, PipelineFrame DEF PipelineRest
<1>5. CASE WritePackage(m)
  <2>1. PICK k, rest :
          /\ Becomes(m, k) /\ rest = proc[m].rcpts \ {NextRecipient(proc[m].rcpts)}
          /\ k = [proc[m] EXCEPT !.rcpts = rest,
                                 !.todo = IF rest = {} THEN {} ELSE AttachmentsOf(m),
                                 !.pc = IF rest = {} THEN "rewrite" ELSE "links"]
    BY <1>5, <1>k, WritePackageCall
  <2>2. proc[m].pc = "links"
    BY <1>5 DEF WritePackage, At
  <2>3. ProcShape(m, k) /\ Advances(proc[m], k)
    BY <2>1, <2>2, <1>k DEF ProcState, ProcShape, Advances, Unwritten
  <2>4. PICK p : p = <<m, NextRecipient(proc[m].rcpts)>>
    OBVIOUS
  <2>5. p \in Package /\ proc[m].expires \in Nat
    <3>1. proc[m].rcpts \in SUBSET Recipient /\ proc[m].rcpts # {} /\ proc[m].expires \in Nat
      BY <2>2, <1>k DEF ProcState, ProcShape
    <3> QED BY <3>1, <2>4, NextIsLeft DEF Package
  <2>6. PICK row : row = [status |-> "active", expires |-> proc[m].expires]
    OBVIOUS
  <2>7. /\ p[1] \in messages /\ packages' = [packages EXCEPT ![p] = row]
        /\ UNCHANGED <<messages, attachments, links, objects, leaked>>
    BY <1>5, <2>4, <2>6 DEF WritePackage, CreateMessageLink
  <2>8. row \in PackageRow
    BY <2>5, <2>6 DEF PackageRow
  <2>9. Rows([proc EXCEPT ![m] = k], messages, attachments, links, packages)
    BY <2>1, <2>3, <1>k, <1>t, RowsAdvance DEF Becomes
  <2>10. Rows([proc EXCEPT ![m] = k], messages, attachments, links, [packages EXCEPT ![p] = row])
    BY <2>5, <2>7, <2>9, <1>t, RowsPackage
  <2>11. Rows(proc', messages', attachments', links', packages')
    BY <2>1, <2>7, <2>10 DEF Becomes
  <2>12. PersistenceTypeOK'
    BY <2>5, <2>7, <2>8, <1>t DEF PersistenceTypeOK, PipelineRest
  <2> QED BY <1>k, <2>1, <2>2, <2>7, <2>11, <2>12, PipelineFrame DEF PipelineRest
<1> QED BY <1>1, <1>2, <1>3, <1>4, <1>5

(* The end of a call: an error, the delivery, the cleanup and its purge.    *)
LEMMA EndRows ==
  ASSUME RowInv, PipelineRest, NEW m \in Message,
         \/ ProcessFails(m)
         \/ Deliver(m)
         \/ \E a \in Attachment : RollbackObject(m, a)
         \/ \E a \in Attachment : RollbackObjectFails(m, a)
         \/ PurgeMessage(m)
         \/ PurgeSkipped(m)
  PROVE  RowInv'
<1>k. /\ TypeOK /\ proc \in [Message -> ProcState] /\ proc[m] \in ProcState
      /\ AttachmentsOf(m) \in SUBSET Attachment
      /\ leaked \in SUBSET Attachment /\ objects \in SUBSET Attachment
      /\ ProcShape(m, proc[m])
  BY CallKnown
<1>1. CASE ProcessFails(m)
  <2>1. PICK k : Becomes(m, k) /\ k = [proc[m] EXCEPT !.pc = "rollback"]
    BY <1>1, <1>k, ProcessFailsCall
  <2>2. proc[m].pc # "delivered"
    BY <1>1 DEF ProcessFails
  <2>3. ProcShape(m, k) /\ Advances(proc[m], k)
    BY <2>1, <2>2, <1>k DEF ProcState, ProcShape, Advances, Unwritten
  <2> QED BY <1>1, <2>1, <2>2, <2>3, <1>k, QuietCall DEF ProcessFails, PipelineRest
<1>2. CASE Deliver(m)
  <2>1. PICK k : Becomes(m, k) /\ k = [proc[m] EXCEPT !.pc = "delivered", !.done = {}]
    BY <1>2, <1>k, DeliverCall
  <2>2. proc[m].pc = "rewrite"
    BY <1>2 DEF Deliver, At
  <2>3. ProcShape(m, k) /\ Advances(proc[m], k)
    BY <2>1, <2>2, <1>k DEF ProcState, ProcShape, Advances, Unwritten
  <2> QED BY <1>2, <2>1, <2>2, <2>3, <1>k, QuietCall DEF Deliver, PipelineRest
<1>3. CASE \E a \in Attachment : RollbackObject(m, a)
  <2>0. PICK a \in Attachment : RollbackObject(m, a)
    BY <1>3
  <2>1. PICK k : Becomes(m, k) /\ k = [proc[m] EXCEPT !.done = @ \ {a}]
    BY <2>0, <1>k, RollbackObjectCall
  <2>2. proc[m].pc = "rollback"
    BY <2>0 DEF RollbackObject, At
  <2>3. ProcShape(m, k) /\ Advances(proc[m], k)
    BY <2>1, <2>2, <1>k DEF ProcState, ProcShape, Advances, Unwritten
  <2>4. objects' \in SUBSET Attachment /\ leaked' \in SUBSET Attachment
    BY <2>0, <1>k DEF RollbackObject
  <2> QED BY <2>0, <2>1, <2>2, <2>3, <2>4, QuietCall DEF RollbackObject, PipelineRest
<1>4. CASE \E a \in Attachment : RollbackObjectFails(m, a)
  <2>0. PICK a \in Attachment : RollbackObjectFails(m, a)
    BY <1>4
  <2>1. PICK k : Becomes(m, k) /\ k = [proc[m] EXCEPT !.done = @ \ {a}]
    BY <2>0, <1>k, RollbackObjectFailsCall
  <2>2. proc[m].pc = "rollback"
    BY <2>0 DEF RollbackObjectFails, At
  <2>3. ProcShape(m, k) /\ Advances(proc[m], k)
    BY <2>1, <2>2, <1>k DEF ProcState, ProcShape, Advances, Unwritten
  <2>4. objects' \in SUBSET Attachment /\ leaked' \in SUBSET Attachment
    BY <2>0, <1>k DEF RollbackObjectFails
  <2> QED BY <2>0, <2>1, <2>2, <2>3, <2>4, QuietCall DEF RollbackObjectFails, PipelineRest
<1>5. CASE PurgeMessage(m)
  <2>1. PICK k : Becomes(m, k) /\ k = [proc[m] EXCEPT !.pc = "failed"]
    BY <1>5, <1>k, PurgeMessageCall
  <2>2. proc[m].pc = "rollback"
    BY <1>5 DEF PurgeMessage, At
  <2>3. ProcShape(m, k) /\ Advances(proc[m], k)
    BY <2>1, <2>2, <1>k DEF ProcState, ProcShape, Advances, Unwritten
  <2>t. /\ now \in Nat /\ messages \in SUBSET Message /\ attachments \in [Attachment -> Nat]
        /\ links \in [Link -> LinkRow] /\ packages \in [Package -> PackageRow]
        /\ Rows(proc, messages, attachments, links, packages)
    BY TablesKnown
  <2>4. Rows([proc EXCEPT ![m] = k], messages, attachments, links, packages)
    BY <2>1, <2>3, <2>t, <1>k, RowsAdvance DEF Becomes
  <2>5. /\ messages' = messages \ {m}
        /\ attachments' = [a \in Attachment |-> IF MessageOf[a] = m THEN NoRow ELSE attachments[a]]
        /\ links' = [l \in Link |-> IF MessageOf[l[1]] = m THEN NoLink ELSE links[l]]
        /\ packages' = [p \in Package |-> IF p[1] = m THEN NoPackage ELSE packages[p]]
        /\ UNCHANGED <<objects, leaked>>
    BY <1>5 DEF PurgeMessage, DeleteMessage
  <2>6. Rows([proc EXCEPT ![m] = k], messages', attachments', links', packages')
    BY <2>4, <2>5, RowsDropMessage
  <2>7. Rows(proc', messages', attachments', links', packages')
    BY <2>1, <2>6 DEF Becomes
  <2>8. links' \in [Link -> LinkRow]
    BY <2>5, <2>t DEF LinkRow, LinkStatus, NoLink
  <2>9. packages' \in [Package -> PackageRow]
    BY <2>5, <2>t DEF PackageRow, NoPackage
  <2>10. attachments' \in [Attachment -> Nat]
    BY <2>5, <2>t DEF NoRow
  <2>11. PersistenceTypeOK'
    BY <2>5, <2>8, <2>9, <2>10, <2>t, <1>k DEF PersistenceTypeOK, PipelineRest
  <2> QED BY <1>k, <2>1, <2>2, <2>5, <2>7, <2>11, PipelineFrame DEF PipelineRest
<1>6. CASE PurgeSkipped(m)
  <2>1. PICK k : Becomes(m, k) /\ k = [proc[m] EXCEPT !.pc = "failed"]
    BY <1>6, <1>k, PurgeSkippedCall
  <2>2. proc[m].pc = "rollback"
    BY <1>6 DEF PurgeSkipped, At
  <2>3. ProcShape(m, k) /\ Advances(proc[m], k)
    BY <2>1, <2>2, <1>k DEF ProcState, ProcShape, Advances, Unwritten
  <2> QED BY <1>6, <2>1, <2>2, <2>3, <1>k, QuietCall DEF PurgeSkipped, PipelineRest
<1> QED BY <1>1, <1>2, <1>3, <1>4, <1>5, <1>6

(* Every step of every Process call.                                        *)
LEMMA PipelineRows ==
  ASSUME RowInv, PipelineSteps, Observe
  PROVE  RowInv'
<1>1. PipelineRest
  BY DEF PipelineSteps, PipelineRest
<1> QED BY <1>1, UploadRows, WriteRows, EndRows DEF PipelineSteps, PipelineNext

(* The tables stay, in type and in fit, where nothing writes them ...       *)
LEMMA TablesStay ==
  ASSUME RowInv, UNCHANGED dbVars, UNCHANGED now, UNCHANGED proc, objects' \in SUBSET Attachment
  PROVE  PersistenceTypeOK' /\ Rows(proc', messages', attachments', links', packages')
BY TablesKnown DEF dbVars, PersistenceTypeOK

(* ... where a link or a package changes its status, a link its hold or its *)
(* counter ...                                                              *)
LEMMA TablesEdited ==
  ASSUME RowInv, UNCHANGED <<now, proc, messages, attachments>>, objects' \in SUBSET Attachment,
         links' \in [Link -> LinkRow], packages' \in [Package -> PackageRow],
         \A l \in Link : /\ links'[l].status = "none" <=> links[l].status = "none"
                         /\ links'[l].expires = links[l].expires,
         \A p \in Package : packages'[p].status = "none" <=> packages[p].status = "none"
  PROVE  PersistenceTypeOK' /\ Rows(proc', messages', attachments', links', packages')
<1>1. Rows(proc, messages, attachments, links', packages')
  BY TablesKnown, RowsKept
<1> QED BY <1>1, TablesKnown DEF PersistenceTypeOK

(* ... where stale links expire ...                                         *)
LEMMA TablesExpire ==
  ASSUME RowInv, NEW at, ExpireStaleLinks(at), UNCHANGED <<now, proc, objects>>
  PROVE  PersistenceTypeOK' /\ Rows(proc', messages', attachments', links', packages')
<1>0. links \in [Link -> LinkRow] /\ packages \in [Package -> PackageRow] /\ objects \in SUBSET Attachment
  BY TablesKnown
<1>1. \A l \in Link : links'[l] = IF links[l].status = "active" /\ links[l].expires < at
                                    THEN [links[l] EXCEPT !.status = "expired"] ELSE links[l]
  BY DEF ExpireStaleLinks
<1>2. ASSUME NEW l \in Link
      PROVE  /\ links'[l] \in LinkRow
             /\ links'[l].status = "none" <=> links[l].status = "none"
             /\ links'[l].expires = links[l].expires
  BY <1>0, <1>1 DEF LinkRow, LinkStatus
<1>3. links' \in [Link -> LinkRow]
  BY <1>2 DEF ExpireStaleLinks
<1> QED BY <1>0, <1>2, <1>3, TablesEdited DEF ExpireStaleLinks

(* ... and where an attachment is deleted with its links.                   *)
LEMMA TablesDrop ==
  ASSUME RowInv, NEW a \in Attachment, DeleteAttachment(a), UNCHANGED <<now, proc, objects>>
  PROVE  PersistenceTypeOK' /\ Rows(proc', messages', attachments', links', packages')
<1>1. /\ links' = [l \in Link |-> IF l[1] = a THEN NoLink ELSE links[l]]
      /\ attachments' = [attachments EXCEPT ![a] = NoRow]
      /\ UNCHANGED <<messages, packages>>
  BY DEF DeleteAttachment
<1>2. links' \in [Link -> LinkRow] /\ attachments' \in [Attachment -> Nat]
  BY <1>1, TablesKnown DEF LinkRow, LinkStatus, NoLink, NoRow
<1>3. Rows(proc, messages, attachments', links', packages)
  BY <1>1, TablesKnown, RowsDropAttachment
<1> QED BY <1>1, <1>2, <1>3, TablesKnown DEF PersistenceTypeOK

-----------------------------------------------------------------------------
(* The sweeper's own state.                                                *)

(* What a chunk is taken from: attachments past the cutoff and not held.    *)
LEMMA ChunkKnown ==
  ASSUME RowInv, NEW at \in Nat, NEW s \in Chunk(ExpiredAttachments(at))
  PROVE  s \in SUBSET Attachment /\ \A a \in s : AttachmentExists(a) /\ attachments[a] < at
BY DEF Chunk, ExpiredAttachments

(* Whatever a pass of the sweeper does, lists or gives up, its state stays  *)
(* one it can be in.                                                        *)
LEMMA SweepType ==
  ASSUME RowInv, SweepStep \/ SweepListFails \/ SweepCancelled
  PROVE  RetentionTypeOK'
<1>0. sweep \in SweepState /\ now \in Nat
  BY TablesKnown DEF RowInv, TypeOK, RetentionTypeOK
<1>i. SweepIdle \in SweepState
  BY DEF SweepIdle, SweepState
<1>1. CASE \E expire \in BOOLEAN : SweepStart(expire)
  BY <1>0, <1>1 DEF SweepStart, SweepIdle, SweepState, RetentionTypeOK
<1>2. CASE SweepList
  <2>1. PICK s \in Chunk(ExpiredAttachments(sweep.at)) :
          sweep' = IF s = {} THEN [sweep EXCEPT !.pc = "audit"]
                   ELSE [sweep EXCEPT !.pc = "purge", !.batch = s,
                                      !.full = Cardinality(s) = ChunkSize]
    BY <1>2 DEF SweepList
  <2>2. s \in SUBSET Attachment
    BY <1>0, ChunkKnown DEF SweepState
  <2>3. PICK full \in BOOLEAN : full = (Cardinality(s) = ChunkSize)
    OBVIOUS
  <2>4. sweep' = [sweep EXCEPT !.pc = "audit"]
          \/ sweep' = [sweep EXCEPT !.pc = "purge", !.batch = s, !.full = full]
    BY <2>1, <2>3
  <2> QED BY <1>0, <2>2, <2>4 DEF SweepState, RetentionTypeOK
<1>3. CASE \E a \in Attachment : PurgeCheck(a)
  <2>1. PICK a \in Attachment : PurgeCheck(a)
    BY <1>3
  <2>2. \/ sweep' = [sweep EXCEPT !.pc = "object", !.cur = {a}, !.batch = @ \ {a}]
        \/ sweep' = [sweep EXCEPT !.batch = @ \ {a}]
    BY <2>1 DEF PurgeCheck
  <2>3. sweep.batch \ {a} \in SUBSET Attachment /\ {a} \in SUBSET Attachment
    BY <1>0 DEF SweepState
  <2>4. PICK rest : rest = sweep.batch \ {a}
    OBVIOUS
  <2>5. \/ sweep' = [sweep EXCEPT !.pc = "object", !.cur = {a}, !.batch = rest]
        \/ sweep' = [sweep EXCEPT !.batch = rest]
    BY <2>2, <2>4
  <2> QED BY <1>0, <2>3, <2>4, <2>5 DEF SweepState, RetentionTypeOK
<1>4. CASE \E a \in Attachment : PurgeCheckFails(a)
  BY <1>0, <1>4 DEF PurgeCheckFails, SweepState, RetentionTypeOK
<1>5. CASE \E a \in Attachment : PurgeObject(a) \/ PurgeObjectFails(a)
  BY <1>0, <1>5 DEF PurgeObject, PurgeObjectFails, SweepState, RetentionTypeOK
<1>6. CASE \E a \in Attachment : PurgeRows(a) \/ PurgeRowsRefused(a)
  BY <1>0, <1>6 DEF PurgeRows, PurgeRowsRefused, SweepState, RetentionTypeOK
<1>7. CASE SweepChunkDone
  BY <1>0, <1>7 DEF SweepChunkDone, SweepState, RetentionTypeOK
<1>8. CASE SweepAudit \/ SweepListFails \/ SweepCancelled
  BY <1>i, <1>8 DEF SweepAudit, SweepListFails, SweepCancelled, RetentionTypeOK
<1> QED BY <1>1, <1>2, <1>3, <1>4, <1>5, <1>6, <1>7, <1>8 DEF SweepStep

(* What a sweeper step does to the tables and to the storage.               *)
LEMMA SweepEffect ==
  ASSUME SweepStep \/ SweepListFails \/ (SweepCancelled /\ UNCHANGED <<dbVars, objects>>)
  PROVE  \/ UNCHANGED <<dbVars, objects>>
         \/ UNCHANGED dbVars /\ \E a \in Attachment : PurgeObject(a)
         \/ UNCHANGED objects /\ ExpireStaleLinks(now)
         \/ UNCHANGED objects /\ \E a \in Attachment : PurgeRows(a)
BY DEF SweepStep, SweepListFails, SweepStart, SweepList, PurgeCheck, PurgeCheckFails, PurgeObject,
       PurgeObjectFails, PurgeRows, PurgeRowsRefused, SweepChunkDone, SweepAudit

(* Every step of the sweeper.                                               *)
LEMMA SweepRows ==
  ASSUME RowInv, SweepSteps, Observe
  PROVE  RowInv'
<1>0. /\ SweepStep \/ SweepListFails \/ (SweepCancelled /\ UNCHANGED <<dbVars, objects>>)
      /\ UNCHANGED <<now, pipelineVars, engineVars, crashes>>
  BY DEF SweepSteps
<1>1. RetentionTypeOK'
  BY <1>0, SweepType
<1>2. PersistenceTypeOK' /\ Rows(proc', messages', attachments', links', packages')
  <2>1. UNCHANGED now /\ UNCHANGED proc
    BY <1>0 DEF pipelineVars
  <2>2. CASE UNCHANGED <<dbVars, objects>>
    BY <2>1, <2>2, TablesStay, TablesKnown
  <2>3. CASE UNCHANGED dbVars /\ \E a \in Attachment : PurgeObject(a)
    <3>1. objects' \in SUBSET Attachment
      BY <2>3, TablesKnown DEF PurgeObject
    <3> QED BY <2>1, <2>3, <3>1, TablesStay
  <2>4. CASE UNCHANGED objects /\ ExpireStaleLinks(now)
    BY <2>1, <2>4, TablesExpire
  <2>5. CASE UNCHANGED objects /\ \E a \in Attachment : PurgeRows(a)
    BY <2>1, <2>5, TablesDrop DEF PurgeRows
  <2> QED BY <1>0, <2>2, <2>3, <2>4, <2>5, SweepEffect
<1>3. PipelineTypeOK' /\ EngineTypeOK' /\ crashes' \in Nat
  BY <1>0 DEF RowInv, TypeOK, PipelineTypeOK, EngineTypeOK, pipelineVars, engineVars
<1>4. Requests'
  BY <1>0 DEF RowInv, Requests, pipelineVars, engineVars
<1> QED BY <1>1, <1>2, <1>3, <1>4, TypeParts DEF RowInv

-----------------------------------------------------------------------------
(* Downloads and operators.                                                *)

(* What TypeOK says of the requests and of their histories.                 *)
LEMMA RequestsKnown ==
  ASSUME RowInv
  PROVE  /\ dl \in [Downloader -> DownloadState] /\ op \in [Operator -> OperatorState]
         /\ granted \in [Link -> Nat] /\ served \in [Link -> Nat]
         /\ cut \in SUBSET (Link \cup Package)
         /\ \A o \in Operator : OperatorFits(op[o])
         /\ \A d \in Downloader : DownloadFits(dl[d], proc)
         /\ crashes \in Nat
BY DEF RowInv, TypeOK, EngineTypeOK, Requests

(* A download step replaces one request by k.                               *)
LEMMA DownloadFrame ==
  ASSUME RowInv, NEW d \in Downloader, NEW k \in DownloadState, dl' = [dl EXCEPT ![d] = k],
         DownloadFits(k, proc), granted' \in [Link -> Nat], served' \in [Link -> Nat],
         PersistenceTypeOK', Rows(proc', messages', attachments', links', packages'),
         UNCHANGED <<pipelineVars, sweep, opVars, crashes>>, Observe
  PROVE  RowInv'
<1>1. EngineTypeOK'
  BY RequestsKnown DEF EngineTypeOK, opVars
<1>2. PipelineTypeOK' /\ RetentionTypeOK' /\ crashes' \in Nat
  BY DEF RowInv, TypeOK, PipelineTypeOK, RetentionTypeOK, pipelineVars
<1>3. Requests'
  <2>1. proc' = proc /\ op' = op
    BY DEF pipelineVars, opVars
  <2>2. \A e \in Downloader : DownloadFits(dl'[e], proc')
    BY <2>1, RequestsKnown
  <2> QED BY <2>1, <2>2, RequestsKnown DEF Requests
<1> QED BY <1>1, <1>2, <1>3, TypeParts DEF RowInv

(* A request ends.                                                          *)
LEMMA IdleFits == DownloadIdle \in DownloadState /\ DownloadFits(DownloadIdle, proc)
BY DEF DownloadIdle, DownloadState, DownloadFits

(* A request goes on to its next call with the same arguments.              *)
LEMMA GotoFits ==
  ASSUME RowInv, NEW d \in Downloader, NEW pc \in {"reload", "attachment", "object"},
         dl[d].pc \in {"register", "reload", "attachment"}, Goto(d, pc)
  PROVE  \E k \in DownloadState : dl' = [dl EXCEPT ![d] = k] /\ DownloadFits(k, proc)
                                    /\ k = [dl[d] EXCEPT !.pc = pc]
<1>1. dl \in [Downloader -> DownloadState] /\ dl[d] \in DownloadState /\ DownloadFits(dl[d], proc)
  BY RequestsKnown
<1>2. PICK k : k = [dl[d] EXCEPT !.pc = pc]
  OBVIOUS
<1>3. k \in DownloadState /\ DownloadFits(k, proc)
  BY <1>1, <1>2 DEF DownloadState, DownloadFits
<1>4. dl' = [dl EXCEPT ![d] = k]
  BY <1>1, <1>2 DEF Goto
<1> QED BY <1>2, <1>3, <1>4

(* The charge: RegisterDownloadByID and the request that goes on to reload. *)
LEMMA ChargeRow ==
  ASSUME RowInv, NEW l \in Link, NEW at, RegisterDownloadByID(l, at), UNCHANGED <<now, proc, objects>>
  PROVE  PersistenceTypeOK' /\ Rows(proc', messages', attachments', links', packages')
<1>0. links \in [Link -> LinkRow] /\ links[l] \in LinkRow
  BY TablesKnown
<1>1. links' = [links EXCEPT ![l].downloads = @ + 1]
  BY DEF RegisterDownloadByID
<1>2. PICK row : row = [links[l] EXCEPT !.downloads = @ + 1]
  OBVIOUS
<1>3. row \in LinkRow /\ row.status = links[l].status /\ row.expires = links[l].expires
  BY <1>0, <1>2 DEF LinkRow
<1>4. links' = [links EXCEPT ![l] = row]
  BY <1>0, <1>1, <1>2
<1> QED BY <1>0, <1>3, <1>4, TablesKnown, TablesEdited DEF RegisterDownloadByID

(* Every step of every download.                                            *)
LEMMA DownloadRows ==
  ASSUME RowInv, DownloadSteps, Observe
  PROVE  RowInv'
<1>0. PICK d \in Downloader : DownloadStep(d) \/ \E p \in Published, l \in Link : ResolvePackage(d, p, l)
  BY DEF DownloadSteps
<1>1. UNCHANGED <<now, pipelineVars, sweep, opVars, crashes>> /\ UNCHANGED proc
  BY DEF DownloadSteps, pipelineVars
<1>k. /\ dl \in [Downloader -> DownloadState] /\ dl[d] \in DownloadState
      /\ granted \in [Link -> Nat] /\ served \in [Link -> Nat]
      /\ DownloadFits(dl[d], proc) /\ now \in Nat
  BY RequestsKnown, TablesKnown
<1>2. ASSUME NEW k \in DownloadState, dl' = [dl EXCEPT ![d] = k], DownloadFits(k, proc),
             UNCHANGED <<dbVars, objects, granted>>, served' \in [Link -> Nat]
      PROVE  RowInv'
  <2>1. PersistenceTypeOK' /\ Rows(proc', messages', attachments', links', packages')
    BY <1>1, <1>2, TablesStay, TablesKnown
  <2> QED BY <1>1, <1>2, <1>k, <2>1, DownloadFrame
<1>3. CASE \E p \in Published, l \in Link : ResolvePackage(d, p, l)
  <2>1. PICK p \in Published, l \in Link : ResolvePackage(d, p, l)
    BY <1>3
  <2>2. PICK k : k = [DownloadIdle EXCEPT !.pc = "lookup", !.pkg = p, !.link = l]
    OBVIOUS
  <2>3. k \in DownloadState /\ DownloadFits(k, proc)
    BY <2>2 DEF DownloadIdle, DownloadState, DownloadFits, Published
  <2> QED BY <2>1, <2>2, <2>3, <1>k, <1>2 DEF ResolvePackage
<1>4. CASE Lookup(d)
  <2>1. CASE Member(dl[d].pkg, dl[d].link)
    <3>1. PICK k : k = [dl[d] EXCEPT !.pc = "register", !.at = now]
      OBVIOUS
    <3>2. k \in DownloadState /\ DownloadFits(k, proc)
      BY <3>1, <1>k, <1>4, <2>1 DEF DownloadState, DownloadFits, Member, Lookup
    <3>3. dl' = [dl EXCEPT ![d] = k]
      BY <3>1, <1>k, <1>4, <2>1 DEF Lookup
    <3> QED BY <3>2, <3>3, <1>4, <1>k, <1>2 DEF Lookup
  <2>2. CASE ~Member(dl[d].pkg, dl[d].link)
    BY <2>2, <1>4, <1>k, <1>2, IdleFits DEF Lookup, Denied
  <2> QED BY <2>1, <2>2
<1>5. CASE Register(d)
  <2>1. PICK l : l = dl[d].link
    OBVIOUS
  <2>2. /\ dl[d].pc = "register" /\ RegisterDownloadByID(l, dl[d].at) /\ Goto(d, "reload")
        /\ granted' = [granted EXCEPT ![l] = @ + 1] /\ UNCHANGED <<objects, served>>
    BY <1>5, <2>1 DEF Register
  <2>3. l \in Link
    BY <2>1, <2>2, <1>k DEF DownloadFits
  <2>4. PersistenceTypeOK' /\ Rows(proc', messages', attachments', links', packages')
    BY <1>1, <2>2, <2>3, ChargeRow
  <2>5. PICK k \in DownloadState : dl' = [dl EXCEPT ![d] = k] /\ DownloadFits(k, proc)
    BY <2>2, GotoFits
  <2>6. granted' \in [Link -> Nat] /\ served' \in [Link -> Nat]
    BY <2>2, <2>3, <1>k
  <2> QED BY <1>1, <2>4, <2>5, <2>6, DownloadFrame
<1>6. CASE RegisterRefused(d) \/ DownloadAborted(d)
  BY <1>6, <1>k, <1>2, IdleFits DEF RegisterRefused, DownloadAborted, Denied
<1>7. CASE Reload(d) \/ GetAttachment(d)
  <2>1. UNCHANGED <<dbVars, objects, granted, served>> /\ dl[d].pc \in {"register", "reload", "attachment"}
    BY <1>7 DEF Reload, GetAttachment
  <2>2. Denied(d) \/ Goto(d, "attachment") \/ Goto(d, "object")
    BY <1>7 DEF Reload, GetAttachment
  <2>3. CASE Denied(d)
    BY <2>1, <2>3, <1>k, <1>2, IdleFits DEF Denied
  <2>4. CASE Goto(d, "attachment") \/ Goto(d, "object")
    <3>1. PICK k \in DownloadState : dl' = [dl EXCEPT ![d] = k] /\ DownloadFits(k, proc)
      BY <2>1, <2>4, GotoFits
    <3> QED BY <2>1, <3>1, <1>k, <1>2
  <2> QED BY <2>2, <2>3, <2>4
<1>8. CASE GetObject(d)
  <2>1. PICK l : l = dl[d].link
    OBVIOUS
  <2>2. l \in Link
    BY <2>1, <1>8, <1>k DEF DownloadFits, GetObject
  <2>3. served' = served \/ served' = [served EXCEPT ![l] = @ + 1]
    BY <2>1, <1>8 DEF GetObject
  <2>4. served' \in [Link -> Nat]
    BY <2>2, <2>3, <1>k
  <2> QED BY <1>8, <2>4, <1>k, <1>2, IdleFits DEF GetObject, Denied
<1> QED BY <1>0, <1>3, <1>4, <1>5, <1>6, <1>7, <1>8 DEF DownloadStep

(* An operator step replaces one request by k.                              *)
LEMMA OperatorFrame ==
  ASSUME RowInv, NEW o \in Operator, NEW k \in OperatorState, op' = [op EXCEPT ![o] = k],
         OperatorFits(k), cut' \in SUBSET (Link \cup Package),
         PersistenceTypeOK', Rows(proc', messages', attachments', links', packages'),
         UNCHANGED <<pipelineVars, sweep, dlVars, crashes>>, Observe
  PROVE  RowInv'
<1>1. EngineTypeOK'
  BY RequestsKnown DEF EngineTypeOK, dlVars
<1>2. PipelineTypeOK' /\ RetentionTypeOK' /\ crashes' \in Nat
  BY DEF RowInv, TypeOK, PipelineTypeOK, RetentionTypeOK, pipelineVars
<1>3. Requests'
  <2>1. proc' = proc /\ dl' = dl
    BY DEF pipelineVars, dlVars
  <2>2. \A e \in Operator : OperatorFits(op'[e])
    BY RequestsKnown
  <2> QED BY <2>1, <2>2, RequestsKnown DEF Requests
<1> QED BY <1>1, <1>2, <1>3, TypeParts DEF RowInv

(* An operator with no request open satisfies its part of the invariant.    *)
LEMMA OperatorIdleFits == OperatorIdle \in OperatorState /\ OperatorFits(OperatorIdle)
BY DEF OperatorIdle, OperatorState, OperatorFits

(* One link changes its status or its hold.                                 *)
LEMMA LinkRowEdit ==
  ASSUME RowInv, NEW l \in Link, LinkExists(l), UNCHANGED <<now, proc, objects>>,
         RevokeLink(l) \/ \E hold \in BOOLEAN : SetHoldRow(l, hold)
  PROVE  PersistenceTypeOK' /\ Rows(proc', messages', attachments', links', packages')
<1>0. links \in [Link -> LinkRow] /\ links[l] \in LinkRow
  BY TablesKnown
<1>1. PICK row : /\ links' = [links EXCEPT ![l] = row]
                 /\ \/ row = [links[l] EXCEPT !.status = "revoked"]
                    \/ \E hold \in BOOLEAN : row = [links[l] EXCEPT !.hold = hold]
  <2>1. CASE RevokeLink(l)
    <3>1. PICK row : row = [links[l] EXCEPT !.status = "revoked"]
      OBVIOUS
    <3> QED BY <1>0, <2>1, <3>1 DEF RevokeLink
  <2>2. CASE \E hold \in BOOLEAN : SetHoldRow(l, hold)
    <3>1. PICK hold \in BOOLEAN : SetHoldRow(l, hold)
      BY <2>2
    <3>2. PICK row : row = [links[l] EXCEPT !.hold = hold]
      OBVIOUS
    <3> QED BY <1>0, <3>1, <3>2 DEF SetHoldRow
  <2> QED BY <2>1, <2>2
<1>2. /\ row \in LinkRow /\ row.expires = links[l].expires
      /\ row.status = "none" <=> links[l].status = "none"
  BY <1>0, <1>1 DEF LinkRow, LinkStatus, LinkExists
<1>3. UNCHANGED <<messages, attachments, packages>>
  BY DEF RevokeLink, SetHoldRow
<1> QED BY <1>0, <1>1, <1>2, <1>3, TablesKnown, TablesEdited

(* The cascade revokes every link of the message that is not held, and its  *)
(* package pages.                                                           *)
LEMMA CascadeRows ==
  ASSUME RowInv, NEW m \in Message, RevokeLinksByMessage(m), UNCHANGED <<now, proc, objects>>
  PROVE  PersistenceTypeOK' /\ Rows(proc', messages', attachments', links', packages')
<1>0. links \in [Link -> LinkRow] /\ packages \in [Package -> PackageRow] /\ objects \in SUBSET Attachment
  BY TablesKnown
<1>1. ASSUME NEW l \in Link
      PROVE  /\ links'[l] \in LinkRow /\ links'[l].expires = links[l].expires
             /\ links'[l].status = "none" <=> links[l].status = "none"
  <2>1. links'[l] = IF MessageOf[l[1]] = m /\ LinkExists(l) /\ ~links[l].hold
                      THEN [links[l] EXCEPT !.status = "revoked"] ELSE links[l]
    BY DEF RevokeLinksByMessage
  <2> QED BY <1>0, <2>1 DEF LinkRow, LinkStatus, LinkExists
<1>2. ASSUME NEW p \in Package
      PROVE  /\ packages'[p] \in PackageRow
             /\ packages'[p].status = "none" <=> packages[p].status = "none"
  <2>1. packages'[p] = IF p[1] = m /\ packages[p].status # "none"
                         THEN [packages[p] EXCEPT !.status = "revoked"] ELSE packages[p]
    BY DEF RevokeLinksByMessage
  <2> QED BY <1>0, <2>1 DEF PackageRow
<1>3. links' \in [Link -> LinkRow] /\ packages' \in [Package -> PackageRow]
  BY <1>1, <1>2 DEF RevokeLinksByMessage
<1> QED BY <1>0, <1>1, <1>2, <1>3, TablesEdited DEF RevokeLinksByMessage

(* Every step of every operator.                                            *)
LEMMA OperatorRows ==
  ASSUME RowInv, OperatorSteps, Observe
  PROVE  RowInv'
<1>0. PICK o \in Operator : OperatorStep(o)
  BY DEF OperatorSteps
<1>1. UNCHANGED <<now, pipelineVars, sweep, dlVars, crashes>> /\ UNCHANGED proc
  BY DEF OperatorSteps, pipelineVars
<1>k. /\ op \in [Operator -> OperatorState] /\ op[o] \in OperatorState /\ OperatorFits(op[o])
      /\ cut \in SUBSET (Link \cup Package)
  BY RequestsKnown
<1>2. ASSUME NEW k \in OperatorState, op' = [op EXCEPT ![o] = k], OperatorFits(k),
             UNCHANGED <<dbVars, objects, cut>>
      PROVE  RowInv'
  <2>1. PersistenceTypeOK' /\ Rows(proc', messages', attachments', links', packages')
    BY <1>1, <1>2, TablesStay, TablesKnown
  <2> QED BY <1>1, <1>2, <1>k, <2>1, OperatorFrame
<1>3. CASE \E l \in Link : RevokeRead(o, l)
  <2>1. PICK l \in Link : RevokeRead(o, l)
    BY <1>3
  <2>2. PICK k : k = [OperatorIdle EXCEPT !.pc = "revoke", !.link = l]
    OBVIOUS
  <2>3. k \in OperatorState /\ OperatorFits(k)
    BY <2>2 DEF OperatorIdle, OperatorState, OperatorFits
  <2> QED BY <2>1, <2>2, <2>3, <1>2 DEF RevokeRead
<1>4. CASE RevokeWrite(o)
  <2>1. CASE LinkExists(op[o].link)
    <3>1. op[o].link \in Link
      BY <1>4, <1>k DEF RevokeWrite, OperatorFits
    <3>2. PersistenceTypeOK' /\ Rows(proc', messages', attachments', links', packages')
      BY <1>1, <1>4, <2>1, <3>1, LinkRowEdit DEF RevokeWrite
    <3>3. cut' \in SUBSET (Link \cup Package)
      BY <1>4, <1>k, <2>1, <3>1 DEF RevokeWrite
    <3> QED BY <1>1, <1>4, <3>2, <3>3, OperatorIdleFits, OperatorFrame DEF RevokeWrite
  <2>2. CASE ~LinkExists(op[o].link)
    BY <1>4, <2>2, <1>2, OperatorIdleFits DEF RevokeWrite
  <2> QED BY <2>1, <2>2
<1>5. CASE \E l \in Link, hold \in BOOLEAN : SetHoldRead(o, l, hold)
  <2>1. PICK l \in Link, hold \in BOOLEAN : SetHoldRead(o, l, hold)
    BY <1>5
  <2>2. PICK k : k = [OperatorIdle EXCEPT !.pc = "hold", !.link = l, !.hold = hold]
    OBVIOUS
  <2>3. k \in OperatorState /\ OperatorFits(k)
    BY <2>2 DEF OperatorIdle, OperatorState, OperatorFits
  <2> QED BY <2>1, <2>2, <2>3, <1>2 DEF SetHoldRead
<1>6. CASE SetHoldWrite(o)
  <2>1. CASE LinkExists(op[o].link)
    <3>1. op[o].link \in Link /\ op[o].hold \in BOOLEAN
      BY <1>6, <1>k DEF SetHoldWrite, OperatorFits, OperatorState
    <3>2. PersistenceTypeOK' /\ Rows(proc', messages', attachments', links', packages')
      BY <1>1, <1>6, <2>1, <3>1, LinkRowEdit DEF SetHoldWrite
    <3> QED BY <1>1, <1>6, <1>k, <3>2, OperatorIdleFits, OperatorFrame DEF SetHoldWrite
  <2>2. CASE ~LinkExists(op[o].link)
    BY <1>6, <2>2, <1>2, OperatorIdleFits DEF SetHoldWrite
  <2> QED BY <2>1, <2>2
<1>7. CASE \E ms \in SUBSET Message : RevokeMessages(o, ms)
  <2>1. PICK ms \in SUBSET Message : RevokeMessages(o, ms)
    BY <1>7
  <2>2. PICK k : k = [OperatorIdle EXCEPT !.pc = "list", !.todo = ms]
    OBVIOUS
  <2>3. k \in OperatorState /\ OperatorFits(k)
    BY <2>2 DEF OperatorIdle, OperatorState, OperatorFits
  <2> QED BY <2>1, <2>2, <2>3, <1>2 DEF RevokeMessages
<1>8. CASE \E m \in Message : RevokeList(o, m)
  <2>1. PICK m \in Message : RevokeList(o, m)
    BY <1>8
  <2>2. PICK held : held = {l \in LinksOf(m) : links[l].status = "active" /\ links[l].hold}
    OBVIOUS
  <2>3. held \in SUBSET Link
    BY <2>2 DEF LinksOf
  <2>4. PICK k : k = [op[o] EXCEPT !.pc = "cascade", !.msg = m, !.todo = @ \ {m}, !.skipped = held]
    OBVIOUS
  <2>5. k \in OperatorState /\ OperatorFits(k)
    BY <1>k, <2>3, <2>4 DEF OperatorState, OperatorFits
  <2>6. op' = [op EXCEPT ![o] = k]
    BY <1>k, <2>1, <2>2, <2>4 DEF RevokeList
  <2> QED BY <2>1, <2>5, <2>6, <1>2 DEF RevokeList
<1>9. CASE RevokeCascade(o)
  <2>1. PICK m : m = op[o].msg
    OBVIOUS
  <2>2. m \in Message
    BY <2>1, <1>9, <1>k DEF RevokeCascade, OperatorFits
  <2>3. RevokeLinksByMessage(m) /\ UNCHANGED objects
    BY <2>1, <1>9 DEF RevokeCascade
  <2>4. PersistenceTypeOK' /\ Rows(proc', messages', attachments', links', packages')
    BY <1>1, <2>2, <2>3, CascadeRows
  <2>5. PICK err \in BOOLEAN : err = (op[o].errHeld \/ op[o].skipped # {})
    BY <1>k DEF OperatorState
  <2>6. PICK k : k = [op[o] EXCEPT !.pc = "list", !.msg = <<>>, !.skipped = {}, !.errHeld = err]
    OBVIOUS
  <2>7. k \in OperatorState /\ OperatorFits(k)
    BY <1>k, <2>6 DEF OperatorState, OperatorFits
  <2>8. op' = [op EXCEPT ![o] = k]
    BY <1>k, <1>9, <2>5, <2>6 DEF RevokeCascade
  <2>9. cut' \in SUBSET (Link \cup Package)
    <3>1. cut' = cut \cup {l \in LinksOf(m) : LinkExists(l) /\ ~links[l].hold}
                     \cup {p \in Package : p[1] = m /\ packages[p].status # "none"}
      BY <2>1, <1>9 DEF RevokeCascade
    <3> QED BY <1>k, <3>1 DEF LinksOf
  <2> QED BY <1>1, <2>4, <2>7, <2>8, <2>9, OperatorFrame
<1>10. CASE RevokeReturn(o) \/ OperatorAborted(o)
  BY <1>10, <1>2, OperatorIdleFits DEF RevokeReturn, OperatorAborted
<1> QED BY <1>0, <1>3, <1>4, <1>5, <1>6, <1>7, <1>8, <1>9, <1>10 DEF OperatorStep

-----------------------------------------------------------------------------
(* The clock, a crash, and the first layer's theorem.                      *)

(* Nothing but the clock moves.                                             *)
LEMMA TickRows ==
  ASSUME RowInv, Tick, Observe
  PROVE  RowInv'
<1>1. PersistenceTypeOK' /\ Rows(proc', messages', attachments', links', packages')
  BY TablesKnown DEF Tick, PersistenceTypeOK, dbVars, pipelineVars
<1>2. PipelineTypeOK' /\ RetentionTypeOK' /\ EngineTypeOK' /\ crashes' \in Nat
  BY DEF RowInv, TypeOK, Tick, PipelineTypeOK, RetentionTypeOK, EngineTypeOK, pipelineVars, engineVars
<1>3. Requests'
  BY DEF RowInv, Requests, Tick, pipelineVars, engineVars
<1> QED BY <1>1, <1>2, <1>3, TypeParts DEF RowInv

(* What a crash makes of one call: in flight it is gone for good, else it   *)
(* stays as it ended.                                                       *)
Crashed(j) == IF j.pc \in InFlight THEN [j EXCEPT !.pc = "crashed", !.done = {}] ELSE j

(* A crash leaves a call that had ended as it was, and one in flight        *)
(* crashed for good.                                                        *)
LEMMA CrashedCall ==
  ASSUME NEW m \in Message, NEW j \in ProcState, ProcShape(m, j)
  PROVE  /\ Crashed(j) \in ProcState /\ ProcShape(m, Crashed(j)) /\ Advances(j, Crashed(j))
         /\ j.pc \notin InFlight => Crashed(j) = j
         /\ j.pc \in InFlight => Crashed(j).pc = "crashed" /\ Crashed(j).done = {}
         /\ Crashed(j).until = j.until /\ Crashed(j).expires = j.expires
<1>1. CASE j.pc \in InFlight
  <2>1. PICK k : k = [j EXCEPT !.pc = "crashed", !.done = {}]
    OBVIOUS
  <2>2. /\ k \in ProcState /\ k.pc = "crashed" /\ k.done = {} /\ k.until = j.until
        /\ k.expires = j.expires /\ k.todo = j.todo
    BY <2>1 DEF ProcState, Phase
  <2>3. Crashed(j) = k
    BY <1>1, <2>1 DEF Crashed
  <2>4. ProcShape(m, k) /\ Advances(j, k)
    BY <2>2 DEF ProcShape, Advances, Unwritten
  <2> QED BY <1>1, <2>2, <2>3, <2>4
<1>2. CASE j.pc \notin InFlight
  BY <1>2 DEF Crashed, Advances
<1> QED BY <1>1, <1>2

(* Memory is lost, the tables and the storage stay.                         *)
LEMMA CrashRows ==
  ASSUME RowInv, Crash, Observe
  PROVE  RowInv'
<1>0. /\ UNCHANGED <<now, dbVars, objects, granted, served, cut>> /\ crashes' = crashes + 1
      /\ sweep' = SweepIdle /\ dl' = [d \in Downloader |-> DownloadIdle]
      /\ op' = [o \in Operator |-> OperatorIdle]
  BY DEF Crash
<1>k. \A m \in Message : proc[m] \in ProcState /\ ProcShape(m, proc[m])
  BY CallKnown
<1>p. \A m \in Message : proc'[m] = Crashed(proc[m])
  BY DEF Crash, PipelineCrash, Crashed
<1>1. PipelineTypeOK'
  <2>1. proc' \in [Message -> ProcState]
    <3>1. \A m \in Message : proc'[m] \in ProcState
      BY <1>k, <1>p, CrashedCall
    <3> QED BY <3>1 DEF Crash, PipelineCrash
  <2>2. leaked' \in SUBSET Attachment
    BY DEF Crash, PipelineCrash, RowInv, TypeOK, PipelineTypeOK
  <2> QED BY <2>1, <2>2 DEF PipelineTypeOK
<1>2. PersistenceTypeOK'
  BY <1>0, TablesKnown DEF PersistenceTypeOK, dbVars
<1>3. RetentionTypeOK' /\ EngineTypeOK' /\ crashes' \in Nat
  BY <1>0, RequestsKnown, IdleFits, OperatorIdleFits
     DEF RetentionTypeOK, SweepIdle, SweepState, EngineTypeOK
<1>4. Requests'
  BY <1>0 DEF Requests, OperatorFits, DownloadFits, OperatorIdle, DownloadIdle
<1>5. Rows(proc', messages, attachments, links, packages)
  <2>1. Rows(proc, messages, attachments, links, packages)
    BY TablesKnown
  <2>2. \A m \in Message : ProcShape(m, proc'[m])
    BY <1>k, <1>p, CrashedCall
  <2>3. \A m \in Message : proc'[m].pc \in Unwritten => m \notin messages
    BY <1>k, <1>p, <2>1, CrashedCall DEF Rows, Advances
  <2>4. ASSUME NEW a \in Attachment
        PROVE  AttachmentFits(a, proc'[MessageOf[a]], messages, attachments[a])
    <3>1. MessageOf[a] \in Message
      BY PersistenceAssumption
    <3>2. /\ proc'[MessageOf[a]].until = proc[MessageOf[a]].until
          /\ Advances(proc[MessageOf[a]], proc'[MessageOf[a]])
      BY <1>k, <1>p, <3>1, CrashedCall
    <3>3. AttachmentFits(a, proc[MessageOf[a]], messages, attachments[a])
      BY <2>1 DEF Rows
    <3> QED BY <3>2, <3>3 DEF AttachmentFits, Advances
  <2>5. ASSUME NEW l \in Link
        PROVE  LinkFits(proc'[MessageOf[l[1]]], attachments[l[1]], links[l])
    <3>1. MessageOf[l[1]] \in Message
      BY PersistenceAssumption DEF Link
    <3>2. proc'[MessageOf[l[1]]].expires = proc[MessageOf[l[1]]].expires
      BY <1>k, <1>p, <3>1, CrashedCall
    <3> QED BY <2>1, <3>2 DEF Rows, LinkFits
  <2>6. \A p \in Package : packages[p].status # "none" => p[1] \in messages
    BY <2>1 DEF Rows
  <2> QED BY <2>2, <2>3, <2>4, <2>5, <2>6 DEF Rows
<1>6. Rows(proc', messages', attachments', links', packages')
  BY <1>0, <1>5 DEF dbVars
<1> QED BY <1>1, <1>2, <1>3, <1>4, <1>6, TypeParts DEF RowInv

(* Every step keeps the rows in order.                                      *)
LEMMA RowStep ==
  ASSUME RowInv, [Next]_vars
  PROVE  RowInv'
<1>1. CASE UNCHANGED vars
  <2>1. /\ UNCHANGED <<now, proc, leaked, messages, attachments, links, packages>>
        /\ UNCHANGED <<objects, sweep, dl, op, granted, served, cut, crashes, protected>>
    BY <1>1 DEF vars, dbVars, pipelineVars, engineVars
  <2>2. PersistenceTypeOK' /\ Rows(proc', messages', attachments', links', packages')
    BY <2>1, TablesKnown DEF PersistenceTypeOK
  <2>3. PipelineTypeOK' /\ RetentionTypeOK' /\ EngineTypeOK' /\ crashes' \in Nat
        /\ protected' \in SUBSET Attachment
    BY <2>1 DEF RowInv, TypeOK, PipelineTypeOK, RetentionTypeOK, EngineTypeOK
  <2>4. Requests'
    BY <2>1 DEF RowInv, Requests
  <2> QED BY <2>2, <2>3, <2>4 DEF RowInv, TypeOK
<1> QED BY <1>1, TickRows, CrashRows, PipelineRows, SweepRows, DownloadRows, OperatorRows DEF Next

(* Nothing is stored yet and nobody has asked for anything.                 *)
LEMMA RowInit ==
  ASSUME Init
  PROVE  RowInv
<1>1. PersistenceTypeOK
  BY DEF Init, PersistenceInit, PersistenceTypeOK, NoRow, NoLink, NoPackage, LinkRow, PackageRow, LinkStatus
<1>2. proc = [m \in Message |-> Idle] /\ Idle \in ProcState /\ leaked = {}
  BY DEF Init, PipelineInit, Idle, ProcState, Phase, NoParams
<1>3. RetentionTypeOK /\ EngineTypeOK
  BY IdleFits, OperatorIdleFits
     DEF Init, RetentionInit, RetentionTypeOK, SweepIdle, SweepState, EngineInit, EngineTypeOK
<1>4. TypeOK
  BY <1>1, <1>2, <1>3 DEF TypeOK, PipelineTypeOK, Init
<1>5. Rows(proc, messages, attachments, links, packages)
  <2>1. /\ messages = {} /\ \A a \in Attachment : attachments[a] = NoRow
        /\ \A l \in Link : links[l].status = "none"
        /\ \A p \in Package : packages[p].status = "none"
    BY DEF Init, PersistenceInit, NoLink, NoPackage
  <2>2. \A m \in Message : proc[m].pc = "idle" /\ ProcShape(m, proc[m])
    BY <1>2 DEF Idle, ProcShape
  <2>3. \A a \in Attachment : proc[MessageOf[a]].pc = "idle"
    BY <2>2, PersistenceAssumption
  <2> QED BY <2>1, <2>2, <2>3 DEF Rows, AttachmentFits, LinkFits
<1>6. Requests
  BY DEF Init, EngineInit, Requests, OperatorFits, DownloadFits, OperatorIdle, DownloadIdle
<1> QED BY <1>4, <1>5, <1>6 DEF RowInv

(* The first layer holds of every run.                                      *)
LEMMA RowsAlways == Spec => []RowInv
BY RowInit, RowStep, PTL DEF Spec

(* Every table, every object and every call in flight keeps its type, of    *)
(* whatever messages, attachments, recipients, rules and requests.          *)
THEOREM DeliveryTypes == Spec => []TypeOK
<1>1. RowInv => TypeOK
  BY DEF RowInv
<1> QED BY <1>1, RowsAlways, PTL

(* No row ever loses its parent: no link without its attachment, no         *)
(* attachment and no package page without its message, through partial      *)
(* writes, purges, sweeps and crashes in any order.                         *)
THEOREM DeliveryRefIntegrity == Spec => []RefIntegrity
<1>1. ASSUME RowInv PROVE RefIntegrity
  BY <1>1, TablesKnown DEF Rows, LinkFits, AttachmentFits, RefIntegrity, LinkExists, AttachmentExists
<1> QED BY <1>1, RowsAlways, PTL

-----------------------------------------------------------------------------
(* What the steps do to one link's row.                                    *)

(* A request edits rows in place: it charges, revokes or holds.             *)
LEMMA RequestEffect ==
  ASSUME RowInv, DownloadSteps \/ OperatorSteps
  PROVE  /\ UNCHANGED <<now, messages, attachments, objects, proc, leaked, sweep, crashes>>
         /\ \A l \in Link : /\ links'[l].status = "none" <=> links[l].status = "none"
                            /\ links'[l].expires = links[l].expires
<1>0. links \in [Link -> LinkRow]
  BY TablesKnown
<1>1. CASE DownloadSteps
  <2>0. UNCHANGED <<now, proc, leaked, sweep, crashes>>
    BY <1>1 DEF DownloadSteps, pipelineVars
  <2>1. UNCHANGED <<dbVars, objects>> \/ \E d \in Downloader : Register(d)
    BY <1>1 DEF DownloadSteps, DownloadStep, ResolvePackage, Lookup, RegisterRefused, Reload,
                GetAttachment, GetObject, DownloadAborted
  <2>2. CASE UNCHANGED <<dbVars, objects>>
    BY <2>0, <2>2 DEF dbVars
  <2>3. CASE \E d \in Downloader : Register(d)
    <3>1. PICK d \in Downloader : Register(d)
      BY <2>3
    <3>2. PICK l : l = dl[d].link
      OBVIOUS
    <3>3. /\ links' = [links EXCEPT ![l].downloads = @ + 1]
          /\ UNCHANGED <<messages, attachments, objects>>
      BY <3>1, <3>2 DEF Register, RegisterDownloadByID
    <3>4. \A n \in Link : links'[n].status = links[n].status /\ links'[n].expires = links[n].expires
      BY <1>0, <3>3 DEF LinkRow
    <3> QED BY <2>0, <3>3, <3>4
  <2> QED BY <2>1, <2>2, <2>3
<1>2. CASE OperatorSteps
  <2>0. UNCHANGED <<now, proc, leaked, sweep, crashes>>
    BY <1>2 DEF OperatorSteps, pipelineVars
  <2>1. /\ UNCHANGED objects
        /\ \/ UNCHANGED dbVars
           \/ \E l : LinkExists(l) /\ RevokeLink(l)
           \/ \E l, hold : SetHoldRow(l, hold)
           \/ \E m : RevokeLinksByMessage(m)
    BY <1>2 DEF OperatorSteps, OperatorStep, RevokeRead, RevokeWrite, SetHoldRead, SetHoldWrite,
                RevokeMessages, RevokeList, RevokeCascade, RevokeReturn, OperatorAborted
  <2>2. CASE UNCHANGED dbVars
    BY <2>0, <2>1, <2>2 DEF dbVars
  <2>3. CASE \E l : LinkExists(l) /\ RevokeLink(l)
    <3>1. PICK l : LinkExists(l) /\ RevokeLink(l)
      BY <2>3
    <3>2. links' = [links EXCEPT ![l].status = "revoked"] /\ UNCHANGED <<messages, attachments>>
      BY <3>1 DEF RevokeLink
    <3>3. \A n \in Link : /\ links'[n].status = "none" <=> links[n].status = "none"
                          /\ links'[n].expires = links[n].expires
      BY <1>0, <3>1, <3>2 DEF LinkRow, LinkStatus, LinkExists
    <3> QED BY <2>0, <2>1, <3>2, <3>3
  <2>4. CASE \E l, hold : SetHoldRow(l, hold)
    <3>1. PICK l, hold : SetHoldRow(l, hold)
      BY <2>4
    <3>2. links' = [links EXCEPT ![l].hold = hold] /\ UNCHANGED <<messages, attachments>>
      BY <3>1 DEF SetHoldRow
    <3>3. \A n \in Link : links'[n].status = links[n].status /\ links'[n].expires = links[n].expires
      BY <1>0, <3>2 DEF LinkRow
    <3> QED BY <2>0, <2>1, <3>2, <3>3
  <2>5. CASE \E m : RevokeLinksByMessage(m)
    <3>1. PICK m : RevokeLinksByMessage(m)
      BY <2>5
    <3>2. ASSUME NEW n \in Link
          PROVE  /\ links'[n].status = "none" <=> links[n].status = "none"
                 /\ links'[n].expires = links[n].expires
      <4>1. links'[n] = IF MessageOf[n[1]] = m /\ LinkExists(n) /\ ~links[n].hold
                          THEN [links[n] EXCEPT !.status = "revoked"] ELSE links[n]
        BY <3>1 DEF RevokeLinksByMessage
      <4> QED BY <1>0, <4>1 DEF LinkRow, LinkStatus, LinkExists
    <3> QED BY <2>0, <2>1, <3>1, <3>2 DEF RevokeLinksByMessage
  <2> QED BY <2>1, <2>2, <2>3, <2>4, <2>5
<1> QED BY <1>1, <1>2

(* The pipeline steps that write rows; the others leave the tables alone.   *)
LEMMA PipelineEffect ==
  ASSUME PipelineSteps
  PROVE  \E m \in Message :
           \/ UNCHANGED dbVars
           \/ WriteMessage(m) \/ \E a \in Attachment : WriteAttachment(m, a)
           \/ \E a \in Attachment : WriteLink(m, a)
           \/ WritePackage(m) \/ PurgeMessage(m)
BY DEF PipelineSteps, PipelineNext, Begin, Upload, UploadFails, ResolveLinks, StartLinkLoop,
       ProcessFails, Deliver, RollbackObject, RollbackObjectFails, PurgeSkipped

(* The row of a held link, its attachment and its message outlive every     *)
(* step: DeleteAttachment and DeleteMessage refuse, and nothing else        *)
(* deletes or rewrites them.                                                *)
LEMMA HeldRowStep ==
  ASSUME RowInv, [Next]_vars, NEW l \in Link, LinkExists(l), links[l].hold
  PROVE  /\ links'[l].status # "none"
         /\ attachments'[l[1]] = attachments[l[1]]
         /\ MessageOf[l[1]] \in messages'
<1>k. /\ l[1] \in Attachment /\ l[2] \in Recipient /\ l = <<l[1], l[2]>> /\ MessageOf[l[1]] \in Message
      /\ links \in [Link -> LinkRow] /\ attachments \in [Attachment -> Nat]
      /\ messages \in SUBSET Message
  BY PersistenceAssumption, TablesKnown DEF Link
<1>p. attachments[l[1]] # NoRow /\ MessageOf[l[1]] \in messages
  BY <1>k, TablesKnown DEF Rows, LinkFits, AttachmentFits, LinkExists
<1>h. AttachmentHeld(l[1]) /\ MessageHeld(MessageOf[l[1]])
  BY <1>k DEF AttachmentHeld, MessageHeld, AttachmentsOf
<1>q. CASE UNCHANGED dbVars
  BY <1>q, <1>p DEF dbVars, LinkExists
<1>1. CASE UNCHANGED vars \/ Tick \/ Crash
  BY <1>q, <1>1 DEF vars, dbVars, Tick, Crash
<1>2. CASE DownloadSteps \/ OperatorSteps
  BY <1>2, <1>p, RequestEffect DEF LinkExists
<1>3. CASE SweepSteps
  <2>1. CASE UNCHANGED objects /\ ExpireStaleLinks(now)
    <3>1. /\ links'[l] = IF links[l].status = "active" /\ links[l].expires < now
                           THEN [links[l] EXCEPT !.status = "expired"] ELSE links[l]
          /\ UNCHANGED <<messages, attachments>>
      BY <2>1 DEF ExpireStaleLinks
    <3> QED BY <3>1, <1>k, <1>p DEF LinkRow, LinkExists
  <2>2. CASE UNCHANGED objects /\ \E a \in Attachment : PurgeRows(a)
    <3>1. PICK a \in Attachment : DeleteAttachment(a)
      BY <2>2 DEF PurgeRows
    <3>2. a # l[1]
      BY <3>1, <1>h DEF DeleteAttachment
    <3> QED BY <3>1, <3>2, <1>k, <1>p DEF DeleteAttachment, LinkExists
  <2> QED BY <1>3, <1>q, <2>1, <2>2, SweepEffect DEF SweepSteps
<1>4. CASE PipelineSteps
  <2>0. PICK m \in Message :
          \/ UNCHANGED dbVars
          \/ WriteMessage(m) \/ \E a \in Attachment : WriteAttachment(m, a)
          \/ \E a \in Attachment : WriteLink(m, a)
          \/ WritePackage(m) \/ PurgeMessage(m)
    BY <1>4, PipelineEffect
  <2>1. CASE WriteMessage(m)
    BY <2>1, <1>k, <1>p DEF WriteMessage, CreateMessage, LinkExists
  <2>2. CASE \E a \in Attachment : WriteAttachment(m, a)
    <3>1. PICK a \in Attachment : WriteAttachment(m, a)
      BY <2>2
    <3>2. attachments[a] = NoRow
      <4>1. a \in AttachmentsOf(m) /\ proc[m].pc = "attachments" /\ a \in proc[m].todo
        BY <3>1, CallKnown DEF WriteAttachment, At, ProcShape
      <4> QED BY <4>1, TablesKnown DEF Rows, AttachmentFits, AttachmentsOf
    <3> QED BY <3>1, <3>2, <1>k, <1>p DEF WriteAttachment, CreateAttachment, LinkExists
  <2>3. CASE \E a \in Attachment : WriteLink(m, a)
    <3>1. PICK a \in Attachment : WriteLink(m, a)
      BY <2>3
    <3>2. PICK row, n : /\ row = [status |-> "active", expires |-> proc[m].expires,
                                  max |-> proc[m].max, downloads |-> 0, hold |-> FALSE]
                        /\ n = <<a, NextRecipient(proc[m].rcpts)>>
      OBVIOUS
    <3>3. links' = [links EXCEPT ![n] = row] /\ UNCHANGED <<messages, attachments>>
      BY <3>1, <3>2 DEF WriteLink, CreateLink
    <3>4. row.status # "none"
      BY <3>2
    <3> QED BY <3>3, <3>4, <1>k, <1>p DEF LinkExists
  <2>4. CASE WritePackage(m)
    BY <2>4, <1>k, <1>p DEF WritePackage, CreateMessageLink, LinkExists
  <2>5. CASE PurgeMessage(m)
    <3>1. DeleteMessage(m) /\ m # MessageOf[l[1]]
      BY <2>5, <1>h DEF PurgeMessage, DeleteMessage
    <3> QED BY <3>1, <1>k, <1>p DEF DeleteMessage, LinkExists
  <2> QED BY <2>0, <1>q, <2>1, <2>2, <2>3, <2>4, <2>5
<1> QED BY <1>1, <1>2, <1>3, <1>4 DEF Next

(* Legal hold: neither the sweeper nor the pipeline's compensation deletes  *)
(* a held link's rows, however a hold interleaves with their calls.         *)
THEOREM HeldRowsKept == Spec => HeldRowsSurvive
<1>1. RowInv /\ [Next]_vars =>
        [\A l \in Link : LinkExists(l) /\ links[l].hold =>
           /\ LinkExists(l)'
           /\ attachments'[l[1]] = attachments[l[1]]
           /\ MessageOf[l[1]] \in messages']_vars
  BY HeldRowStep DEF LinkExists
<1> QED BY <1>1, RowsAlways, PTL DEF Spec, HeldRowsSurvive

-----------------------------------------------------------------------------
(* The second layer: where the bytes are.                                  *)

(* The bytes of attachment a, its message's call k and the time until which *)
(* its row keeps it.  They are with the call that uploaded them, behind the *)
(* row, or given up; and what was not yet due to go is there.               *)
BytesFit(a, k, stored, given, until, t) ==
  /\ a \in stored =>
       /\ k.pc \in {"idle", "failed", "crashed"} \cup InFlight => a \in k.done \/ a \in given
       /\ k.pc \in {"links", "rewrite", "delivered"} => until # NoRow \/ a \in given
       /\ k.pc = "attachments" /\ a \notin k.todo => until # NoRow \/ a \in given
  /\ k.pc = "upload" => a \in k.todo \/ a \in stored
  /\ k.pc \in {"message", "attachments", "links", "rewrite", "delivered"} /\ k.expires > t
       => a \in stored
  /\ k.pc \in {"idle", "failed", "crashed"} => k.done = {}

(* An attachment whose row a pass with this cutoff may delete.              *)
Doomed(a, k, at) ==
  /\ k.pc \notin Unwritten
  /\ k.pc = "attachments" => a \notin k.todo
  /\ k.until < at

(* The sweeper only has attachments whose retention ran out before its      *)
(* pass; past the storage delete the bytes are gone, and before it no hold  *)
(* it could have seen is in force.                                          *)
SweepFit(sw, pr, stored, heldSince, t) ==
  /\ sw.at <= t
  /\ \A a \in sw.batch \cup sw.cur : Doomed(a, pr[MessageOf[a]], sw.at)
  /\ sw.pc = "rows" => sw.cur \cap stored = {}
  /\ sw.pc = "object" => \E a \in Attachment : sw.cur = {a} /\ a \notin heldSince

BytesInv ==
  /\ \A a \in Attachment : BytesFit(a, proc[MessageOf[a]], objects, leaked, attachments[a], now)
  /\ SweepFit(sweep, proc, objects, protected, now)

(* A hold counts as set in time only if the sweeper was not already past    *)
(* its re-check: a step that leaves the sweeper alone spares nothing that   *)
(* is under way.                                                            *)
LEMMA SweepWaits ==
  ASSUME Observe, UNCHANGED sweep, NEW pr, NEW stored, NEW t,
         SweepFit(sweep, proc, objects, protected, now), t >= now, t \in Nat, now \in Nat,
         sweep.at \in Nat,
         \A a \in sweep.batch \cup sweep.cur :
           Doomed(a, proc[MessageOf[a]], sweep.at) => Doomed(a, pr[MessageOf[a]], sweep.at),
         sweep.cur \cap stored \subseteq objects
  PROVE  SweepFit(sweep', pr, stored, protected', t)
<1>1. sweep.pc = "object" => \E a \in Attachment : sweep.cur = {a} /\ a \notin protected'
  BY DEF SweepFit, Observe, DeleteUnderWay, SweepAt, Purging
<1>2. sweep.at <= t /\ (sweep.pc = "rows" => sweep.cur \cap stored = {})
  BY DEF SweepFit
<1>3. \A a \in sweep.batch \cup sweep.cur : Doomed(a, pr[MessageOf[a]], sweep.at)
  BY DEF SweepFit
<1> QED BY <1>1, <1>2, <1>3 DEF SweepFit

(* What the second layer's steps start from.                                *)
LEMMA BytesKnown ==
  ASSUME RowInv, BytesInv
  PROVE  /\ sweep \in SweepState /\ sweep.at \in Nat /\ now \in Nat
         /\ sweep.batch \subseteq Attachment /\ sweep.cur \subseteq Attachment
         /\ objects \in SUBSET Attachment /\ attachments \in [Attachment -> Nat]
         /\ \A a \in Attachment : BytesFit(a, proc[MessageOf[a]], objects, leaked, attachments[a], now)
         /\ SweepFit(sweep, proc, objects, protected, now)
BY TablesKnown DEF RowInv, TypeOK, RetentionTypeOK, SweepState, BytesInv

(* A Process call moves on: its own attachments are to be looked at, the    *)
(* others' bytes and rows stay.                                             *)
Onward(j, k) ==
  \/ j.pc \in Unwritten
  \/ /\ k.pc \notin Unwritten /\ k.until = j.until
     /\ k.pc = "attachments" => j.pc = "attachments" /\ k.todo \subseteq j.todo

(* A step of one Process call keeps the bytes' invariant when it satisfies  *)
(* it for its own attachments and leaves the others alone.                  *)
LEMMA BytesCall ==
  ASSUME RowInv, BytesInv, PipelineRest, NEW m \in Message, NEW k, Becomes(m, k),
         Onward(proc[m], k),
         \A b \in Attachment \ AttachmentsOf(m) :
           /\ b \in objects' <=> b \in objects
           /\ b \in leaked' <=> b \in leaked
           /\ attachments'[b] = attachments[b],
         \A b \in AttachmentsOf(m) :
           /\ BytesFit(b, k, objects', leaked', attachments'[b], now)
           /\ b \in objects' => b \in objects \/ proc[m].pc \in Unwritten
  PROVE  BytesInv'
<1>k. /\ sweep \in SweepState /\ sweep.at \in Nat /\ now \in Nat
      /\ sweep.batch \subseteq Attachment /\ sweep.cur \subseteq Attachment
      /\ \A a \in Attachment : BytesFit(a, proc[MessageOf[a]], objects, leaked, attachments[a], now)
      /\ SweepFit(sweep, proc, objects, protected, now)
  BY BytesKnown
<1>p. \A n \in Message : proc'[n] = IF n = m THEN k ELSE proc[n]
  BY CallKnown DEF Becomes
<1>n. now' = now /\ sweep' = sweep
  BY DEF PipelineRest
<1>1. ASSUME NEW a \in Attachment
      PROVE  BytesFit(a, proc'[MessageOf[a]], objects', leaked', attachments'[a], now')
  <2>1. MessageOf[a] \in Message
    BY PersistenceAssumption
  <2>2. CASE MessageOf[a] = m
    BY <1>p, <1>n, <2>1, <2>2 DEF AttachmentsOf
  <2>3. CASE MessageOf[a] # m
    <3>1. a \in Attachment \ AttachmentsOf(m) /\ proc'[MessageOf[a]] = proc[MessageOf[a]]
      BY <1>p, <2>1, <2>3 DEF AttachmentsOf
    <3> QED BY <1>k, <1>n, <3>1 DEF BytesFit
  <2> QED BY <2>2, <2>3
<1>2. ASSUME NEW a \in sweep.batch \cup sweep.cur
      PROVE  /\ Doomed(a, proc'[MessageOf[a]], sweep.at)
             /\ a \in objects' => a \in objects
  <2>1. Doomed(a, proc[MessageOf[a]], sweep.at) /\ a \in Attachment /\ MessageOf[a] \in Message
    BY <1>k, PersistenceAssumption DEF SweepFit
  <2>2. CASE MessageOf[a] = m
    BY <1>p, <2>1, <2>2 DEF Doomed, Onward, AttachmentsOf
  <2>3. CASE MessageOf[a] # m
    BY <1>p, <2>1, <2>3 DEF AttachmentsOf
  <2> QED BY <2>2, <2>3
<1>3. SweepFit(sweep', proc', objects', protected', now')
  BY <1>2, <1>k, <1>n, SweepWaits DEF PipelineRest
<1> QED BY <1>1, <1>3 DEF BytesInv

(* The steps before the rows, byte by byte.                                 *)
LEMMA UploadBytes ==
  ASSUME RowInv, BytesInv, PipelineRest, NEW m \in Message,
         \/ \E p \in PolicyParams : Begin(m, p)
         \/ \E a \in Attachment : Upload(m, a)
         \/ \E a \in Attachment, stored \in BOOLEAN : UploadFails(m, a, stored)
         \/ ResolveLinks(m)
  PROVE  BytesInv'
<1>k. /\ TypeOK /\ proc[m] \in ProcState /\ AttachmentsOf(m) \in SUBSET Attachment
      /\ ProcShape(m, proc[m])
  BY CallKnown
<1>b. \A b \in AttachmentsOf(m) : BytesFit(b, proc[m], objects, leaked, attachments[b], now)
  BY BytesKnown DEF AttachmentsOf
<1>1. CASE \E p \in PolicyParams : Begin(m, p)
  <2>1. PICK p \in PolicyParams : Begin(m, p)
    BY <1>1
  <2>2. PICK k : /\ Becomes(m, k)
                 /\ k = [proc[m] EXCEPT !.pc = "upload", !.params = p, !.todo = AttachmentsOf(m)]
    BY <2>1, <1>k, BeginCall
  <2>3. proc[m].pc = "idle" /\ UNCHANGED <<objects, leaked, attachments>>
    BY <2>1 DEF Begin, At, dbVars
  <2>4. Onward(proc[m], k)
    BY <2>3 DEF Onward, Unwritten
  <2>5. \A b \in AttachmentsOf(m) : BytesFit(b, k, objects, leaked, attachments[b], now)
    BY <2>2, <2>3, <1>k, <1>b DEF ProcState, BytesFit, InFlight
  <2> QED BY <2>2, <2>3, <2>4, <2>5, BytesCall
<1>2. CASE \E a \in Attachment : Upload(m, a)
  <2>1. PICK a \in Attachment : Upload(m, a)
    BY <1>2
  <2>2. PICK k : Becomes(m, k) /\ k = [proc[m] EXCEPT !.todo = @ \ {a}, !.done = @ \cup {a}]
    BY <2>1, <1>k, UploadCall
  <2>3. /\ proc[m].pc = "upload" /\ a \in AttachmentsOf(m) /\ objects' = objects \cup {a}
        /\ UNCHANGED <<leaked, attachments>>
    BY <2>1, <1>k DEF Upload, At, dbVars, ProcShape
  <2>4. Onward(proc[m], k) /\ proc[m].pc \in Unwritten
    BY <2>3 DEF Onward, Unwritten
  <2>5. \A b \in AttachmentsOf(m) : BytesFit(b, k, objects', leaked, attachments[b], now)
    BY <2>2, <2>3, <1>k, <1>b DEF ProcState, BytesFit, InFlight
  <2> QED BY <2>2, <2>3, <2>4, <2>5, BytesCall
<1>3. CASE \E a \in Attachment, stored \in BOOLEAN : UploadFails(m, a, stored)
  <2>1. PICK a \in Attachment, stored \in BOOLEAN : UploadFails(m, a, stored)
    BY <1>3
  <2>2. PICK k : Becomes(m, k) /\ k = [proc[m] EXCEPT !.pc = "rollback"]
    BY <2>1, <1>k, UploadFailsCall
  <2>3. /\ proc[m].pc = "upload" /\ a \in AttachmentsOf(m) /\ UNCHANGED attachments
        /\ \/ objects' = objects \cup {a} /\ leaked' = leaked \cup {a}
           \/ objects' = objects /\ leaked' = leaked
    BY <2>1, <1>k DEF UploadFails, At, dbVars, ProcShape
  <2>4. Onward(proc[m], k) /\ proc[m].pc \in Unwritten
    BY <2>3 DEF Onward, Unwritten
  <2>5. \A b \in AttachmentsOf(m) : BytesFit(b, k, objects', leaked', attachments[b], now)
    BY <2>2, <2>3, <1>k, <1>b DEF ProcState, BytesFit, InFlight
  <2> QED BY <2>2, <2>3, <2>4, <2>5, BytesCall
<1>4. CASE ResolveLinks(m)
  <2>2. PICK k, q :
          /\ Becomes(m, k) /\ q = resolveParams(proc[m].params)
          /\ q.ttl \in Nat \ {0} /\ q.retention \in Nat /\ q.ttl <= q.retention
          /\ k = [proc[m] EXCEPT !.pc = "message", !.purge = TRUE, !.max = q.max,
                                 !.expires = now + q.ttl, !.until = now + q.retention]
    BY <1>4, <1>k, ResolveLinksCall
  <2>3. /\ proc[m].pc = "upload" /\ proc[m].todo = {}
        /\ UNCHANGED <<objects, leaked, attachments>>
    BY <1>4 DEF ResolveLinks, At, dbVars
  <2>4. Onward(proc[m], k)
    BY <2>3 DEF Onward, Unwritten
  <2>5. k.pc = "message" /\ k.done = proc[m].done
    BY <2>2, <1>k DEF ProcState
  <2>6. \A b \in AttachmentsOf(m) : BytesFit(b, k, objects, leaked, attachments[b], now)
    BY <2>3, <2>5, <1>b DEF BytesFit, InFlight
  <2> QED BY <2>2, <2>3, <2>4, <2>6, BytesCall
<1> QED BY <1>1, <1>2, <1>3, <1>4

(* The rows are written: every stored object gets one.                      *)
LEMMA WriteBytes ==
  ASSUME RowInv, BytesInv, PipelineRest, NEW m \in Message,
         \/ WriteMessage(m)
         \/ \E a \in Attachment : WriteAttachment(m, a)
         \/ StartLinkLoop(m)
         \/ \E a \in Attachment : WriteLink(m, a)
         \/ WritePackage(m)
  PROVE  BytesInv'
<1>k. /\ TypeOK /\ proc[m] \in ProcState /\ AttachmentsOf(m) \in SUBSET Attachment
      /\ ProcShape(m, proc[m])
  BY CallKnown
<1>b. \A b \in AttachmentsOf(m) : BytesFit(b, proc[m], objects, leaked, attachments[b], now)
  BY BytesKnown DEF AttachmentsOf
<1>t. attachments \in [Attachment -> Nat]
  BY TablesKnown
<1>1. CASE WriteMessage(m)
  <2>1. PICK k : Becomes(m, k) /\ k = [proc[m] EXCEPT !.pc = "attachments", !.todo = AttachmentsOf(m)]
    BY <1>1, <1>k, WriteMessageCall
  <2>2. proc[m].pc = "message" /\ UNCHANGED <<objects, leaked, attachments>>
    BY <1>1 DEF WriteMessage, CreateMessage, At
  <2>3. Onward(proc[m], k)
    BY <2>2 DEF Onward, Unwritten
  <2>4. \A b \in AttachmentsOf(m) : BytesFit(b, k, objects, leaked, attachments[b], now)
    BY <2>1, <2>2, <1>k, <1>b DEF ProcState, BytesFit, InFlight
  <2> QED BY <2>1, <2>2, <2>3, <2>4, BytesCall
<1>2. CASE \E a \in Attachment : WriteAttachment(m, a)
  <2>0. PICK a \in Attachment : WriteAttachment(m, a)
    BY <1>2
  <2>1. PICK k : Becomes(m, k) /\ k = [proc[m] EXCEPT !.todo = @ \ {a}]
    BY <2>0, <1>k, WriteAttachmentCall
  <2>2. /\ proc[m].pc = "attachments" /\ a \in AttachmentsOf(m) /\ UNCHANGED <<objects, leaked>>
        /\ attachments' = [attachments EXCEPT ![a] = proc[m].until]
        /\ proc[m].until # NoRow /\ proc[m].until \in Nat
    BY <2>0, <1>k DEF WriteAttachment, CreateAttachment, At, ProcShape, ProcState
  <2>3. Onward(proc[m], k)
    BY <2>1, <2>2, <1>k DEF Onward, Unwritten, ProcState
  <2>4. \A b \in AttachmentsOf(m) : BytesFit(b, k, objects, leaked, attachments'[b], now)
    BY <2>1, <2>2, <1>k, <1>b, <1>t DEF ProcState, BytesFit, InFlight
  <2>5. \A b \in Attachment \ AttachmentsOf(m) : attachments'[b] = attachments[b]
    BY <2>2, <1>t
  <2> QED BY <2>1, <2>2, <2>3, <2>4, <2>5, BytesCall
<1>3. CASE StartLinkLoop(m)
  <2>1. PICK k : /\ Becomes(m, k)
                 /\ k = [proc[m] EXCEPT !.pc = "links", !.todo = AttachmentsOf(m), !.rcpts = Recipient]
    BY <1>3, <1>k, StartLinkLoopCall
  <2>2. /\ proc[m].pc = "attachments" /\ proc[m].todo = {}
        /\ UNCHANGED <<objects, leaked, attachments>>
    BY <1>3 DEF StartLinkLoop, At, dbVars
  <2>3. Onward(proc[m], k)
    BY <2>1, <2>2, <1>k DEF Onward, Unwritten, ProcState
  <2>4. \A b \in AttachmentsOf(m) : BytesFit(b, k, objects, leaked, attachments[b], now)
    BY <2>1, <2>2, <1>k, <1>b DEF ProcState, BytesFit, InFlight
  <2> QED BY <2>1, <2>2, <2>3, <2>4, BytesCall
<1>4. CASE \E a \in Attachment : WriteLink(m, a)
  <2>0. PICK a \in Attachment : WriteLink(m, a)
    BY <1>4
  <2>1. PICK k : Becomes(m, k) /\ k = [proc[m] EXCEPT !.todo = @ \ {a}]
    BY <2>0, <1>k, WriteLinkCall
  <2>2. proc[m].pc = "links" /\ UNCHANGED <<objects, leaked, attachments>>
    BY <2>0 DEF WriteLink, CreateLink, At
  <2>3. Onward(proc[m], k)
    BY <2>1, <2>2, <1>k DEF Onward, Unwritten, ProcState
  <2>4. \A b \in AttachmentsOf(m) : BytesFit(b, k, objects, leaked, attachments[b], now)
    BY <2>1, <2>2, <1>k, <1>b DEF ProcState, BytesFit, InFlight
  <2> QED BY <2>1, <2>2, <2>3, <2>4, BytesCall
<1>5. CASE WritePackage(m)
  <2>1. PICK k, rest :
          /\ Becomes(m, k) /\ rest = proc[m].rcpts \ {NextRecipient(proc[m].rcpts)}
          /\ k = [proc[m] EXCEPT !.rcpts = rest,
                                 !.todo = IF rest = {} THEN {} ELSE AttachmentsOf(m),
                                 !.pc = IF rest = {} THEN "rewrite" ELSE "links"]
    BY <1>5, <1>k, WritePackageCall
  <2>2. proc[m].pc = "links" /\ UNCHANGED <<objects, leaked, attachments>>
    BY <1>5 DEF WritePackage, CreateMessageLink, At
  <2>3. /\ k.pc \in {"links", "rewrite"} /\ k.until = proc[m].until /\ k.done = proc[m].done
        /\ k.expires = proc[m].expires
    BY <2>1, <1>k DEF ProcState
  <2>4. Onward(proc[m], k)
    BY <2>2, <2>3 DEF Onward, Unwritten
  <2>5. \A b \in AttachmentsOf(m) : BytesFit(b, k, objects, leaked, attachments[b], now)
    BY <2>2, <2>3, <1>b DEF BytesFit, InFlight
  <2> QED BY <2>1, <2>2, <2>4, <2>5, BytesCall
<1> QED BY <1>1, <1>2, <1>3, <1>4, <1>5

(* The end of a call: what it uploaded is delivered, undone or given up.    *)
LEMMA EndBytes ==
  ASSUME RowInv, BytesInv, PipelineRest, NEW m \in Message,
         \/ ProcessFails(m)
         \/ Deliver(m)
         \/ \E a \in Attachment : RollbackObject(m, a)
         \/ \E a \in Attachment : RollbackObjectFails(m, a)
         \/ PurgeMessage(m)
         \/ PurgeSkipped(m)
  PROVE  BytesInv'
<1>k. /\ TypeOK /\ proc[m] \in ProcState /\ AttachmentsOf(m) \in SUBSET Attachment
      /\ ProcShape(m, proc[m])
  BY CallKnown
<1>b. \A b \in AttachmentsOf(m) : BytesFit(b, proc[m], objects, leaked, attachments[b], now)
  BY BytesKnown DEF AttachmentsOf
<1>1. CASE ProcessFails(m)
  <2>1. PICK k : Becomes(m, k) /\ k = [proc[m] EXCEPT !.pc = "rollback"]
    BY <1>1, <1>k, ProcessFailsCall
  <2>2. /\ proc[m].pc \in {"message", "attachments", "links", "rewrite"}
        /\ UNCHANGED <<objects, leaked, attachments>>
    BY <1>1 DEF ProcessFails, dbVars
  <2>3. Onward(proc[m], k)
    BY <2>1, <1>k DEF Onward, Unwritten, ProcState
  <2>4. \A b \in AttachmentsOf(m) : BytesFit(b, k, objects, leaked, attachments[b], now)
    BY <2>1, <2>2, <1>k, <1>b DEF ProcState, BytesFit, InFlight
  <2> QED BY <2>1, <2>2, <2>3, <2>4, BytesCall
<1>2. CASE Deliver(m)
  <2>1. PICK k : Becomes(m, k) /\ k = [proc[m] EXCEPT !.pc = "delivered", !.done = {}]
    BY <1>2, <1>k, DeliverCall
  <2>2. proc[m].pc = "rewrite" /\ UNCHANGED <<objects, leaked, attachments>>
    BY <1>2 DEF Deliver, At, dbVars
  <2>3. Onward(proc[m], k)
    BY <2>1, <1>k DEF Onward, Unwritten, ProcState
  <2>4. \A b \in AttachmentsOf(m) : BytesFit(b, k, objects, leaked, attachments[b], now)
    BY <2>1, <2>2, <1>k, <1>b DEF ProcState, BytesFit, InFlight
  <2> QED BY <2>1, <2>2, <2>3, <2>4, BytesCall
<1>3. CASE \E a \in Attachment : RollbackObject(m, a)
  <2>0. PICK a \in Attachment : RollbackObject(m, a)
    BY <1>3
  <2>1. PICK k : Becomes(m, k) /\ k = [proc[m] EXCEPT !.done = @ \ {a}]
    BY <2>0, <1>k, RollbackObjectCall
  <2>2. /\ proc[m].pc = "rollback" /\ a \in AttachmentsOf(m) /\ objects' = objects \ {a}
        /\ UNCHANGED <<leaked, attachments>>
    BY <2>0, <1>k DEF RollbackObject, At, dbVars, ProcShape
  <2>3. Onward(proc[m], k)
    BY <2>1, <2>2, <1>k DEF Onward, Unwritten, ProcState
  <2>4. \A b \in AttachmentsOf(m) : BytesFit(b, k, objects', leaked, attachments[b], now)
    BY <2>1, <2>2, <1>k, <1>b DEF ProcState, BytesFit, InFlight
  <2> QED BY <2>1, <2>2, <2>3, <2>4, BytesCall
<1>4. CASE \E a \in Attachment : RollbackObjectFails(m, a)
  <2>0. PICK a \in Attachment : RollbackObjectFails(m, a)
    BY <1>4
  <2>1. PICK k : Becomes(m, k) /\ k = [proc[m] EXCEPT !.done = @ \ {a}]
    BY <2>0, <1>k, RollbackObjectFailsCall
  <2>2. /\ proc[m].pc = "rollback" /\ a \in AttachmentsOf(m) /\ leaked' = leaked \cup {a}
        /\ UNCHANGED <<objects, attachments>>
    BY <2>0, <1>k DEF RollbackObjectFails, At, dbVars, ProcShape
  <2>3. Onward(proc[m], k)
    BY <2>1, <2>2, <1>k DEF Onward, Unwritten, ProcState
  <2>4. \A b \in AttachmentsOf(m) : BytesFit(b, k, objects, leaked', attachments[b], now)
    BY <2>1, <2>2, <1>k, <1>b DEF ProcState, BytesFit, InFlight
  <2> QED BY <2>1, <2>2, <2>3, <2>4, BytesCall
<1>5. CASE PurgeMessage(m)
  <2>1. PICK k : Becomes(m, k) /\ k = [proc[m] EXCEPT !.pc = "failed"]
    BY <1>5, <1>k, PurgeMessageCall
  <2>2. /\ proc[m].pc = "rollback" /\ proc[m].done = {} /\ UNCHANGED <<objects, leaked>>
        /\ attachments' = [a \in Attachment |-> IF MessageOf[a] = m THEN NoRow ELSE attachments[a]]
    BY <1>5 DEF PurgeMessage, DeleteMessage, At
  <2>3. Onward(proc[m], k)
    BY <2>1, <2>2, <1>k DEF Onward, Unwritten, ProcState
  <2>4. \A b \in AttachmentsOf(m) : BytesFit(b, k, objects, leaked, attachments'[b], now)
    BY <2>1, <2>2, <1>k, <1>b DEF ProcState, BytesFit, InFlight
  <2>5. \A b \in Attachment \ AttachmentsOf(m) : attachments'[b] = attachments[b]
    BY <2>2 DEF AttachmentsOf
  <2> QED BY <2>1, <2>2, <2>3, <2>4, <2>5, BytesCall
<1>6. CASE PurgeSkipped(m)
  <2>1. PICK k : Becomes(m, k) /\ k = [proc[m] EXCEPT !.pc = "failed"]
    BY <1>6, <1>k, PurgeSkippedCall
  <2>2. /\ proc[m].pc = "rollback" /\ proc[m].done = {}
        /\ UNCHANGED <<objects, leaked, attachments>>
    BY <1>6 DEF PurgeSkipped, At, dbVars
  <2>3. Onward(proc[m], k)
    BY <2>1, <2>2, <1>k DEF Onward, Unwritten, ProcState
  <2>4. \A b \in AttachmentsOf(m) : BytesFit(b, k, objects, leaked, attachments[b], now)
    BY <2>1, <2>2, <1>k, <1>b DEF ProcState, BytesFit, InFlight
  <2> QED BY <2>1, <2>2, <2>3, <2>4, BytesCall
<1> QED BY <1>1, <1>2, <1>3, <1>4, <1>5, <1>6

(* An attachment that the sweeper may list has all of CreateLinks' row      *)
(* writes behind it and is kept no longer than the call promised.           *)
LEMMA ExpiredDoomed ==
  ASSUME RowInv, NEW a \in Attachment, NEW at \in Nat, AttachmentExists(a), attachments[a] < at
  PROVE  Doomed(a, proc[MessageOf[a]], at)
<1>1. MessageOf[a] \in Message /\ AttachmentFits(a, proc[MessageOf[a]], messages, attachments[a])
  BY PersistenceAssumption, TablesKnown DEF Rows
<1>2. MessageOf[a] \in messages => proc[MessageOf[a]].pc \notin Unwritten
  BY <1>1, TablesKnown DEF Rows
<1> QED BY <1>1, <1>2 DEF AttachmentExists, AttachmentFits, Doomed

(* A sweeper step that moves no bytes and no attachment row.                *)
LEMMA SweepQuiet ==
  ASSUME RowInv, BytesInv, UNCHANGED <<now, proc, leaked, attachments, objects>>,
         SweepFit(sweep', proc, objects, protected', now)
  PROVE  BytesInv'
BY BytesKnown DEF BytesInv

(* Storage before rows: the object goes only if its row is past its time,   *)
(* and the row goes only after the object.                                  *)
LEMMA SweepBytes ==
  ASSUME RowInv, BytesInv, SweepSteps, Observe
  PROVE  BytesInv'
<1>0. /\ SweepStep \/ SweepListFails \/ (SweepCancelled /\ UNCHANGED <<dbVars, objects>>)
      /\ UNCHANGED <<now, proc, leaked>>
  BY DEF SweepSteps, pipelineVars
<1>k. /\ sweep \in SweepState /\ sweep.at \in Nat /\ now \in Nat
      /\ sweep.batch \subseteq Attachment /\ sweep.cur \subseteq Attachment
      /\ objects \in SUBSET Attachment /\ attachments \in [Attachment -> Nat]
      /\ \A a \in Attachment : BytesFit(a, proc[MessageOf[a]], objects, leaked, attachments[a], now)
      /\ SweepFit(sweep, proc, objects, protected, now)
  BY BytesKnown
<1>i. ASSUME sweep'.batch = {}, sweep'.cur = {}, sweep'.at \in {0, now}, sweep'.pc \in {"idle", "list"},
             UNCHANGED <<attachments, objects>>
      PROVE  BytesInv'
  BY <1>i, <1>0, <1>k, SweepQuiet DEF SweepFit
<1>s. ASSUME sweep'.batch \subseteq sweep.batch, sweep'.cur \subseteq sweep.cur, sweep'.at = sweep.at,
             sweep'.pc \in {"list", "purge", "audit"}, UNCHANGED <<attachments, objects>>
      PROVE  BytesInv'
  BY <1>s, <1>0, <1>k, SweepQuiet DEF SweepFit
<1>1. CASE \E expire \in BOOLEAN : SweepStart(expire)
  <2>1. UNCHANGED <<attachments, objects>> /\ sweep' = [SweepIdle EXCEPT !.pc = "list", !.at = now]
    BY <1>1 DEF SweepStart, ExpireStaleLinks, dbVars
  <2> QED BY <2>1, <1>i DEF SweepIdle
<1>2. CASE SweepList
  <2>1. UNCHANGED <<attachments, objects>>
    BY <1>2 DEF SweepList, dbVars
  <2>2. PICK s \in Chunk(ExpiredAttachments(sweep.at)) :
          sweep' = IF s = {} THEN [sweep EXCEPT !.pc = "audit"]
                   ELSE [sweep EXCEPT !.pc = "purge", !.batch = s,
                                      !.full = Cardinality(s) = ChunkSize]
    BY <1>2 DEF SweepList
  <2>3. \A a \in s : a \in Attachment /\ Doomed(a, proc[MessageOf[a]], sweep.at)
    BY <2>2, <1>k, ChunkKnown, ExpiredDoomed
  <2>4. PICK full : full = (Cardinality(s) = ChunkSize)
    OBVIOUS
  <2>5. CASE sweep' = [sweep EXCEPT !.pc = "audit"]
    BY <2>1, <2>5, <1>k, <1>s DEF SweepState
  <2>6. CASE sweep' = [sweep EXCEPT !.pc = "purge", !.batch = s, !.full = full]
    <3>1. sweep'.pc = "purge" /\ sweep'.batch = s /\ sweep'.cur = sweep.cur /\ sweep'.at = sweep.at
      BY <2>6, <1>k DEF SweepState
    <3> QED BY <3>1, <2>1, <2>3, <1>0, <1>k, SweepQuiet DEF SweepFit
  <2> QED BY <2>2, <2>4, <2>5, <2>6
<1>3. CASE \E a \in Attachment : PurgeCheck(a)
  <2>1. PICK a \in Attachment : PurgeCheck(a)
    BY <1>3
  <2>2. /\ a \in sweep.batch /\ sweep.pc = "purge" /\ UNCHANGED <<links, attachments, objects>>
        /\ \/ ~AttachmentHeld(a) /\ sweep' = [sweep EXCEPT !.pc = "object", !.cur = {a}, !.batch = @ \ {a}]
           \/ sweep' = [sweep EXCEPT !.batch = @ \ {a}]
    BY <2>1 DEF PurgeCheck, PurgeAllowed, SweepAt, dbVars
  <2>3. CASE sweep' = [sweep EXCEPT !.batch = @ \ {a}]
    BY <2>2, <2>3, <1>k, <1>s DEF SweepState
  <2>4. CASE ~AttachmentHeld(a) /\ sweep' = [sweep EXCEPT !.pc = "object", !.cur = {a}, !.batch = @ \ {a}]
    <3>1. /\ sweep'.pc = "object" /\ sweep'.cur = {a} /\ sweep'.at = sweep.at
          /\ sweep'.batch \subseteq sweep.batch
      BY <2>4, <1>k DEF SweepState
    <3>2. AttachmentHeld(a)' <=> AttachmentHeld(a)
      BY <2>2 DEF AttachmentHeld, LinkExists
    <3>3. a \notin protected'
      BY <3>2, <2>4 DEF Observe
    <3> QED BY <3>1, <3>3, <2>2, <1>0, <1>k, SweepQuiet DEF SweepFit
  <2> QED BY <2>2, <2>3, <2>4
<1>4. CASE \E a \in Attachment : PurgeCheckFails(a)
  <2>1. PICK a \in Attachment : PurgeCheckFails(a)
    BY <1>4
  <2>2. /\ sweep' = [sweep EXCEPT !.batch = @ \ {a}] /\ sweep.pc = "purge"
        /\ UNCHANGED <<attachments, objects>>
    BY <2>1 DEF PurgeCheckFails, SweepAt, dbVars
  <2> QED BY <2>2, <1>k, <1>s DEF SweepState
<1>5. CASE \E a \in Attachment : PurgeObject(a)
  <2>1. PICK a \in Attachment : PurgeObject(a)
    BY <1>5
  <2>2. /\ sweep.pc = "object" /\ sweep.cur = {a} /\ objects' = objects \ {a}
        /\ sweep' = [sweep EXCEPT !.pc = "rows"] /\ UNCHANGED attachments
    BY <2>1 DEF PurgeObject, SweepAt, Purging, dbVars
  <2>3. /\ sweep'.pc = "rows" /\ sweep'.cur = {a} /\ sweep'.batch = sweep.batch
        /\ sweep'.at = sweep.at
    BY <2>2, <1>k DEF SweepState
  <2>4. SweepFit(sweep', proc, objects', protected', now)
    BY <2>2, <2>3, <1>k DEF SweepFit
  <2>5. MessageOf[a] \in Message /\ Doomed(a, proc[MessageOf[a]], sweep.at) /\ sweep.at <= now
    BY <2>2, <1>k, PersistenceAssumption DEF SweepFit
  <2>6. /\ proc[MessageOf[a]].expires <= proc[MessageOf[a]].until
        /\ proc[MessageOf[a]].expires \in Nat /\ proc[MessageOf[a]].until \in Nat
    BY <2>5, CallKnown DEF ProcShape, ProcState
  <2>7. ~(proc[MessageOf[a]].expires > now)
    BY <2>5, <2>6, <1>k DEF Doomed
  <2>8. BytesFit(a, proc[MessageOf[a]], objects', leaked, attachments[a], now)
    BY <2>2, <2>5, <2>7, <1>k DEF BytesFit, Doomed, Unwritten
  <2>9. \A b \in Attachment \ {a} :
          BytesFit(b, proc[MessageOf[b]], objects', leaked, attachments[b], now)
    BY <2>2, <1>k DEF BytesFit
  <2> QED BY <2>2, <2>4, <2>8, <2>9, <1>0 DEF BytesInv
<1>6. CASE \E a \in Attachment : PurgeRows(a)
  <2>1. PICK a \in Attachment : PurgeRows(a)
    BY <1>6
  <2>2. /\ sweep.pc = "rows" /\ sweep.cur = {a} /\ UNCHANGED objects
        /\ sweep' = [sweep EXCEPT !.pc = "purge", !.cur = {}]
        /\ attachments' = [attachments EXCEPT ![a] = NoRow]
    BY <2>1 DEF PurgeRows, DeleteAttachment, SweepAt, Purging
  <2>3. /\ sweep'.pc = "purge" /\ sweep'.cur = {} /\ sweep'.batch = sweep.batch
        /\ sweep'.at = sweep.at
    BY <2>2, <1>k DEF SweepState
  <2>4. SweepFit(sweep', proc, objects', protected', now)
    BY <2>2, <2>3, <1>k DEF SweepFit
  <2>5. a \notin objects
    BY <2>2, <1>k DEF SweepFit
  <2>6. \A b \in Attachment :
          BytesFit(b, proc[MessageOf[b]], objects, leaked, attachments'[b], now)
    BY <2>2, <2>5, <1>k DEF BytesFit
  <2> QED BY <2>2, <2>4, <2>6, <1>0 DEF BytesInv
<1>7. CASE \E a \in Attachment : PurgeObjectFails(a) \/ PurgeRowsRefused(a)
  <2>1. sweep' = [sweep EXCEPT !.pc = "purge", !.cur = {}] /\ UNCHANGED <<attachments, objects>>
    BY <1>7 DEF PurgeObjectFails, PurgeRowsRefused, dbVars
  <2> QED BY <2>1, <1>k, <1>s DEF SweepState
<1>8. CASE SweepChunkDone
  <2>1. PICK pc \in {"list", "audit"} : sweep' = [sweep EXCEPT !.pc = pc, !.full = FALSE]
    BY <1>8 DEF SweepChunkDone
  <2>2. UNCHANGED <<attachments, objects>>
    BY <1>8 DEF SweepChunkDone, dbVars
  <2> QED BY <2>1, <2>2, <1>k, <1>s DEF SweepState
<1>9. CASE SweepAudit \/ SweepListFails \/ (SweepCancelled /\ UNCHANGED <<dbVars, objects>>)
  <2>1. sweep' = SweepIdle /\ UNCHANGED <<attachments, objects>>
    BY <1>9 DEF SweepAudit, SweepListFails, SweepCancelled, dbVars
  <2> QED BY <2>1, <1>i DEF SweepIdle
<1> QED BY <1>0, <1>1, <1>2, <1>3, <1>4, <1>5, <1>6, <1>7, <1>8, <1>9 DEF SweepStep

(* Requests and the clock move no bytes; a crash abandons the uploads of    *)
(* every call in flight.                                                    *)
LEMMA BytesStep ==
  ASSUME RowInv, BytesInv, [Next]_vars
  PROVE  BytesInv'
<1>k. /\ sweep \in SweepState /\ sweep.at \in Nat /\ now \in Nat
      /\ sweep.batch \subseteq Attachment /\ sweep.cur \subseteq Attachment
      /\ objects \in SUBSET Attachment /\ attachments \in [Attachment -> Nat]
      /\ \A a \in Attachment : BytesFit(a, proc[MessageOf[a]], objects, leaked, attachments[a], now)
      /\ SweepFit(sweep, proc, objects, protected, now)
  BY BytesKnown
<1>1. CASE UNCHANGED vars
  BY <1>1, <1>k DEF vars, dbVars, pipelineVars, BytesInv
<1>2. CASE Tick /\ Observe
  <2>1. UNCHANGED <<proc, leaked, attachments, objects, sweep>> /\ now' = now + 1
    BY <1>2 DEF Tick, dbVars, pipelineVars
  <2>2. SweepFit(sweep', proc, objects, protected', now')
    BY <1>2, <1>k, <2>1, SweepWaits
  <2>3. \A m \in Message : proc[m].expires \in Nat
    BY CallKnown DEF ProcState
  <2>4. ASSUME NEW a \in Attachment
        PROVE  BytesFit(a, proc[MessageOf[a]], objects, leaked, attachments[a], now')
    <3>1. proc[MessageOf[a]].expires \in Nat
      BY <2>3, PersistenceAssumption
    <3>2. proc[MessageOf[a]].expires > now + 1 => proc[MessageOf[a]].expires > now
      BY <3>1, <1>k
    <3> QED BY <1>k, <2>1, <3>2 DEF BytesFit
  <2> QED BY <2>1, <2>2, <2>4 DEF BytesInv
<1>3. CASE (DownloadSteps \/ OperatorSteps) /\ Observe
  <2>1. UNCHANGED <<now, proc, leaked, attachments, objects, sweep>>
    BY <1>3, RequestEffect
  <2>2. SweepFit(sweep', proc, objects, protected', now')
    BY <1>3, <1>k, <2>1, SweepWaits
  <2> QED BY <1>k, <2>1, <2>2 DEF BytesInv
<1>4. CASE Crash /\ Observe
  <2>1. /\ UNCHANGED <<now, attachments, objects>> /\ sweep' = SweepIdle
        /\ leaked' = leaked \cup {a \in Attachment : a \in proc[MessageOf[a]].done}
        /\ \A m \in Message : proc'[m] = Crashed(proc[m])
    BY <1>4 DEF Crash, PipelineCrash, Crashed, dbVars
  <2>2. SweepFit(sweep', proc', objects, protected', now)
    BY <2>1, <1>k DEF SweepFit, SweepIdle
  <2>3. ASSUME NEW a \in Attachment
        PROVE  BytesFit(a, proc'[MessageOf[a]], objects, leaked', attachments[a], now)
    <3>1. MessageOf[a] \in Message
      BY PersistenceAssumption
    <3>2. PICK j, k : j = proc[MessageOf[a]] /\ k = proc'[MessageOf[a]]
      OBVIOUS
    <3>3. /\ j.pc \notin InFlight => k = j
          /\ j.pc \in InFlight => k.pc = "crashed" /\ k.done = {}
          /\ j.pc \in Phase /\ BytesFit(a, j, objects, leaked, attachments[a], now)
      BY <1>k, <2>1, <3>1, <3>2, CallKnown, CrashedCall DEF ProcState
    <3>4. a \in leaked' <=> a \in leaked \/ a \in j.done
      BY <2>1, <3>2
    <3>5. CASE j.pc \in InFlight
      BY <3>2, <3>3, <3>4, <3>5 DEF BytesFit, InFlight
    <3>6. CASE j.pc \notin InFlight
      BY <3>2, <3>3, <3>4, <3>6 DEF BytesFit, InFlight
    <3> QED BY <3>5, <3>6
  <2> QED BY <2>1, <2>2, <2>3 DEF BytesInv
<1>5. CASE PipelineSteps /\ Observe
  <2>1. PipelineRest
    BY <1>5 DEF PipelineSteps, PipelineRest
  <2> QED BY <1>5, <2>1, UploadBytes, WriteBytes, EndBytes DEF PipelineSteps, PipelineNext
<1> QED BY <1>1, <1>2, <1>3, <1>4, <1>5, SweepBytes DEF Next

(* Nothing is stored at first.                                              *)
LEMMA BytesInit ==
  ASSUME Init
  PROVE  BytesInv
<1>1. /\ objects = {} /\ sweep = SweepIdle /\ now = 1
      /\ \A a \in Attachment : proc[MessageOf[a]] = Idle
  BY PersistenceAssumption DEF Init, PersistenceInit, PipelineInit, RetentionInit
<1>2. \A a \in Attachment : BytesFit(a, Idle, {}, leaked, attachments[a], 1)
  BY DEF BytesFit, Idle
<1>3. SweepFit(SweepIdle, proc, {}, protected, 1)
  BY DEF SweepFit, SweepIdle
<1> QED BY <1>1, <1>2, <1>3 DEF BytesInv

(* The second layer holds of every run.                                     *)
LEMMA BytesAlways == Spec => []BytesInv
<1>1. RowInv /\ BytesInv /\ [Next]_vars => BytesInv'
  BY BytesStep
<1> QED BY <1>1, BytesInit, RowsAlways, PTL DEF Spec

(* Retention and compensation never orphan an object: bytes without a row   *)
(* belong to an upload in flight or were given up by a failed rollback or a *)
(* crash, whatever sweeps, purges and deliveries interleave.                *)
THEOREM NoOrphans == Spec => []NoOrphanObject
<1>1. ASSUME RowInv, BytesInv PROVE NoOrphanObject
  <2>1. ASSUME NEW a \in objects
        PROVE  AttachmentExists(a) \/ a \in leaked
                 \/ (proc[MessageOf[a]].pc \in InFlight /\ a \in proc[MessageOf[a]].done)
    <3>1. a \in Attachment /\ BytesFit(a, proc[MessageOf[a]], objects, leaked, attachments[a], now)
      BY <1>1, BytesKnown
    <3>2. proc[MessageOf[a]].pc \in Phase
      BY <1>1, <3>1, CallKnown, PersistenceAssumption DEF ProcState
    <3> QED BY <3>1, <3>2 DEF BytesFit, Phase, InFlight, AttachmentExists
  <2> QED BY <2>1 DEF NoOrphanObject
<1> QED BY <1>1, RowsAlways, BytesAlways, PTL

(* A link that is active and unexpired after its message was delivered      *)
(* leads to a stored object: the retention clamp of resolveParams outlasts  *)
(* every link, and neither sweeps nor rollbacks of other messages reach it. *)
THEOREM NoDeadLinks == Spec => []NoDeadLink
<1>1. ASSUME RowInv, BytesInv PROVE NoDeadLink
  <2>1. ASSUME NEW l \in Link, proc[MessageOf[l[1]]].pc = "delivered",
               links[l].status = "active", links[l].expires > now
        PROVE  l[1] \in objects
    <3>1. l[1] \in Attachment
      BY DEF Link
    <3>2. LinkFits(proc[MessageOf[l[1]]], attachments[l[1]], links[l])
      BY <1>1, TablesKnown DEF Rows
    <3>3. BytesFit(l[1], proc[MessageOf[l[1]]], objects, leaked, attachments[l[1]], now)
      BY <1>1, <3>1, BytesKnown
    <3> QED BY <2>1, <3>2, <3>3 DEF LinkFits, BytesFit
  <2> QED BY <2>1 DEF NoDeadLink
<1> QED BY <1>1, RowsAlways, BytesAlways, PTL

(* A hold set before the sweeper's re-check keeps the bytes in every step.  *)
LEMMA HeldBytesStep ==
  ASSUME RowInv, BytesInv, [Next]_vars, NEW a \in protected \cap objects,
         AttachmentHeld(a), ~At(MessageOf[a], "rollback")
  PROVE  a \in objects'
<1>1. CASE UNCHANGED vars \/ Tick \/ Crash
  BY <1>1 DEF vars, Tick, Crash
<1>2. CASE DownloadSteps \/ OperatorSteps
  BY <1>2, RequestEffect
<1>3. CASE SweepSteps
  <2>1. CASE \E b \in Attachment : PurgeObject(b)
    <3>1. PICK b \in Attachment : PurgeObject(b)
      BY <2>1
    <3>2. sweep.pc = "object" /\ sweep.cur = {b} /\ objects' = objects \ {b}
      BY <3>1 DEF PurgeObject, SweepAt, Purging
    <3>3. b \notin protected
      BY <3>2, BytesKnown DEF SweepFit
    <3> QED BY <3>2, <3>3
  <2> QED BY <1>3, <2>1, SweepEffect DEF SweepSteps
<1>4. CASE PipelineSteps
  <2>0. PICK m \in Message :
          \/ objects \subseteq objects'
          \/ \E b \in Attachment : RollbackObject(m, b)
    BY ZenonT(30), <1>4 DEF PipelineSteps, PipelineNext, Begin, Upload, UploadFails, ResolveLinks, WriteMessage,
                WriteAttachment, StartLinkLoop, WriteLink, WritePackage, ProcessFails, Deliver,
                RollbackObjectFails, PurgeMessage, PurgeSkipped
  <2>1. CASE \E b \in Attachment : RollbackObject(m, b)
    <3>1. PICK b \in Attachment : RollbackObject(m, b)
      BY <2>1
    <3>2. proc[m].pc = "rollback" /\ b \in proc[m].done /\ objects' = objects \ {b}
      BY <3>1 DEF RollbackObject, At
    <3>3. MessageOf[b] = m
      BY <3>2, CallKnown DEF ProcShape, AttachmentsOf
    <3> QED BY <3>2, <3>3 DEF At
  <2> QED BY <2>0, <2>1
<1> QED BY <1>1, <1>2, <1>3, <1>4 DEF Next

(* ATR-259: no sweep deletes the bytes of an attachment whose hold it could *)
(* have seen; only the rollback of a message that was never delivered does. *)
THEOREM HeldBytesKept == Spec => HeldBytesSurvive
<1>1. RowInv /\ BytesInv /\ [Next]_vars =>
        [\A a \in protected \cap objects :
           AttachmentHeld(a) /\ ~At(MessageOf[a], "rollback") => a \in objects']_vars
  BY HeldBytesStep
<1> QED BY <1>1, RowsAlways, BytesAlways, PTL DEF Spec, HeldBytesSurvive

-----------------------------------------------------------------------------
(* The third layer: downloads charged and downloads served.                *)

(* Every charge is on the row while there is one, was made for the first    *)
(* recipient of a delivered message, and covers the requests in service and *)
(* the responses streamed.                                                  *)
GrantFits(l, k, row, charged, streamed, busy) ==
  /\ charged # 0 => k.pc = "delivered" /\ l[2] = FirstRecipient
  /\ row.status # "none" =>
       charged = row.downloads /\ (row.max = 0 \/ row.downloads <= row.max)
  /\ IsFiniteSet(busy) /\ streamed + Cardinality(busy) <= charged

GrantInv ==
  \A l \in Link :
    GrantFits(l, proc[MessageOf[l[1]]], links[l], granted[l], served[l], InService(l))

(* What the third layer's steps start from.                                 *)
LEMMA GrantKnown ==
  ASSUME RowInv, GrantInv, NEW l \in Link
  PROVE  /\ MessageOf[l[1]] \in Message /\ links[l] \in LinkRow
         /\ granted[l] \in Nat /\ served[l] \in Nat
         /\ GrantFits(l, proc[MessageOf[l[1]]], links[l], granted[l], served[l], InService(l))
         /\ IsFiniteSet(InService(l)) /\ Cardinality(InService(l)) \in Nat
<1>1. MessageOf[l[1]] \in Message
  BY PersistenceAssumption DEF Link
<1>2. GrantFits(l, proc[MessageOf[l[1]]], links[l], granted[l], served[l], InService(l))
  BY DEF GrantInv
<1>3. IsFiniteSet(InService(l))
  BY <1>2 DEF GrantFits
<1> QED BY <1>1, <1>2, <1>3, TablesKnown, RequestsKnown, FS_CardinalityType

(* A step that charges and serves nothing keeps the budget if delivered     *)
(* messages stay so and a row keeps its budget and its counter, goes, or    *)
(* appears before anything was charged; requests may leave the service.     *)
LEMMA GrantStays ==
  ASSUME RowInv, GrantInv, UNCHANGED <<granted, served>>,
         NEW l \in Link, InService(l)' \subseteq InService(l),
         proc[MessageOf[l[1]]].pc = "delivered" => proc'[MessageOf[l[1]]].pc = "delivered",
         \/ links'[l].status = "none"
         \/ /\ links[l].status # "none"
            /\ links'[l].downloads = links[l].downloads /\ links'[l].max = links[l].max
         \/ /\ proc[MessageOf[l[1]]].pc # "delivered"
            /\ links'[l].downloads = 0 /\ links'[l].max \in Nat
  PROVE  GrantFits(l, proc'[MessageOf[l[1]]], links'[l], granted'[l], served'[l], InService(l)')
<1>k. /\ granted[l] \in Nat /\ served[l] \in Nat
      /\ GrantFits(l, proc[MessageOf[l[1]]], links[l], granted[l], served[l], InService(l))
      /\ IsFiniteSet(InService(l)) /\ Cardinality(InService(l)) \in Nat
  BY GrantKnown
<1>1. PICK busy : busy = InService(l)'
  OBVIOUS
<1>2. /\ IsFiniteSet(busy) /\ Cardinality(busy) <= Cardinality(InService(l))
      /\ Cardinality(busy) \in Nat
  BY <1>1, <1>k, FS_Subset, FS_CardinalityType
<1>3. served[l] + Cardinality(busy) <= granted[l]
  BY <1>2, <1>k DEF GrantFits
<1>4. links'[l].status # "none" =>
        granted[l] = links'[l].downloads /\ (links'[l].max = 0 \/ links'[l].downloads <= links'[l].max)
  BY <1>k DEF GrantFits
<1>5. granted[l] # 0 => proc'[MessageOf[l[1]]].pc = "delivered" /\ l[2] = FirstRecipient
  BY <1>k DEF GrantFits
<1>6. GrantFits(l, proc'[MessageOf[l[1]]], links'[l], granted[l], served[l], busy)
  BY <1>2, <1>3, <1>4, <1>5 DEF GrantFits
<1> QED BY <1>1, <1>6

(* A delivered message stays delivered: no step of any call takes it back.  *)
LEMMA DeliveredStays ==
  ASSUME RowInv, PipelineSteps, NEW n \in Message, proc[n].pc = "delivered"
  PROVE  proc'[n] = proc[n]
<1>1. proc \in [Message -> ProcState]
  BY CallKnown
<1>2. PICK m \in Message : /\ proc[m].pc # "delivered"
                           /\ \A p \in Message \ {m} : proc'[p] = proc[p]
  <2>0. PICK m \in Message :
          \/ \E p \in PolicyParams : Begin(m, p)
          \/ \E a \in Attachment : Upload(m, a)
          \/ \E a \in Attachment, stored \in BOOLEAN : UploadFails(m, a, stored)
          \/ ResolveLinks(m) \/ WriteMessage(m)
          \/ \E a \in Attachment : WriteAttachment(m, a)
          \/ StartLinkLoop(m)
          \/ \E a \in Attachment : WriteLink(m, a)
          \/ WritePackage(m) \/ ProcessFails(m) \/ Deliver(m)
          \/ \E a \in Attachment : RollbackObject(m, a)
          \/ \E a \in Attachment : RollbackObjectFails(m, a)
          \/ PurgeMessage(m) \/ PurgeSkipped(m)
    BY DEF PipelineSteps, PipelineNext
  <2>1. proc[m].pc # "delivered"
    BY <2>0 DEF At, Begin, Upload, UploadFails, ResolveLinks, WriteMessage, WriteAttachment,
                StartLinkLoop, WriteLink, WritePackage, ProcessFails, Deliver, RollbackObject,
                RollbackObjectFails, PurgeMessage, PurgeSkipped
  <2>2. ASSUME NEW p \in Message \ {m} PROVE proc'[p] = proc[p]
    BY <1>1, <2>0 DEF Begin, Upload, UploadFails, ResolveLinks, WriteMessage, WriteAttachment,
                StartLinkLoop, WriteLink, WritePackage, ProcessFails, Deliver, RollbackObject,
                RollbackObjectFails, PurgeMessage, PurgeSkipped
  <2> QED BY <2>1, <2>2
<1> QED BY <1>2

(* Where the requests stay, so does the service.                            *)
LEMMA ServiceStays ==
  ASSUME NEW l, UNCHANGED dl
  PROVE  InService(l)' = InService(l)
BY DEF InService

(* The pipeline: a new link row starts with a counter of zero, and only     *)
(* before its message is delivered.                                         *)
LEMMA GrantPipeline ==
  ASSUME RowInv, GrantInv, PipelineSteps
  PROVE  GrantInv'
<1>0. dl' = dl /\ UNCHANGED <<granted, served>>
  BY DEF PipelineSteps, engineVars
<1>1. PICK m \in Message :
        \/ UNCHANGED dbVars
        \/ WriteMessage(m) \/ \E a \in Attachment : WriteAttachment(m, a)
        \/ \E a \in Attachment : WriteLink(m, a)
        \/ WritePackage(m) \/ PurgeMessage(m)
  BY PipelineEffect
<1> SUFFICES ASSUME NEW l \in Link
             PROVE  GrantFits(l, proc'[MessageOf[l[1]]], links'[l], granted'[l], served'[l], InService(l)')
  BY DEF GrantInv
<1>2. proc[MessageOf[l[1]]].pc = "delivered" => proc'[MessageOf[l[1]]].pc = "delivered"
  BY DeliveredStays, GrantKnown
<1>3. InService(l)' \subseteq InService(l)
  BY <1>0, ServiceStays
<1>k. links[l] \in LinkRow
  BY GrantKnown
<1>4. CASE links' = links
  BY <1>0, <1>2, <1>3, <1>4, GrantStays
<1>5. CASE \E a \in Attachment : WriteLink(m, a)
  <2>1. PICK a \in Attachment : WriteLink(m, a)
    BY <1>5
  <2>2. PICK row, n : /\ row = [status |-> "active", expires |-> proc[m].expires,
                                max |-> proc[m].max, downloads |-> 0, hold |-> FALSE]
                      /\ n = <<a, NextRecipient(proc[m].rcpts)>>
    OBVIOUS
  <2>3. /\ links' = [links EXCEPT ![n] = row] /\ proc[m].pc = "links"
        /\ a \in proc[m].todo
    BY <2>1, <2>2 DEF WriteLink, CreateLink, At
  <2>4. row.downloads = 0 /\ row.max \in Nat /\ MessageOf[n[1]] = m
    BY <2>2, <2>3, CallKnown DEF ProcState, ProcShape, AttachmentsOf
  <2>5. CASE l = n
    <3>1. links'[l] = row /\ proc[MessageOf[l[1]]].pc # "delivered"
      BY <2>3, <2>4, <2>5, TablesKnown
    <3> QED BY <3>1, <2>4, <1>0, <1>2, <1>3, GrantStays
  <2>6. CASE l # n
    <3>1. links'[l] = links[l]
      BY <2>3, <2>6, TablesKnown
    <3> QED BY <3>1, <1>0, <1>2, <1>3, GrantStays
  <2> QED BY <2>5, <2>6
<1>6. CASE PurgeMessage(m)
  <2>1. links'[l] = NoLink \/ links'[l] = links[l]
    BY <1>6 DEF PurgeMessage, DeleteMessage
  <2>2. NoLink.status = "none"
    BY DEF NoLink
  <2> QED BY <2>1, <2>2, <1>0, <1>2, <1>3, GrantStays
<1> QED BY <1>1, <1>4, <1>5, <1>6 DEF dbVars, WriteMessage, CreateMessage, WriteAttachment,
                                      CreateAttachment, WritePackage, CreateMessageLink

(* The sweeper expires or deletes rows.                                     *)
LEMMA GrantSweep ==
  ASSUME RowInv, GrantInv, SweepSteps
  PROVE  GrantInv'
<1>0. /\ dl' = dl /\ proc' = proc /\ UNCHANGED <<granted, served>>
      /\ SweepStep \/ SweepListFails \/ (SweepCancelled /\ UNCHANGED <<dbVars, objects>>)
  BY DEF SweepSteps, engineVars, pipelineVars
<1> SUFFICES ASSUME NEW l \in Link
             PROVE  GrantFits(l, proc'[MessageOf[l[1]]], links'[l], granted'[l], served'[l], InService(l)')
  BY DEF GrantInv
<1>3. InService(l)' \subseteq InService(l)
  BY <1>0, ServiceStays
<1>k. links[l] \in LinkRow
  BY GrantKnown
<1>4. CASE UNCHANGED dbVars
  BY <1>0, <1>3, <1>4, GrantStays DEF dbVars
<1>5. CASE ExpireStaleLinks(now)
  <2>1. links'[l] = IF links[l].status = "active" /\ links[l].expires < now
                      THEN [links[l] EXCEPT !.status = "expired"] ELSE links[l]
    BY <1>5 DEF ExpireStaleLinks
  <2>2. /\ links'[l].downloads = links[l].downloads /\ links'[l].max = links[l].max
        /\ links[l].status = "none" => links'[l].status = "none"
    BY <2>1, <1>k DEF LinkRow
  <2> QED BY <2>2, <1>0, <1>3, GrantStays
<1>6. CASE \E a \in Attachment : PurgeRows(a)
  <2>1. links'[l] = NoLink \/ links'[l] = links[l]
    BY <1>6 DEF PurgeRows, DeleteAttachment
  <2>2. NoLink.status = "none"
    BY DEF NoLink
  <2> QED BY <2>1, <2>2, <1>0, <1>3, GrantStays
<1> QED BY <1>0, <1>4, <1>5, <1>6, SweepEffect

(* Operators change statuses and holds, never a counter.                    *)
LEMMA GrantOperator ==
  ASSUME RowInv, GrantInv, OperatorSteps
  PROVE  GrantInv'
<1>0. dl' = dl /\ proc' = proc /\ UNCHANGED <<granted, served>>
  BY DEF OperatorSteps, dlVars, pipelineVars
<1>1. \/ UNCHANGED dbVars
      \/ \E n : RevokeLink(n)
      \/ \E n, hold : SetHoldRow(n, hold)
      \/ \E m : RevokeLinksByMessage(m)
  BY DEF OperatorSteps, OperatorStep, RevokeRead, RevokeWrite, SetHoldRead, SetHoldWrite,
         RevokeMessages, RevokeList, RevokeCascade, RevokeReturn, OperatorAborted
<1> SUFFICES ASSUME NEW l \in Link
             PROVE  GrantFits(l, proc'[MessageOf[l[1]]], links'[l], granted'[l], served'[l], InService(l)')
  BY DEF GrantInv
<1>3. InService(l)' \subseteq InService(l)
  BY <1>0, ServiceStays
<1>k. links[l] \in LinkRow /\ links \in [Link -> LinkRow]
  BY GrantKnown, TablesKnown
<1>e. links[l].status = "none" => links'[l].status = "none"
  BY RequestEffect
<1>4. links'[l].downloads = links[l].downloads /\ links'[l].max = links[l].max
  <2>1. CASE UNCHANGED dbVars
    BY <2>1 DEF dbVars
  <2>2. CASE \E n : RevokeLink(n)
    BY <2>2, <1>k DEF RevokeLink, LinkRow
  <2>3. CASE \E n, hold : SetHoldRow(n, hold)
    BY <2>3, <1>k DEF SetHoldRow, LinkRow
  <2>4. CASE \E m : RevokeLinksByMessage(m)
    <3>1. links'[l] = links[l] \/ links'[l] = [links[l] EXCEPT !.status = "revoked"]
      BY <2>4 DEF RevokeLinksByMessage
    <3> QED BY <3>1, <1>k DEF LinkRow
  <2> QED BY <1>1, <2>1, <2>2, <2>3, <2>4
<1> QED BY <1>0, <1>3, <1>4, <1>e, GrantStays

(* The charge: the row's counter, the history and the service grow by one   *)
(* together, in the one statement that checks the budget.                   *)
LEMMA GrantRegister ==
  ASSUME RowInv, GrantInv, NEW d \in Downloader, Register(d), UNCHANGED proc
  PROVE  GrantInv'
<1>k. /\ dl \in [Downloader -> DownloadState] /\ dl[d] \in DownloadState
      /\ DownloadFits(dl[d], proc) /\ links \in [Link -> LinkRow]
      /\ granted \in [Link -> Nat] /\ served \in [Link -> Nat]
  BY RequestsKnown, TablesKnown
<1>1. PICK l : l = dl[d].link
  OBVIOUS
<1>2. /\ dl[d].pc = "register" /\ Downloadable(l, dl[d].at)
      /\ links' = [links EXCEPT ![l].downloads = @ + 1]
      /\ granted' = [granted EXCEPT ![l] = @ + 1]
      /\ dl' = [dl EXCEPT ![d].pc = "reload"] /\ served' = served
  BY <1>1 DEF Register, RegisterDownloadByID, Goto
<1>3. l \in Link /\ proc[MessageOf[l[1]]].pc = "delivered" /\ l[2] = FirstRecipient
  BY <1>1, <1>2, <1>k DEF DownloadFits
<1>4. \A n \in Link \ {l} : links'[n] = links[n] /\ granted'[n] = granted[n]
  BY <1>2, <1>k
<1>5. granted'[l] = granted[l] + 1
  BY <1>2, <1>3, <1>k
<1>6. /\ links'[l].downloads = links[l].downloads + 1 /\ links'[l].max = links[l].max
      /\ links'[l].status = links[l].status /\ links[l] \in LinkRow
  BY <1>2, <1>3, <1>k DEF LinkRow
<1>7. /\ InService(l)' = InService(l) \cup {d} /\ d \notin InService(l)
      /\ \A n \in Link \ {l} : InService(n)' = InService(n)
  <2>1. /\ dl'[d].pc = "reload" /\ dl'[d].link = l
        /\ \A e \in Downloader \ {d} : dl'[e] = dl[e]
    BY <1>1, <1>2, <1>k DEF DownloadState
  <2>2. d \notin InService(l) /\ \A n : d \notin InService(n)
    BY <1>2 DEF InService
  <2>3. InService(l)' = InService(l) \cup {d}
    BY <2>1 DEF InService
  <2>4. ASSUME NEW n \in Link \ {l} PROVE InService(n)' = InService(n)
    BY <2>1, <2>2 DEF InService
  <2> QED BY <2>2, <2>3, <2>4
<1>8. ASSUME NEW n \in Link
      PROVE  GrantFits(n, proc'[MessageOf[n[1]]], links'[n], granted'[n], served'[n], InService(n)')
  <2>1. GrantFits(n, proc[MessageOf[n[1]]], links[n], granted[n], served[n], InService(n))
    BY GrantKnown
  <2>2. CASE n # l
    BY <1>2, <1>4, <1>7, <2>1, <2>2
  <2>3. CASE n = l
    <3>1. /\ granted[l] \in Nat /\ served[l] \in Nat /\ IsFiniteSet(InService(l))
          /\ Cardinality(InService(l)) \in Nat
      BY <1>3, GrantKnown
    <3>2. PICK busy : busy = InService(l)'
      OBVIOUS
    <3>3. IsFiniteSet(busy) /\ Cardinality(busy) = Cardinality(InService(l)) + 1
      BY <3>1, <3>2, <1>7, FS_AddElement
    <3>4. served[l] + Cardinality(busy) <= granted[l] + 1
      BY <2>1, <2>3, <3>1, <3>3 DEF GrantFits
    <3>5. /\ granted[l] = links[l].downloads
          /\ links[l].max = 0 \/ links[l].downloads < links[l].max
          /\ links[l].downloads \in Nat /\ links[l].max \in Nat
      BY <1>2, <1>6, <2>1, <2>3 DEF GrantFits, Downloadable, LinkRow
    <3>6. GrantFits(l, proc[MessageOf[l[1]]], links'[l], granted[l] + 1, served[l], busy)
      BY <1>3, <1>6, <3>3, <3>4, <3>5 DEF GrantFits
    <3> QED BY <1>2, <1>5, <2>3, <3>2, <3>6
  <2> QED BY <2>2, <2>3
<1> QED BY <1>8 DEF GrantInv

(* A response: the request leaves the service, and counts as served if the  *)
(* bytes were there.                                                        *)
LEMMA GrantServe ==
  ASSUME RowInv, GrantInv, NEW d \in Downloader, GetObject(d), UNCHANGED proc
  PROVE  GrantInv'
<1>k. /\ dl \in [Downloader -> DownloadState] /\ dl[d] \in DownloadState
      /\ DownloadFits(dl[d], proc)
      /\ granted \in [Link -> Nat] /\ served \in [Link -> Nat]
  BY RequestsKnown
<1>1. PICK l : l = dl[d].link
  OBVIOUS
<1>2. /\ dl[d].pc = "object" /\ dl' = [dl EXCEPT ![d] = DownloadIdle]
      /\ links' = links /\ granted' = granted
      /\ served' = served \/ served' = [served EXCEPT ![l] = @ + 1]
  BY <1>1 DEF GetObject, Denied, dbVars
<1>3. l \in Link
  BY <1>1, <1>2, <1>k DEF DownloadFits
<1>4. /\ InService(l)' = InService(l) \ {d} /\ d \in InService(l)
      /\ \A n \in Link \ {l} : InService(n)' = InService(n)
  <2>1. /\ dl'[d].pc = "idle" /\ \A e \in Downloader \ {d} : dl'[e] = dl[e]
    BY <1>2, <1>k DEF DownloadIdle
  <2>2. d \in InService(l) /\ \A n \in Link \ {l} : d \notin InService(n)
    BY <1>1, <1>2 DEF InService
  <2>3. InService(l)' = InService(l) \ {d}
    BY <2>1 DEF InService
  <2>4. ASSUME NEW n \in Link \ {l} PROVE InService(n)' = InService(n)
    BY <2>1, <2>2 DEF InService
  <2> QED BY <2>2, <2>3, <2>4
<1>5. ASSUME NEW n \in Link
      PROVE  GrantFits(n, proc'[MessageOf[n[1]]], links'[n], granted'[n], served'[n], InService(n)')
  <2>1. GrantFits(n, proc[MessageOf[n[1]]], links[n], granted[n], served[n], InService(n))
    BY GrantKnown
  <2>2. CASE n # l
    <3>1. served'[n] = served[n]
      BY <1>2, <2>2, <1>k
    <3> QED BY <1>2, <1>4, <2>1, <2>2, <3>1
  <2>3. CASE n = l
    <3>1. /\ granted[l] \in Nat /\ served[l] \in Nat /\ IsFiniteSet(InService(l))
          /\ Cardinality(InService(l)) \in Nat
      BY <1>3, GrantKnown
    <3>2. PICK busy : busy = InService(l)'
      OBVIOUS
    <3>3. IsFiniteSet(busy) /\ Cardinality(busy) = Cardinality(InService(l)) - 1
      BY <3>1, <3>2, <1>4, FS_RemoveElement
    <3>4. served'[l] \in {served[l], served[l] + 1}
      BY <1>2, <1>3, <1>k
    <3>5. served'[l] + Cardinality(busy) <= granted[l]
      BY <2>1, <2>3, <3>1, <3>3, <3>4 DEF GrantFits
    <3>6. GrantFits(l, proc[MessageOf[l[1]]], links[l], granted[l], served'[l], busy)
      BY <2>1, <2>3, <3>3, <3>5 DEF GrantFits
    <3> QED BY <1>2, <2>3, <3>2, <3>6
  <2> QED BY <2>2, <2>3
<1> QED BY <1>5 DEF GrantInv

(* Every other step of a request: it starts, goes on, or ends.              *)
LEMMA GrantDownload ==
  ASSUME RowInv, GrantInv, DownloadSteps
  PROVE  GrantInv'
<1>0. PICK d \in Downloader : DownloadStep(d) \/ \E p \in Published, l \in Link : ResolvePackage(d, p, l)
  BY DEF DownloadSteps
<1>p. proc' = proc
  BY DEF DownloadSteps, pipelineVars
<1>k. dl \in [Downloader -> DownloadState] /\ dl[d] \in DownloadState
  BY RequestsKnown
<1>1. ASSUME UNCHANGED <<links, granted, served>>, NEW k, dl' = [dl EXCEPT ![d] = k],
             k.pc \in {"reload", "attachment", "object"} =>
               k.link = dl[d].link /\ dl[d].pc \in {"reload", "attachment", "object"}
      PROVE  GrantInv'
  <2>1. dl'[d] = k /\ \A e \in Downloader \ {d} : dl'[e] = dl[e]
    BY <1>1, <1>k
  <2>2. \A l \in Link : InService(l)' \subseteq InService(l)
    BY <1>1, <2>1 DEF InService
  <2>3. ASSUME NEW l \in Link
        PROVE  GrantFits(l, proc'[MessageOf[l[1]]], links'[l], granted'[l], served'[l], InService(l)')
    BY <1>1, <1>p, <2>2, GrantStays
  <2> QED BY <2>3 DEF GrantInv
<1>i. ASSUME UNCHANGED <<links, granted, served>>, Denied(d)
      PROVE  GrantInv'
  BY <1>i, <1>1 DEF Denied, DownloadIdle
<1>2. CASE \E p \in Published, l \in Link : ResolvePackage(d, p, l)
  <2>1. PICK p \in Published, l \in Link : ResolvePackage(d, p, l)
    BY <1>2
  <2>2. PICK k : k = [DownloadIdle EXCEPT !.pc = "lookup", !.pkg = p, !.link = l]
    OBVIOUS
  <2>3. k.pc = "lookup"
    BY <2>2 DEF DownloadIdle
  <2>4. dl' = [dl EXCEPT ![d] = k] /\ UNCHANGED <<links, granted, served>>
    BY <2>1, <2>2 DEF ResolvePackage, dbVars
  <2> QED BY <2>3, <2>4, <1>1
<1>3. CASE Lookup(d)
  <2>1. CASE Denied(d)
    BY <2>1, <1>3, <1>i DEF Lookup, dbVars
  <2>2. CASE dl' = [dl EXCEPT ![d].pc = "register", ![d].at = now]
    <3>1. PICK k : k = [dl[d] EXCEPT !.pc = "register", !.at = now]
      OBVIOUS
    <3>2. k.pc = "register" /\ dl' = [dl EXCEPT ![d] = k]
      BY <2>2, <3>1, <1>k DEF DownloadState
    <3> QED BY <3>2, <1>3, <1>1 DEF Lookup, dbVars
  <2> QED BY <1>3, <2>1, <2>2 DEF Lookup
<1>4. CASE RegisterRefused(d) \/ DownloadAborted(d)
  BY <1>4, <1>i DEF RegisterRefused, DownloadAborted, dbVars
<1>5. CASE Reload(d) \/ GetAttachment(d)
  <2>1. UNCHANGED <<links, granted, served>> /\ dl[d].pc \in {"reload", "attachment"}
    BY <1>5 DEF Reload, GetAttachment, dbVars
  <2>2. CASE Denied(d)
    BY <2>1, <2>2, <1>i
  <2>3. CASE \E pc : Goto(d, pc)
    <3>1. PICK pc : dl' = [dl EXCEPT ![d].pc = pc]
      BY <2>3 DEF Goto
    <3>2. PICK k : k = [dl[d] EXCEPT !.pc = pc]
      OBVIOUS
    <3>3. k.link = dl[d].link /\ dl' = [dl EXCEPT ![d] = k]
      BY <3>1, <3>2, <1>k DEF DownloadState
    <3> QED BY <2>1, <3>3, <1>1
  <2> QED BY <1>5, <2>2, <2>3 DEF Reload, GetAttachment
<1> QED BY <1>0, <1>p, <1>2, <1>3, <1>4, <1>5, GrantRegister, GrantServe DEF DownloadStep

(* The clock leaves the requests alone, a crash ends them all.              *)
LEMMA GrantStep ==
  ASSUME RowInv, GrantInv, [Next]_vars
  PROVE  GrantInv'
<1>1. CASE UNCHANGED vars \/ Tick
  <2>1. UNCHANGED <<proc, links, granted, served, dl>>
    BY <1>1 DEF vars, dbVars, pipelineVars, engineVars, Tick
  <2>2. ASSUME NEW l \in Link
        PROVE  GrantFits(l, proc'[MessageOf[l[1]]], links'[l], granted'[l], served'[l], InService(l)')
    BY <2>1, ServiceStays, GrantStays
  <2> QED BY <2>2 DEF GrantInv
<1>2. CASE Crash
  <2>1. /\ UNCHANGED <<links, granted, served>> /\ dl' = [d \in Downloader |-> DownloadIdle]
        /\ \A m \in Message : proc'[m] = Crashed(proc[m])
    BY <1>2 DEF Crash, PipelineCrash, Crashed, dbVars
  <2>2. ASSUME NEW l \in Link
        PROVE  GrantFits(l, proc'[MessageOf[l[1]]], links'[l], granted'[l], served'[l], InService(l)')
    <3>1. InService(l)' \subseteq InService(l)
      BY <2>1 DEF InService, DownloadIdle
    <3>2. proc[MessageOf[l[1]]].pc = "delivered" => proc'[MessageOf[l[1]]].pc = "delivered"
      BY <2>1, GrantKnown DEF Crashed, InFlight
    <3> QED BY <2>1, <3>1, <3>2, GrantStays
  <2> QED BY <2>2 DEF GrantInv
<1> QED BY <1>1, <1>2, GrantPipeline, GrantSweep, GrantDownload, GrantOperator DEF Next

(* No link exists yet and nothing was granted.                              *)
LEMMA GrantInit ==
  ASSUME Init
  PROVE  GrantInv
<1>1. ASSUME NEW l \in Link
      PROVE  GrantFits(l, proc[MessageOf[l[1]]], links[l], granted[l], served[l], InService(l))
  <2>1. granted[l] = 0 /\ served[l] = 0 /\ links[l].status = "none"
    BY DEF Init, EngineInit, PersistenceInit, NoLink
  <2>2. InService(l) = {}
    BY DEF Init, EngineInit, InService, DownloadIdle
  <2>3. IsFiniteSet({}) /\ Cardinality({}) = 0
    BY FS_EmptySet
  <2>4. GrantFits(l, proc[MessageOf[l[1]]], links[l], granted[l], served[l], {})
    BY <2>1, <2>3 DEF GrantFits
  <2> QED BY <2>2, <2>4
<1> QED BY <1>1 DEF GrantInv

(* The third layer holds of every run.                                      *)
LEMMA GrantAlways == Spec => []GrantInv
<1>1. RowInv /\ GrantInv /\ [Next]_vars => GrantInv'
  BY GrantStep
<1> QED BY <1>1, GrantInit, RowsAlways, PTL DEF Spec

(* A link never grants more downloads than its budget, and every response   *)
(* that streams bytes has been charged, however many requests race.         *)
THEOREM BudgetKept == Spec => []DownloadBudget
<1>1. ASSUME RowInv, GrantInv PROVE DownloadBudget
  BY <1>1, GrantKnown DEF DownloadBudget, GrantFits, LinkExists
<1> QED BY <1>1, RowsAlways, GrantAlways, PTL

(* No request spends another recipient's budget: only the first recipient's *)
(* package token is ever mailed, and it opens only that recipient's links.  *)
THEOREM BudgetsIsolated == Spec => []BudgetIsolation
<1>1. ASSUME RowInv, GrantInv PROVE BudgetIsolation
  BY <1>1, GrantKnown DEF BudgetIsolation, GrantFits
<1> QED BY <1>1, RowsAlways, GrantAlways, PTL

-----------------------------------------------------------------------------
(* The fourth layer: what a revoke has covered.                            *)

(* A link, or a package page, that its message's call k has yet to write.   *)
LinkDue(k, l) ==
  \/ k.pc \in Unwritten \cup {"attachments"}
  \/ k.pc = "links" /\ l[2] \in k.rcpts /\ (l[2] = NextRecipient(k.rcpts) => l[1] \in k.todo)

PackageDue(k, p) ==
  \/ k.pc \in Unwritten \cup {"attachments"}
  \/ k.pc = "links" /\ p[2] \in k.rcpts

(* A row is not revoked before it is written, and never comes back after.   *)
CutFits(x, due, row, covered) ==
  /\ due => row.status = "none" /\ x \notin covered
  /\ x \in covered => row.status \in {"none", "revoked"}

CutInv ==
  /\ \A l \in Link : CutFits(l, LinkDue(proc[MessageOf[l[1]]], l), links[l], cut)
  /\ \A p \in Package : CutFits(p, PackageDue(proc[p[1]], p), packages[p], cut)

(* Links and package pages are rows of different tables.                    *)
LEMMA TablesApart ==
  ASSUME NEW l \in Link, NEW p \in Package
  PROVE  l # p
BY PersistenceAssumption DEF Link, Package

(* A row that keeps its status, goes, or stops being active keeps the       *)
(* promise, if its call does not come to write it again.                    *)
LEMMA CutStays ==
  ASSUME NEW x, NEW due \in BOOLEAN, NEW due2 \in BOOLEAN, NEW row, NEW row2, NEW covered,
         CutFits(x, due, row, covered), due2 => due,
         row2.status \in {row.status, "none"} \/ row.status = "active"
  PROVE  CutFits(x, due2, row2, covered)
BY DEF CutFits

(* A call that has every row still to write, or none any more.              *)
LEMMA CutCall ==
  ASSUME RowInv, CutInv, NEW m \in Message, UNCHANGED cut,
         \A n \in Message \ {m} : proc'[n] = proc[n],
         \/ proc[m].pc \in Unwritten \cup {"attachments"}
         \/ proc'[m].pc \notin Unwritten \cup {"attachments", "links"},
         \A l \in Link : links'[l].status \in {links[l].status, "none"},
         \A p \in Package : packages'[p].status \in {packages[p].status, "none"}
  PROVE  CutInv'
<1>1. ASSUME NEW l \in Link
      PROVE  CutFits(l, LinkDue(proc'[MessageOf[l[1]]], l), links'[l], cut)
  <2>1. MessageOf[l[1]] \in Message
    BY PersistenceAssumption DEF Link
  <2>2. LinkDue(proc'[MessageOf[l[1]]], l) => LinkDue(proc[MessageOf[l[1]]], l)
    BY <2>1 DEF LinkDue
  <2> QED BY <2>2 DEF CutInv, CutFits
<1>2. ASSUME NEW p \in Package
      PROVE  CutFits(p, PackageDue(proc'[p[1]], p), packages'[p], cut)
  <2>1. p[1] \in Message
    BY DEF Package
  <2>2. PackageDue(proc'[p[1]], p) => PackageDue(proc[p[1]], p)
    BY <2>1 DEF PackageDue
  <2> QED BY <2>2 DEF CutInv, CutFits
<1> QED BY <1>1, <1>2 DEF CutInv

(* A link row is written when it is due, and is due no more.                *)
LEMMA CutWriteLink ==
  ASSUME RowInv, CutInv, UNCHANGED cut, NEW m \in Message, NEW a \in Attachment, WriteLink(m, a)
  PROVE  CutInv'
<1>k. /\ TypeOK /\ proc \in [Message -> ProcState] /\ proc[m] \in ProcState
      /\ ProcShape(m, proc[m]) /\ links \in [Link -> LinkRow]
  BY CallKnown, TablesKnown
<1>1. PICK k : Becomes(m, k) /\ k = [proc[m] EXCEPT !.todo = @ \ {a}]
  BY <1>k, WriteLinkCall
<1>2. PICK row, n : /\ row = [status |-> "active", expires |-> proc[m].expires,
                              max |-> proc[m].max, downloads |-> 0, hold |-> FALSE]
                    /\ n = <<a, NextRecipient(proc[m].rcpts)>>
  OBVIOUS
<1>3. /\ links' = [links EXCEPT ![n] = row] /\ packages' = packages
      /\ proc[m].pc = "links" /\ a \in proc[m].todo
  BY <1>2 DEF WriteLink, CreateLink, At
<1>4. /\ k.pc = "links" /\ k.rcpts = proc[m].rcpts /\ k.todo = proc[m].todo \ {a}
      /\ proc'[m] = k /\ \A q \in Message \ {m} : proc'[q] = proc[q]
  BY <1>1, <1>3, <1>k DEF ProcState, Becomes
<1>5. proc[m].rcpts \in SUBSET Recipient /\ NextRecipient(proc[m].rcpts) \in proc[m].rcpts
  BY <1>3, <1>k, NextIsLeft DEF ProcState, ProcShape
<1>6. n \in Link /\ MessageOf[n[1]] = m /\ n[1] = a /\ n[2] = NextRecipient(proc[m].rcpts)
  BY <1>2, <1>3, <1>5, <1>k DEF Link, ProcShape, AttachmentsOf
<1>7. n \notin cut /\ ~LinkDue(proc'[m], n)
  <2>1. LinkDue(proc[m], n)
    BY <1>3, <1>5, <1>6 DEF LinkDue
  <2>2. n \notin cut
    BY <1>6, <2>1 DEF CutInv, CutFits
  <2>3. ~LinkDue(proc'[m], n)
    BY <1>4, <1>6 DEF LinkDue, Unwritten
  <2> QED BY <2>2, <2>3
<1>8. ASSUME NEW l \in Link
      PROVE  CutFits(l, LinkDue(proc'[MessageOf[l[1]]], l), links'[l], cut)
  <2>1. CASE l = n
    BY <1>6, <1>7, <2>1 DEF CutFits
  <2>2. CASE l # n
    <3>1. MessageOf[l[1]] \in Message /\ links'[l] = links[l]
      BY <1>3, <2>2, <1>k, PersistenceAssumption DEF Link
    <3>2. LinkDue(proc'[MessageOf[l[1]]], l) => LinkDue(proc[MessageOf[l[1]]], l)
      BY <1>3, <1>4, <3>1 DEF LinkDue, Unwritten
    <3> QED BY <3>1, <3>2 DEF CutInv, CutFits
  <2> QED BY <2>1, <2>2
<1>9. ASSUME NEW p \in Package
      PROVE  CutFits(p, PackageDue(proc'[p[1]], p), packages'[p], cut)
  <2>1. p[1] \in Message
    BY DEF Package
  <2>2. PackageDue(proc'[p[1]], p) => PackageDue(proc[p[1]], p)
    BY <1>3, <1>4, <2>1 DEF PackageDue, Unwritten
  <2> QED BY <1>3, <2>2 DEF CutInv, CutFits
<1> QED BY <1>8, <1>9 DEF CutInv

(* So is a package page, after which the next recipient's links are due.    *)
LEMMA CutWritePackage ==
  ASSUME RowInv, CutInv, UNCHANGED cut, NEW m \in Message, WritePackage(m)
  PROVE  CutInv'
<1>k. /\ TypeOK /\ proc \in [Message -> ProcState] /\ proc[m] \in ProcState
      /\ ProcShape(m, proc[m]) /\ packages \in [Package -> PackageRow]
  BY CallKnown, TablesKnown
<1>1. PICK k, rest :
        /\ Becomes(m, k) /\ rest = proc[m].rcpts \ {NextRecipient(proc[m].rcpts)}
        /\ k = [proc[m] EXCEPT !.rcpts = rest,
                               !.todo = IF rest = {} THEN {} ELSE AttachmentsOf(m),
                               !.pc = IF rest = {} THEN "rewrite" ELSE "links"]
  BY <1>k, WritePackageCall
<1>2. PICK row, n : /\ row = [status |-> "active", expires |-> proc[m].expires]
                    /\ n = <<m, NextRecipient(proc[m].rcpts)>>
  OBVIOUS
<1>3. /\ packages' = [packages EXCEPT ![n] = row] /\ links' = links /\ proc[m].pc = "links"
  BY <1>2 DEF WritePackage, CreateMessageLink, At
<1>4. /\ k.pc \in {"links", "rewrite"} /\ k.rcpts = rest
      /\ proc'[m] = k /\ \A q \in Message \ {m} : proc'[q] = proc[q]
  BY <1>1, <1>3, <1>k DEF ProcState, Becomes
<1>5. proc[m].rcpts \in SUBSET Recipient /\ NextRecipient(proc[m].rcpts) \in proc[m].rcpts
  BY <1>3, <1>k, NextIsLeft DEF ProcState, ProcShape
<1>6. n \in Package /\ n[1] = m /\ n[2] = NextRecipient(proc[m].rcpts)
  BY <1>2, <1>5 DEF Package
<1>7. n \notin cut /\ ~PackageDue(proc'[m], n)
  <2>1. PackageDue(proc[m], n)
    BY <1>3, <1>5, <1>6 DEF PackageDue
  <2>2. n \notin cut
    BY <1>6, <2>1 DEF CutInv, CutFits
  <2>3. ~PackageDue(proc'[m], n)
    BY <1>1, <1>4, <1>6 DEF PackageDue, Unwritten
  <2> QED BY <2>2, <2>3
<1>8. ASSUME NEW p \in Package
      PROVE  CutFits(p, PackageDue(proc'[p[1]], p), packages'[p], cut)
  <2>1. CASE p = n
    BY <1>6, <1>7, <2>1 DEF CutFits
  <2>2. CASE p # n
    <3>1. p[1] \in Message /\ packages'[p] = packages[p]
      BY <1>3, <2>2, <1>k DEF Package
    <3>2. PackageDue(proc'[p[1]], p) => PackageDue(proc[p[1]], p)
      BY <1>1, <1>3, <1>4, <3>1 DEF PackageDue, Unwritten
    <3> QED BY <3>1, <3>2 DEF CutInv, CutFits
  <2> QED BY <2>1, <2>2
<1>9. ASSUME NEW l \in Link
      PROVE  CutFits(l, LinkDue(proc'[MessageOf[l[1]]], l), links'[l], cut)
  <2>1. MessageOf[l[1]] \in Message
    BY PersistenceAssumption DEF Link
  <2>2. LinkDue(proc'[MessageOf[l[1]]], l) => LinkDue(proc[MessageOf[l[1]]], l)
    BY ZenonT(30), <1>1, <1>3, <1>4, <2>1 DEF LinkDue, Unwritten
  <2> QED BY <1>3, <2>2 DEF CutInv, CutFits
<1> QED BY <1>8, <1>9 DEF CutInv

(* The pipeline's other steps write no link and no page.                    *)
LEMMA CutPipeline ==
  ASSUME RowInv, CutInv, PipelineSteps
  PROVE  CutInv'
<1>c. cut' = cut
  BY DEF PipelineSteps, engineVars
<1>t. /\ proc \in [Message -> ProcState]
      /\ links \in [Link -> LinkRow] /\ packages \in [Package -> PackageRow]
  BY TablesKnown DEF RowInv, TypeOK, PipelineTypeOK
<1>0. PICK m \in Message :
        \/ \E p \in PolicyParams : Begin(m, p)
        \/ \E a \in Attachment : Upload(m, a)
        \/ \E a \in Attachment, stored \in BOOLEAN : UploadFails(m, a, stored)
        \/ ResolveLinks(m) \/ WriteMessage(m)
        \/ \E a \in Attachment : WriteAttachment(m, a)
        \/ StartLinkLoop(m)
        \/ \E a \in Attachment : WriteLink(m, a)
        \/ WritePackage(m) \/ ProcessFails(m) \/ Deliver(m)
        \/ \E a \in Attachment : RollbackObject(m, a)
        \/ \E a \in Attachment : RollbackObjectFails(m, a)
        \/ PurgeMessage(m) \/ PurgeSkipped(m)
  BY DEF PipelineSteps, PipelineNext
<1>1. CASE \/ \E p \in PolicyParams : Begin(m, p)
           \/ \E a \in Attachment : Upload(m, a)
           \/ \E a \in Attachment, stored \in BOOLEAN : UploadFails(m, a, stored)
           \/ ResolveLinks(m) \/ WriteMessage(m)
           \/ \E a \in Attachment : WriteAttachment(m, a)
           \/ StartLinkLoop(m)
  <2>1. proc[m].pc \in Unwritten \cup {"attachments"} /\ UNCHANGED <<links, packages>>
    BY <1>1 DEF At, Unwritten, dbVars, Begin, Upload, UploadFails, ResolveLinks, WriteMessage,
                CreateMessage, WriteAttachment, CreateAttachment, StartLinkLoop
  <2>2. \A n \in Message \ {m} : proc'[n] = proc[n]
    BY <1>1, <1>t DEF Begin, Upload, UploadFails, ResolveLinks, WriteMessage, WriteAttachment,
                      StartLinkLoop
  <2> QED BY <1>c, <2>1, <2>2, CutCall
<1>2. CASE \/ ProcessFails(m) \/ Deliver(m)
           \/ \E a \in Attachment : RollbackObject(m, a)
           \/ \E a \in Attachment : RollbackObjectFails(m, a)
           \/ PurgeMessage(m) \/ PurgeSkipped(m)
  <2>1. proc'[m].pc \in {"rollback", "delivered", "failed"}
    BY <1>2, <1>t DEF At, ProcState, ProcessFails, Deliver, RollbackObject, RollbackObjectFails,
                      PurgeMessage, PurgeSkipped
  <2>2. \A n \in Message \ {m} : proc'[n] = proc[n]
    BY <1>2, <1>t DEF ProcessFails, Deliver, RollbackObject, RollbackObjectFails, PurgeMessage,
                      PurgeSkipped
  <2>3. UNCHANGED <<links, packages>> \/ DeleteMessage(m)
    BY <1>2 DEF dbVars, ProcessFails, Deliver, RollbackObject, RollbackObjectFails, PurgeMessage,
                PurgeSkipped
  <2>4. /\ \A l \in Link : links'[l] = links[l] \/ links'[l] = NoLink
        /\ \A p \in Package : packages'[p] = packages[p] \/ packages'[p] = NoPackage
    BY <2>3 DEF DeleteMessage
  <2>5. NoLink.status = "none" /\ NoPackage.status = "none"
    BY DEF NoLink, NoPackage
  <2>6. proc'[m].pc \notin Unwritten \cup {"attachments", "links"}
    BY <2>1 DEF Unwritten
  <2>7. /\ \A l \in Link : links'[l].status \in {links[l].status, "none"}
        /\ \A p \in Package : packages'[p].status \in {packages[p].status, "none"}
    BY <2>4, <2>5
  <2> QED BY <1>c, <2>2, <2>6, <2>7, CutCall
<1> QED BY <1>0, <1>1, <1>2, <1>c, CutWriteLink, CutWritePackage

(* Steps of the sweeper, of a download and of the clock: a status only      *)
(* leaves active, or goes with its row.                                     *)
LEMMA CutElsewhere ==
  ASSUME CutInv, UNCHANGED <<proc, cut, packages>>,
         \A l \in Link : links'[l].status \in {links[l].status, "none"} \/ links[l].status = "active"
  PROVE  CutInv'
BY DEF CutInv, CutFits

(* The sweeper takes rows away; it makes no link and no package active.     *)
LEMMA CutSweep ==
  ASSUME RowInv, CutInv, SweepSteps
  PROVE  CutInv'
<1>0. /\ UNCHANGED <<proc, cut>>
      /\ SweepStep \/ SweepListFails \/ (SweepCancelled /\ UNCHANGED <<dbVars, objects>>)
  BY DEF SweepSteps, engineVars, pipelineVars
<1>1. CASE UNCHANGED dbVars
  BY <1>0, <1>1, CutElsewhere DEF dbVars
<1>2. CASE ExpireStaleLinks(now)
  <2>1. \A l \in Link : links'[l] = links[l] \/ links[l].status = "active"
    BY <1>2 DEF ExpireStaleLinks
  <2> QED BY <1>0, <1>2, <2>1, CutElsewhere DEF ExpireStaleLinks
<1>3. CASE \E a \in Attachment : PurgeRows(a)
  <2>1. \A l \in Link : links'[l] = links[l] \/ links'[l] = NoLink
    BY <1>3 DEF PurgeRows, DeleteAttachment
  <2>2. NoLink.status = "none" /\ packages' = packages
    BY <1>3 DEF NoLink, PurgeRows, DeleteAttachment
  <2> QED BY <1>0, <2>1, <2>2, CutElsewhere
<1> QED BY <1>0, <1>1, <1>2, <1>3, SweepEffect

(* A download counts against a link, but leaves every status as it was.     *)
LEMMA CutDownload ==
  ASSUME RowInv, CutInv, DownloadSteps
  PROVE  CutInv'
<1>0. UNCHANGED <<proc, cut>>
  BY DEF DownloadSteps, opVars, pipelineVars
<1>1. UNCHANGED <<dbVars, objects>> \/ \E d \in Downloader : Register(d)
  BY DEF DownloadSteps, DownloadStep, ResolvePackage, Lookup, RegisterRefused, Reload,
         GetAttachment, GetObject, DownloadAborted
<1>2. CASE UNCHANGED <<dbVars, objects>>
  BY <1>0, <1>2, CutElsewhere DEF dbVars
<1>3. CASE \E d \in Downloader : Register(d)
  <2>1. PICK l : links' = [links EXCEPT ![l].downloads = @ + 1] /\ packages' = packages
    BY <1>3 DEF Register, RegisterDownloadByID
  <2>2. \A n \in Link : links'[n].status = links[n].status
    BY <2>1, TablesKnown DEF LinkRow
  <2> QED BY <1>0, <2>1, <2>2, CutElsewhere
<1> QED BY <1>1, <1>2, <1>3

(* A revoke covers what it has made revoked.                                *)
LEMMA CutOperator ==
  ASSUME RowInv, CutInv, OperatorSteps
  PROVE  CutInv' /\ cut \subseteq cut'
<1>0. UNCHANGED proc
  BY DEF OperatorSteps, pipelineVars
<1>t. links \in [Link -> LinkRow] /\ packages \in [Package -> PackageRow]
  BY TablesKnown
<1>1. PICK o \in Operator :
        \/ UNCHANGED <<dbVars, cut>>
        \/ LinkExists(op[o].link) /\ RevokeWrite(o)
        \/ cut' = cut /\ \E hold : SetHoldRow(op[o].link, hold)
        \/ RevokeCascade(o)
  BY DEF OperatorSteps, OperatorStep, RevokeRead, RevokeWrite, SetHoldRead, SetHoldWrite,
         RevokeMessages, RevokeList, RevokeReturn, OperatorAborted
<1>2. CASE UNCHANGED <<dbVars, cut>>
  BY <1>0, <1>2, CutElsewhere DEF dbVars
<1>3. CASE cut' = cut /\ \E hold : SetHoldRow(op[o].link, hold)
  <2>1. PICK hold : links' = [links EXCEPT ![op[o].link].hold = hold] /\ packages' = packages
    BY <1>3 DEF SetHoldRow
  <2>2. \A n \in Link : links'[n].status = links[n].status
    BY <2>1, <1>t DEF LinkRow
  <2> QED BY <1>0, <1>3, <2>1, <2>2, CutElsewhere
<1>4. CASE LinkExists(op[o].link) /\ RevokeWrite(o)
  <2>1. PICK l : l = op[o].link
    OBVIOUS
  <2>2. /\ links' = [links EXCEPT ![l].status = "revoked"] /\ packages' = packages
        /\ cut' = cut \cup {l} /\ links[l].status # "none" /\ op[o].pc = "revoke"
    BY <2>1, <1>4 DEF RevokeWrite, RevokeLink, LinkExists
  <2>3. l \in Link
    BY <2>1, <2>2, RequestsKnown DEF OperatorFits
  <2>4. /\ links'[l].status = "revoked" /\ \A n \in Link \ {l} : links'[n] = links[n]
    BY <2>2, <2>3, <1>t DEF LinkRow
  <2>5. ASSUME NEW n \in Link
        PROVE  CutFits(n, LinkDue(proc'[MessageOf[n[1]]], n), links'[n], cut')
    <3>1. CutFits(n, LinkDue(proc[MessageOf[n[1]]], n), links[n], cut)
      BY DEF CutInv
    <3>2. CASE n = l
      BY <1>0, <2>2, <2>4, <3>1, <3>2 DEF CutFits
    <3>3. CASE n # l
      BY <1>0, <2>2, <2>4, <3>1, <3>3 DEF CutFits
    <3> QED BY <3>2, <3>3
  <2>6. ASSUME NEW p \in Package
        PROVE  CutFits(p, PackageDue(proc'[p[1]], p), packages'[p], cut')
    <3>1. CutFits(p, PackageDue(proc[p[1]], p), packages[p], cut) /\ p # l
      BY <2>3, TablesApart DEF CutInv
    <3> QED BY <1>0, <2>2, <3>1 DEF CutFits
  <2> QED BY <2>2, <2>5, <2>6 DEF CutInv
<1>5. CASE RevokeCascade(o)
  <2>1. PICK m : m = op[o].msg
    OBVIOUS
  <2>2. PICK ls, ps : /\ ls = {l \in LinksOf(m) : LinkExists(l) /\ ~links[l].hold}
                      /\ ps = {p \in Package : p[1] = m /\ packages[p].status # "none"}
    OBVIOUS
  <2>3. cut' = cut \cup ls \cup ps /\ RevokeLinksByMessage(m)
    BY <2>1, <2>2, <1>5 DEF RevokeCascade
  <2>4. ASSUME NEW n \in Link
        PROVE  CutFits(n, LinkDue(proc'[MessageOf[n[1]]], n), links'[n], cut')
    <3>1. CutFits(n, LinkDue(proc[MessageOf[n[1]]], n), links[n], cut) /\ n \notin ps
      BY <2>2, TablesApart DEF CutInv
    <3>2. n \in ls <=> MessageOf[n[1]] = m /\ LinkExists(n) /\ ~links[n].hold
      BY <2>2 DEF LinksOf
    <3>3. links'[n] = IF n \in ls THEN [links[n] EXCEPT !.status = "revoked"] ELSE links[n]
      BY <2>3, <3>2 DEF RevokeLinksByMessage
    <3>4. CASE n \in ls
      <4>1. links'[n].status = "revoked" /\ links[n].status # "none"
        BY <3>2, <3>3, <3>4, <1>t DEF LinkRow, LinkExists
      <4> QED BY <1>0, <3>1, <4>1 DEF CutFits
    <3>5. CASE n \notin ls
      BY <1>0, <2>3, <3>1, <3>3, <3>5 DEF CutFits
    <3> QED BY <3>4, <3>5
  <2>5. ASSUME NEW p \in Package
        PROVE  CutFits(p, PackageDue(proc'[p[1]], p), packages'[p], cut')
    <3>1. CutFits(p, PackageDue(proc[p[1]], p), packages[p], cut) /\ p \notin ls
      BY <2>2, TablesApart DEF CutInv, LinksOf
    <3>2. p \in ps <=> p[1] = m /\ packages[p].status # "none"
      BY <2>2
    <3>3. packages'[p] = IF p \in ps THEN [packages[p] EXCEPT !.status = "revoked"] ELSE packages[p]
      BY <2>3, <3>2 DEF RevokeLinksByMessage
    <3>4. CASE p \in ps
      <4>1. packages'[p].status = "revoked" /\ packages[p].status # "none"
        BY <3>2, <3>3, <3>4, <1>t DEF PackageRow
      <4> QED BY <1>0, <3>1, <4>1 DEF CutFits
    <3>5. CASE p \notin ps
      BY <1>0, <2>3, <3>1, <3>3, <3>5 DEF CutFits
    <3> QED BY <3>4, <3>5
  <2> QED BY <2>3, <2>4, <2>5 DEF CutInv
<1> QED BY <1>1, <1>2, <1>3, <1>4, <1>5

(* What is covered stays covered.                                           *)
LEMMA CutStep ==
  ASSUME RowInv, CutInv, [Next]_vars
  PROVE  CutInv' /\ cut \subseteq cut'
<1>1. CASE UNCHANGED vars \/ Tick
  BY <1>1, CutElsewhere DEF vars, dbVars, pipelineVars, engineVars, Tick
<1>2. CASE Crash
  <2>1. /\ UNCHANGED <<links, packages, cut>>
        /\ \A m \in Message : proc'[m] = Crashed(proc[m])
    BY <1>2 DEF Crash, PipelineCrash, Crashed, dbVars
  <2>2. ASSUME NEW m \in Message
        PROVE  proc'[m] = proc[m] \/ proc'[m].pc = "crashed"
    BY <2>1, CallKnown, CrashedCall
  <2>3. ASSUME NEW l \in Link
        PROVE  LinkDue(proc'[MessageOf[l[1]]], l) => LinkDue(proc[MessageOf[l[1]]], l)
    <3>1. MessageOf[l[1]] \in Message
      BY PersistenceAssumption DEF Link
    <3> QED BY <2>2, <3>1 DEF LinkDue, Unwritten
  <2>4. ASSUME NEW p \in Package
        PROVE  PackageDue(proc'[p[1]], p) => PackageDue(proc[p[1]], p)
    BY <2>2 DEF PackageDue, Unwritten, Package
  <2> QED BY <2>1, <2>3, <2>4 DEF CutInv, CutFits
<1>3. CASE PipelineSteps \/ SweepSteps \/ DownloadSteps
  <2>1. cut' = cut
    BY <1>3 DEF PipelineSteps, SweepSteps, DownloadSteps, engineVars, opVars
  <2> QED BY <1>3, <2>1, CutPipeline, CutSweep, CutDownload
<1> QED BY <1>1, <1>2, <1>3, CutOperator DEF Next

(* No operator has cut anything off yet.                                    *)
LEMMA CutInit ==
  ASSUME Init
  PROVE  CutInv
<1>1. /\ cut = {} /\ \A l \in Link : links[l].status = "none"
      /\ \A p \in Package : packages[p].status = "none"
  BY DEF Init, EngineInit, PersistenceInit, NoLink, NoPackage
<1> QED BY <1>1 DEF CutInv, CutFits

(* The fourth layer holds of every run.                                     *)
LEMMA CutAlways == Spec => []CutInv
<1>1. RowInv /\ CutInv /\ [Next]_vars => CutInv'
  BY CutStep
<1> QED BY <1>1, CutInit, RowsAlways, PTL DEF Spec

(* Only the charge moves a counter, and it wants an active link.            *)
LEMMA CutNotCharged ==
  ASSUME RowInv, CutInv, [Next]_vars, NEW l \in Link \cap cut
  PROVE  granted'[l] = granted[l]
<1>1. granted' = granted \/ \E d \in Downloader : Register(d)
  BY DEF Next, vars, engineVars, Tick, Crash, PipelineSteps, SweepSteps, OperatorSteps, dlVars,
         DownloadSteps, DownloadStep, ResolvePackage, Lookup, RegisterRefused, Reload,
         GetAttachment, GetObject, DownloadAborted
<1>2. CASE \E d \in Downloader : Register(d)
  <2>1. PICK d \in Downloader : Register(d)
    BY <1>2
  <2>2. /\ links[dl[d].link].status = "active"
        /\ granted' = [granted EXCEPT ![dl[d].link] = @ + 1]
    BY <2>1 DEF Register, RegisterDownloadByID, Downloadable
  <2>3. dl[d].link # l
    BY <2>2 DEF CutInv, CutFits
  <2> QED BY <2>2, <2>3, RequestsKnown
<1> QED BY <1>1, <1>2

(* Once a revoke was answered with success, no request in flight and no     *)
(* write still to come charges the link or opens the page again.            *)
THEOREM RevokesStand == Spec => RevokedIsFinal
<1>1. ASSUME RowInv, CutInv, [Next]_vars
      PROVE  [/\ \A l \in Link \cap cut : granted'[l] = granted[l]
              /\ \A p \in Package \cap cut : packages'[p].status # "active"]_vars
  <2>1. \A l \in Link \cap cut : granted'[l] = granted[l]
    BY <1>1, CutNotCharged
  <2>2. \A p \in Package \cap cut : packages'[p].status # "active"
    BY <1>1, CutStep DEF CutInv, CutFits
  <2> QED BY <2>1, <2>2
<1>2. RowInv /\ CutInv /\ [Next]_vars =>
        [/\ \A l \in Link \cap cut : granted'[l] = granted[l]
         /\ \A p \in Package \cap cut : packages'[p].status # "active"]_vars
  BY <1>1
<1> QED BY <1>2, RowsAlways, CutAlways, PTL DEF Spec, RevokedIsFinal

=============================================================================
