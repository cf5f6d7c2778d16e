------------------------------ MODULE Pipeline ------------------------------
(***************************************************************************)
(* AttachmentProcessor.Process (internal/core/pipeline/processor.go) for a *)
(* message whose policy decision is replace: upload every attachment,      *)
(* write the metadata rows one committed insert at a time                  *)
(* (link.Engine.CreateLinks is not transactional), rewrite the body, and   *)
(* on any failure undo the uploads and purge the rows.  Several messages   *)
(* are in flight at once.                                                  *)
(***************************************************************************)
EXTENDS Persistence

CONSTANTS
  FirstRecipient,     \* env.Recipients[0]: whose package link the body carries
  PolicyParams,       \* ActionParams a matched rule may carry; 0 is an unset field
  DefaultTTL, DefaultRetention, DefaultMax    \* link.Defaults

ASSUME PipelineAssumption ==
  /\ FirstRecipient \in Recipient
  /\ PolicyParams \subseteq [ttl : Nat, retention : Nat, max : Nat]
  /\ DefaultTTL \in Nat \ {0} /\ DefaultRetention \in Nat /\ DefaultMax \in Nat

VARIABLES
  proc,    \* the Process call of each message
  leaked   \* objects Process gave up on without deleting them (history)

pipelineVars == <<proc, leaked>>

(* done: objects uploaded and not rolled back; todo: what is left of the   *)
(* current loop over attachments; rcpts: recipients still to be linked;    *)
(* purge: compensateMetadata.                                              *)
Phase == {"idle", "upload", "message", "attachments", "links", "rewrite",
          "rollback", "delivered", "failed", "crashed"}
InFlight == {"upload", "message", "attachments", "links", "rewrite", "rollback"}
ProcState == [pc : Phase, params : [ttl : Nat, retention : Nat, max : Nat],
              done : SUBSET Attachment, todo : SUBSET Attachment, rcpts : SUBSET Recipient,
              expires : Nat, until : Nat, max : Nat, purge : BOOLEAN]

NoParams == [ttl |-> 0, retention |-> 0, max |-> 0]
Idle == [pc |-> "idle", params |-> NoParams, done |-> {}, todo |-> {}, rcpts |-> {},
         expires |-> 0, until |-> 0, max |-> 0, purge |-> FALSE]

PipelineTypeOK == proc \in [Message -> ProcState] /\ leaked \in SUBSET Attachment
PipelineInit == proc = [m \in Message |-> Idle] /\ leaked = {}

-----------------------------------------------------------------------------
(* resolveParams: unset fields take the configured defaults; retention is  *)
(* raised to the TTL, so that no link outlives the object it points to.    *)

Given(field, default) == IF field = 0 THEN default ELSE field
resolveParamsUnclamped(p) ==
  [ttl |-> Given(p.ttl, DefaultTTL), max |-> Given(p.max, DefaultMax),
   retention |-> Given(p.retention, DefaultRetention)]
resolveParams(p) ==
  LET ttl == Given(p.ttl, DefaultTTL)
      retention == Given(p.retention, DefaultRetention)
  IN  [ttl |-> ttl, max |-> Given(p.max, DefaultMax),
       retention |-> IF retention < ttl THEN ttl ELSE retention]

(* CreateLinks walks env.Recipients in order, the first one first. *)
NextRecipient(rs) == IF FirstRecipient \in rs THEN FirstRecipient ELSE CHOOSE r \in rs : TRUE

At(m, pc) == proc[m].pc = pc

-----------------------------------------------------------------------------
(* Process up to the upload: the policy decided replace with params p.     *)
Begin(m, p) ==
  /\ At(m, "idle")
  /\ AttachmentsOf(m) # {}
  /\ proc' = [proc EXCEPT ![m].pc = "upload", ![m].params = p, ![m].todo = AttachmentsOf(m)]
  /\ UNCHANGED <<dbVars, objects, leaked>>

(* uploadReplaced: one Storage.Put. *)
Upload(m, a) ==
  /\ At(m, "upload") /\ a \in proc[m].todo
  /\ objects' = objects \cup {a}
  /\ proc' = [proc EXCEPT ![m].todo = @ \ {a}, ![m].done = @ \cup {a}]
  /\ UNCHANGED <<dbVars, leaked>>

(* Put fails, or the row id cannot be generated after Put stored the       *)
(* object, which is then not in the uploaded slice the rollback walks.     *)
UploadFails(m, a, stored) ==
  /\ At(m, "upload") /\ a \in proc[m].todo
  /\ objects' = IF stored THEN objects \cup {a} ELSE objects
  /\ leaked' = IF stored THEN leaked \cup {a} ELSE leaked
  /\ proc' = [proc EXCEPT ![m].pc = "rollback"]
  /\ UNCHANGED dbVars

(* CreateLinks: resolve the parameters and read the clock. *)
ResolveLinks(m) ==
  /\ At(m, "upload") /\ proc[m].todo = {}
  /\ LET p == resolveParams(proc[m].params) IN
     proc' = [proc EXCEPT ![m].pc = "message", ![m].purge = TRUE, ![m].max = p.max,
                          ![m].expires = now + p.ttl, ![m].until = now + p.retention]
  /\ UNCHANGED <<dbVars, objects, leaked>>

WriteMessage(m) ==
  /\ At(m, "message")
  /\ CreateMessage(m)
  /\ proc' = [proc EXCEPT ![m].pc = "attachments", ![m].todo = AttachmentsOf(m)]
  /\ UNCHANGED <<objects, leaked>>

WriteAttachment(m, a) ==
  /\ At(m, "attachments") /\ a \in proc[m].todo
  /\ CreateAttachment(a, proc[m].until)
  /\ proc' = [proc EXCEPT ![m].todo = @ \ {a}]
  /\ UNCHANGED <<objects, leaked>>

StartLinkLoop(m) ==
  /\ At(m, "attachments") /\ proc[m].todo = {}
  /\ proc' = [proc EXCEPT ![m].pc = "links", ![m].todo = AttachmentsOf(m), ![m].rcpts = Recipient]
  /\ UNCHANGED <<dbVars, objects, leaked>>

WriteLink(m, a) ==
  /\ At(m, "links") /\ a \in proc[m].todo
  /\ CreateLink(<<a, NextRecipient(proc[m].rcpts)>>, proc[m].expires, proc[m].max)
  /\ proc' = [proc EXCEPT ![m].todo = @ \ {a}]
  /\ UNCHANGED <<objects, leaked>>

(* The recipient's package row, then the next recipient or the rewrite. *)
WritePackage(m) ==
  /\ At(m, "links") /\ proc[m].todo = {}
  /\ LET r == NextRecipient(proc[m].rcpts)
         rest == proc[m].rcpts \ {r}
     IN  /\ CreateMessageLink(<<m, r>>, proc[m].expires)
         /\ proc' = [proc EXCEPT ![m].rcpts = rest,
                                 ![m].todo = IF rest = {} THEN {} ELSE AttachmentsOf(m),
                                 ![m].pc = IF rest = {} THEN "rewrite" ELSE "links"]
  /\ UNCHANGED <<objects, leaked>>

(* Any insert may be refused by the database; packageURLFor and            *)
(* rewrite.Rewrite may fail.                                               *)
ProcessFails(m) ==
  /\ proc[m].pc \in {"message", "attachments", "links", "rewrite"}
  /\ proc' = [proc EXCEPT ![m].pc = "rollback"]
  /\ UNCHANGED <<dbVars, objects, leaked>>

(* Process returns VerdictRewrite: the package token leaves the system. *)
Deliver(m) ==
  /\ At(m, "rewrite")
  /\ proc' = [proc EXCEPT ![m].pc = "delivered", ![m].done = {}]
  /\ UNCHANGED <<dbVars, objects, leaked>>

-----------------------------------------------------------------------------
(* The deferred cleanup: delete every uploaded object (an error is only    *)
(* logged), then, if CreateLinks was reached, LinkEngine.PurgeMessage.     *)

RollbackObject(m, a) ==
  /\ At(m, "rollback") /\ a \in proc[m].done
  /\ objects' = objects \ {a}
  /\ proc' = [proc EXCEPT ![m].done = @ \ {a}]
  /\ UNCHANGED <<dbVars, leaked>>

RollbackObjectFails(m, a) ==
  /\ At(m, "rollback") /\ a \in proc[m].done
  /\ proc' = [proc EXCEPT ![m].done = @ \ {a}]
  /\ leaked' = leaked \cup {a}
  /\ UNCHANGED <<dbVars, objects>>

PurgeMessage(m) ==
  /\ At(m, "rollback") /\ proc[m].done = {} /\ proc[m].purge
  /\ DeleteMessage(m)
  /\ proc' = [proc EXCEPT ![m].pc = "failed"]
  /\ UNCHANGED <<objects, leaked>>

(* No purge was due, or it was refused (held, not found) or failed. *)
PurgeSkipped(m) ==
  /\ At(m, "rollback") /\ proc[m].done = {}
  /\ proc' = [proc EXCEPT ![m].pc = "failed"]
  /\ UNCHANGED <<dbVars, objects, leaked>>

-----------------------------------------------------------------------------
(* The process dies: no deferred cleanup runs.  Uploaded objects whose row *)
(* is not committed yet are reachable from nowhere any more.               *)
PipelineCrash ==
  /\ leaked' = leaked \cup {a \in Attachment : a \in proc[MessageOf[a]].done}
  /\ proc' = [m \in Message |-> IF proc[m].pc \in InFlight
                                  THEN [proc[m] EXCEPT !.pc = "crashed", !.done = {}]
                                  ELSE proc[m]]

PipelineNext ==
  \E m \in Message :
    \/ \E p \in PolicyParams : Begin(m, p)
    \/ \E a \in Attachment : Upload(m, a)
    \/ \E a \in Attachment, stored \in BOOLEAN : UploadFails(m, a, stored)
    \/ ResolveLinks(m)
    \/ WriteMessage(m)
    \/ \E a \in Attachment : WriteAttachment(m, a)
    \/ StartLinkLoop(m)
    \/ \E a \in Attachment : WriteLink(m, a)
    \/ WritePackage(m)
    \/ ProcessFails(m)
    \/ Deliver(m)
    \/ \E a \in Attachment : RollbackObject(m, a)
    \/ \E a \in Attachment : RollbackObjectFails(m, a)
    \/ PurgeMessage(m)
    \/ PurgeSkipped(m)

=============================================================================
