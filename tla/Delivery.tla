------------------------------ MODULE Delivery ------------------------------
(***************************************************************************)
(* Attachra's attachment life cycle: the mail pipeline, the retention      *)
(* sweeper, downloads and operators, all sharing the metadata database and *)
(* the object storage, plus the clock and a process crash.                 *)
(***************************************************************************)
EXTENDS Pipeline, Retention, LinkEngine

CONSTANT MaxCrashes    \* bound on process crashes

ASSUME DeliveryAssumption == MaxCrashes \in Nat

VARIABLES
  crashes,     \* crashes so far
  protected    \* attachments held since before any sweeper re-check now in progress (history)

vars == <<now, dbVars, objects, pipelineVars, sweep, engineVars, crashes, protected>>

(* The types of the tables, the storage and every call in flight; a         *)
(* package page is never expired by status, only by its time.               *)
TypeOK ==
  /\ PersistenceTypeOK /\ PipelineTypeOK /\ RetentionTypeOK /\ EngineTypeOK
  /\ crashes \in Nat
  /\ protected \in SUBSET Attachment

Init ==
  /\ PersistenceInit /\ PipelineInit /\ RetentionInit /\ EngineInit
  /\ crashes = 0
  /\ protected = {}

(* The package tokens that have left the system inside a rewritten body. *)
Published == {p \in Package : proc[p[1]].pc = "delivered" /\ p[2] = FirstRecipient}

Tick ==
  /\ now < MaxTime
  /\ now' = now + 1
  /\ UNCHANGED <<dbVars, objects, pipelineVars, sweep, engineVars, crashes>>

(* The process dies and restarts: memory is lost, database and storage stay. *)
Crash ==
  /\ crashes < MaxCrashes
  /\ crashes' = crashes + 1
  /\ PipelineCrash
  /\ sweep' = SweepIdle
  /\ dl' = [d \in Downloader |-> DownloadIdle]
  /\ op' = [o \in Operator |-> OperatorIdle]
  /\ UNCHANGED <<now, dbVars, objects, granted, served, cut>>

PipelineSteps == PipelineNext /\ UNCHANGED <<now, sweep, engineVars, crashes>>

SweepSteps ==
  /\ SweepStep \/ SweepListFails \/ (SweepCancelled /\ UNCHANGED <<dbVars, objects>>)
  /\ UNCHANGED <<now, pipelineVars, engineVars, crashes>>

DownloadSteps ==
  /\ \E d \in Downloader :
       \/ DownloadStep(d)
       \/ \E p \in Published, l \in Link : ResolvePackage(d, p, l)
  /\ UNCHANGED <<now, pipelineVars, sweep, opVars, crashes>>

OperatorSteps ==
  /\ \E o \in Operator : OperatorStep(o)
  /\ UNCHANGED <<now, pipelineVars, sweep, dlVars, crashes>>

(* The sweeper is past its hold re-check: a hold set now comes too late for *)
(* the bytes.                                                               *)
DeleteUnderWay(a) == sweep.pc = "object" /\ Purging(a)

Observe == protected' = {a \in Attachment : AttachmentHeld(a)' /\
                           (a \in protected \/ ~DeleteUnderWay(a))}

Next ==
  \/ Tick /\ Observe
  \/ Crash /\ Observe
  \/ PipelineSteps /\ Observe
  \/ SweepSteps /\ Observe
  \/ DownloadSteps /\ Observe
  \/ OperatorSteps /\ Observe

Spec == Init /\ [][Next]_vars

-----------------------------------------------------------------------------
(* Properties.                                                             *)

(* No row refers to a missing parent: a link has its attachment, an         *)
(* attachment and a package their message.  DeleteAttachment/DeleteMessage  *)
(* must refuse while a held link remains, whatever interleaves.             *)
RefIntegrity ==
  /\ \A l \in Link : LinkExists(l) => AttachmentExists(l[1])
  /\ \A a \in Attachment : AttachmentExists(a) => MessageOf[a] \in messages
  /\ \A p \in Package : packages[p].status # "none" => p[1] \in messages

(* A link never grants more downloads than its budget, and bytes are only   *)
(* streamed for a charged download, with any number of concurrent           *)
(* requests (RegisterPackageDownload, serveDownload).                       *)
InService(l) == {d \in Downloader : dl[d].link = l /\ dl[d].pc \in {"reload", "attachment", "object"}}
DownloadBudget ==
  \A l \in Link :
    /\ LinkExists(l) /\ links[l].max # 0 => granted[l] <= links[l].max
    /\ served[l] + Cardinality(InService(l)) <= granted[l]

(* Only the first recipient's package token is ever mailed, so no request   *)
(* can spend another recipient's download budget (ATR-237).                 *)
BudgetIsolation == \A l \in Link : granted[l] > 0 => l[2] = FirstRecipient

(* Process's promise: once the rewritten message is out, an active and      *)
(* unexpired link leads to a stored object, through sweeps, rollbacks of    *)
(* other messages and crashes.                                              *)
NoDeadLink ==
  \A l \in Link :
    proc[MessageOf[l[1]]].pc = "delivered" /\ links[l].status = "active" /\ links[l].expires > now
      => l[1] \in objects

(* Retention never orphans an object: bytes without a row belong to an      *)
(* upload in flight or were abandoned by a failed rollback or a crash.      *)
NoOrphanObject ==
  \A a \in objects :
    AttachmentExists(a) \/ a \in leaked
      \/ (proc[MessageOf[a]].pc \in InFlight /\ a \in proc[MessageOf[a]].done)

(* Rows under legal hold are never deleted: not by the sweeper, not by the  *)
(* pipeline's compensation.                                                 *)
HeldRowsSurvive ==
  [][\A l \in Link : LinkExists(l) /\ links[l].hold =>
       /\ LinkExists(l)'
       /\ attachments'[l[1]] = attachments[l[1]]
       /\ MessageOf[l[1]] \in messages']_vars

(* A hold set before the sweeper's re-check keeps the bytes too, not only   *)
(* the rows (ATR-259).  The rollback of a message that was never delivered  *)
(* deletes its uploads whatever the hold, as Process documents.             *)
HeldBytesSurvive ==
  [][\A a \in protected \cap objects :
       AttachmentHeld(a) /\ ~At(MessageOf[a], "rollback") => a \in objects']_vars

(* store.Link's contract: while a link is on hold, Revoke refuses, so its   *)
(* status does not become revoked.  Engine.Revoke reads the hold and then   *)
(* calls RevokeLink, which does not look at it again: this does not hold.   *)
HeldNotRevoked ==
  [][\A l \in Link : links[l].hold /\ links[l].status # "revoked"
       => links'[l].status # "revoked"]_vars

(* Once a revoke has been answered with success, the link's counter never   *)
(* moves again and its package page never resolves again.                   *)
RevokedIsFinal ==
  [][/\ \A l \in Link \cap cut : granted'[l] = granted[l]
     /\ \A p \in Package \cap cut : packages'[p].status # "active"]_vars

=============================================================================
