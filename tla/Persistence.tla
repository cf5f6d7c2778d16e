---------------------------- MODULE Persistence ----------------------------
(***************************************************************************)
(* The state Attachra keeps outside its process: the SQLite metadata       *)
(* tables and the object storage.  Every operator with primes below is one *)
(* committed statement or transaction of internal/core/store/sqlite; the   *)
(* writer pool is a single connection, so these never overlap.  The        *)
(* components that call the store extend this module.                      *)
(*                                                                         *)
(* Row identifiers are random in the code, so a row is named by what it    *)
(* stands for: a link by its (attachment, recipient), a package page by    *)
(* its (message, recipient), a storage object by its attachment.           *)
(***************************************************************************)
EXTENDS Naturals, FiniteSets

CONSTANTS
  Message,      \* messages the policy decides to rewrite
  Attachment,   \* their replaced attachments
  Recipient,    \* the envelope recipients of every message
  MessageOf,    \* the message an attachment belongs to
  MaxTime       \* bound on the clock

ASSUME PersistenceAssumption ==
  /\ MessageOf \in [Attachment -> Message]
  /\ Message \cap Attachment = {}      \* rows of different tables
  /\ MaxTime \in Nat

VARIABLES
  now,          \* the wall clock
  messages,     \* rows of table messages
  attachments,  \* retain_until of each row of table attachments, NoRow if none
  links,        \* rows of table links
  packages,     \* rows of table message_links
  objects       \* attachments whose bytes are in object storage

dbVars == <<messages, attachments, links, packages>>

Link == Attachment \X Recipient
Package == Message \X Recipient
AttachmentsOf(m) == {a \in Attachment : MessageOf[a] = m}
LinksOf(m) == {l \in Link : MessageOf[l[1]] = m}

NoRow == 0
LinkStatus == {"none", "active", "expired", "revoked"}   \* "none": no row
NoLink == [status |-> "none", expires |-> 0, max |-> 0, downloads |-> 0, hold |-> FALSE]
NoPackage == [status |-> "none", expires |-> 0]

LinkRow == [status : LinkStatus, expires : Nat, max : Nat, downloads : Nat, hold : BOOLEAN]
PackageRow == [status : {"none", "active", "revoked"}, expires : Nat]

PersistenceTypeOK ==
  /\ now \in Nat
  /\ messages \in SUBSET Message
  /\ attachments \in [Attachment -> Nat]
  /\ links \in [Link -> LinkRow]
  /\ packages \in [Package -> PackageRow]
  /\ objects \in SUBSET Attachment

PersistenceInit ==
  /\ now = 1
  /\ messages = {}
  /\ attachments = [a \in Attachment |-> NoRow]
  /\ links = [l \in Link |-> NoLink]
  /\ packages = [p \in Package |-> NoPackage]
  /\ objects = {}

LinkExists(l) == links[l].status # "none"
AttachmentExists(a) == attachments[a] # NoRow

(* IsAttachmentHeld: some link of the attachment is under legal hold. *)
AttachmentHeld(a) == \E r \in Recipient : LinkExists(<<a, r>>) /\ links[<<a, r>>].hold
MessageHeld(m) == \E a \in AttachmentsOf(m) : AttachmentHeld(a)

-----------------------------------------------------------------------------
(* Inserts.  The guards are the REFERENCES clauses of the schema, enforced *)
(* by PRAGMA foreign_keys; a refused insert is the caller's failure step.  *)

CreateMessage(m) ==
  /\ messages' = messages \cup {m}
  /\ UNCHANGED <<attachments, links, packages>>

CreateAttachment(a, retainUntil) ==
  /\ MessageOf[a] \in messages
  /\ attachments' = [attachments EXCEPT ![a] = retainUntil]
  /\ UNCHANGED <<messages, links, packages>>

CreateLink(l, expires, max) ==
  /\ MessageOf[l[1]] \in messages
  /\ AttachmentExists(l[1])
  /\ links' = [links EXCEPT ![l] = [status |-> "active", expires |-> expires, max |-> max,
                                    downloads |-> 0, hold |-> FALSE]]
  /\ UNCHANGED <<messages, attachments, packages>>

CreateMessageLink(p, expires) ==
  /\ p[1] \in messages
  /\ packages' = [packages EXCEPT ![p] = [status |-> "active", expires |-> expires]]
  /\ UNCHANGED <<messages, attachments, links>>

-----------------------------------------------------------------------------
(* The guarded UPDATE that charges one download against a link.            *)

DownloadableAnyBudget(l, at) == links[l].status = "active" /\ links[l].expires > at
DownloadableAnyStatus(l, at) ==
  /\ LinkExists(l) /\ links[l].expires > at
  /\ links[l].max = 0 \/ links[l].downloads < links[l].max
Downloadable(l, at) ==
  /\ links[l].status = "active"
  /\ links[l].expires > at
  /\ links[l].max = 0 \/ links[l].downloads < links[l].max

RegisterDownloadByID(l, at) ==
  /\ Downloadable(l, at)
  /\ links' = [links EXCEPT ![l].downloads = @ + 1]
  /\ UNCHANGED <<messages, attachments, packages>>

(* RevokeLink has no hold guard of its own: Engine.Revoke reads hold first. *)
RevokeLink(l) ==
  /\ LinkExists(l)
  /\ links' = [links EXCEPT ![l].status = "revoked"]
  /\ UNCHANGED <<messages, attachments, packages>>

RevokeLinksByMessage(m) ==
  /\ links' = [l \in Link |-> IF MessageOf[l[1]] = m /\ LinkExists(l) /\ ~links[l].hold
                                THEN [links[l] EXCEPT !.status = "revoked"] ELSE links[l]]
  /\ packages' = [p \in Package |-> IF p[1] = m /\ packages[p].status # "none"
                                      THEN [packages[p] EXCEPT !.status = "revoked"]
                                      ELSE packages[p]]
  /\ UNCHANGED <<messages, attachments>>

SetHoldRow(l, hold) ==
  /\ LinkExists(l)
  /\ links' = [links EXCEPT ![l].hold = hold]
  /\ UNCHANGED <<messages, attachments, packages>>

ExpireStaleLinksAndPackages(at) ==
  /\ links' = [l \in Link |-> IF links[l].status = "active" /\ links[l].expires < at
                                THEN [links[l] EXCEPT !.status = "expired"] ELSE links[l]]
  /\ packages' = [p \in Package |-> IF packages[p].status = "active" /\ packages[p].expires < at
                                      THEN [packages[p] EXCEPT !.status = "expired"]
                                      ELSE packages[p]]
  /\ UNCHANGED <<messages, attachments>>
ExpireStaleLinks(at) ==
  /\ links' = [l \in Link |-> IF links[l].status = "active" /\ links[l].expires < at
                                THEN [links[l] EXCEPT !.status = "expired"] ELSE links[l]]
  /\ UNCHANGED <<messages, attachments, packages>>

-----------------------------------------------------------------------------
(* Retention queries and guarded deletes.                                  *)

ExpiredAttachmentsAnyHold(at) ==
  {a \in Attachment : AttachmentExists(a) /\ attachments[a] < at}
ExpiredAttachments(at) ==
  {a \in Attachment : AttachmentExists(a) /\ attachments[a] < at /\ ~AttachmentHeld(a)}

DeleteAttachmentAnyHold(a) ==
  /\ AttachmentExists(a)
  /\ links' = [l \in Link |-> IF l[1] = a /\ ~links[l].hold THEN NoLink ELSE links[l]]
  /\ attachments' = [attachments EXCEPT ![a] = NoRow]
  /\ UNCHANGED <<messages, packages>>
DeleteAttachment(a) ==
  /\ AttachmentExists(a)
  /\ ~AttachmentHeld(a)
  /\ links' = [l \in Link |-> IF l[1] = a THEN NoLink ELSE links[l]]
  /\ attachments' = [attachments EXCEPT ![a] = NoRow]
  /\ UNCHANGED <<messages, packages>>

DeleteMessage(m) ==
  /\ m \in messages
  /\ ~MessageHeld(m)
  /\ links' = [l \in Link |-> IF MessageOf[l[1]] = m THEN NoLink ELSE links[l]]
  /\ packages' = [p \in Package |-> IF p[1] = m THEN NoPackage ELSE packages[p]]
  /\ attachments' = [a \in Attachment |-> IF MessageOf[a] = m THEN NoRow ELSE attachments[a]]
  /\ messages' = messages \ {m}

=============================================================================
