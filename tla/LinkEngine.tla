----------------------------- MODULE LinkEngine -----------------------------
(***************************************************************************)
(* Requests that reach link.Engine: downloads through the package page     *)
(* (internal/adapters/http/download.go) and the operators' revoke and hold *)
(* calls (REST API and CLI).  Each request runs in its own goroutine and   *)
(* makes several store calls; only each call is atomic.                    *)
(***************************************************************************)
EXTENDS Persistence

CONSTANTS
  Downloader,     \* concurrent download requests
  Operator,       \* concurrent revoke/hold requests
  MaxGrants       \* bound on the charged downloads of one link

ASSUME LinkEngineAssumption == MaxGrants \in Nat

VARIABLES
  dl,        \* download requests
  op,        \* operator requests
  granted,   \* downloads charged to each link, kept past its row (history)
  served,    \* responses that streamed the attachment of each link (history)
  cut        \* links and packages a successful revoke has covered (history)

engineVars == <<dl, op, granted, served, cut>>
dlVars == <<dl, granted, served>>
opVars == <<op, cut>>

(* pkg, link: the token and link id of the URL; at: e.nowText(). *)
DownloadState ==
  [pc : {"idle", "lookup", "register", "reload", "attachment", "object"},
   pkg : Package \cup {<<>>}, link : Link \cup {<<>>}, at : Nat]
DownloadIdle == [pc |-> "idle", pkg |-> <<>>, link |-> <<>>, at |-> 0]

(* todo: messages left to revoke; skipped: held links the listing saw. *)
OperatorState ==
  [pc : {"idle", "revoke", "hold", "list", "cascade"}, link : Link \cup {<<>>},
   hold : BOOLEAN, todo : SUBSET Message, msg : Message \cup {<<>>},
   skipped : SUBSET Link, errHeld : BOOLEAN]
OperatorIdle == [pc |-> "idle", link |-> <<>>, hold |-> FALSE, todo |-> {}, msg |-> <<>>,
                 skipped |-> {}, errHeld |-> FALSE]

EngineTypeOK ==
  /\ dl \in [Downloader -> DownloadState]
  /\ op \in [Operator -> OperatorState]
  /\ granted \in [Link -> Nat] /\ served \in [Link -> Nat]
  /\ cut \in SUBSET (Link \cup Package)

EngineInit ==
  /\ dl = [d \in Downloader |-> DownloadIdle]
  /\ op = [o \in Operator |-> OperatorIdle]
  /\ granted = [l \in Link |-> 0] /\ served = [l \in Link |-> 0]
  /\ cut = {}

Goto(d, pc) == dl' = [dl EXCEPT ![d].pc = pc]
Denied(d) == dl' = [dl EXCEPT ![d] = DownloadIdle]

-----------------------------------------------------------------------------
(* serveDownload.                                                          *)

(* ResolvePackage; a refusal answers not-found and leaves no trace. *)
ResolvePackage(d, p, l) ==
  /\ dl[d].pc = "idle"
  /\ packages[p].status = "active" /\ now < packages[p].expires
  /\ dl' = [dl EXCEPT ![d] = [DownloadIdle EXCEPT !.pc = "lookup", !.pkg = p, !.link = l]]
  /\ UNCHANGED <<dbVars, objects, granted, served>>

(* GetLinkByID and the membership check, then the clock is read. *)
MemberOfMessage(p, l) == LinkExists(l) /\ MessageOf[l[1]] = p[1]
Member(p, l) == LinkExists(l) /\ MessageOf[l[1]] = p[1] /\ l[2] = p[2]
Lookup(d) ==
  /\ dl[d].pc = "lookup"
  /\ IF Member(dl[d].pkg, dl[d].link)
       THEN dl' = [dl EXCEPT ![d].pc = "register", ![d].at = now]
       ELSE Denied(d)
  /\ UNCHANGED <<dbVars, objects, granted, served>>

(* RegisterDownloadByID. *)
Register(d) ==
  LET l == dl[d].link IN
  /\ dl[d].pc = "register" /\ granted[l] < MaxGrants
  /\ RegisterDownloadByID(l, dl[d].at)
  /\ granted' = [granted EXCEPT ![l] = @ + 1]
  /\ Goto(d, "reload")
  /\ UNCHANGED <<objects, served>>

RegisterRefused(d) ==
  /\ dl[d].pc = "register" /\ ~Downloadable(dl[d].link, dl[d].at)
  /\ Denied(d)
  /\ UNCHANGED <<dbVars, objects, granted, served>>

(* The read-back of the charged link, GetAttachment, Storage.Get. *)
Reload(d) ==
  /\ dl[d].pc = "reload"
  /\ IF LinkExists(dl[d].link) THEN Goto(d, "attachment") ELSE Denied(d)
  /\ UNCHANGED <<dbVars, objects, granted, served>>

GetAttachment(d) ==
  /\ dl[d].pc = "attachment"
  /\ IF AttachmentExists(dl[d].link[1]) THEN Goto(d, "object") ELSE Denied(d)
  /\ UNCHANGED <<dbVars, objects, granted, served>>

GetObject(d) ==
  LET l == dl[d].link IN
  /\ dl[d].pc = "object"
  /\ served' = IF l[1] \in objects THEN [served EXCEPT ![l] = @ + 1] ELSE served
  /\ Denied(d)
  /\ UNCHANGED <<dbVars, objects, granted>>

(* A store or storage error, or the client going away, ends the request. *)
DownloadAborted(d) ==
  /\ dl[d].pc # "idle"
  /\ Denied(d)
  /\ UNCHANGED <<dbVars, objects, granted, served>>

DownloadStep(d) ==
  \/ Lookup(d) \/ Register(d) \/ RegisterRefused(d)
  \/ Reload(d) \/ GetAttachment(d) \/ GetObject(d) \/ DownloadAborted(d)

-----------------------------------------------------------------------------
(* Engine.Revoke: the hold is read in one call, the status set in another. *)
RevokeRead(o, l) ==
  /\ op[o].pc = "idle"
  /\ LinkExists(l) /\ ~links[l].hold
  /\ op' = [op EXCEPT ![o] = [OperatorIdle EXCEPT !.pc = "revoke", !.link = l]]
  /\ UNCHANGED <<dbVars, objects, cut>>

RevokeWrite(o) ==
  /\ op[o].pc = "revoke"
  /\ IF LinkExists(op[o].link)
       THEN RevokeLink(op[o].link) /\ cut' = cut \cup {op[o].link}
       ELSE UNCHANGED <<dbVars, cut>>
  /\ op' = [op EXCEPT ![o] = OperatorIdle]
  /\ UNCHANGED objects

(* Engine.SetHold. *)
SetHoldRead(o, l, hold) ==
  /\ op[o].pc = "idle" /\ LinkExists(l)
  /\ op' = [op EXCEPT ![o] = [OperatorIdle EXCEPT !.pc = "hold", !.link = l, !.hold = hold]]
  /\ UNCHANGED <<dbVars, objects, cut>>

SetHoldWrite(o) ==
  /\ op[o].pc = "hold"
  /\ IF LinkExists(op[o].link) THEN SetHoldRow(op[o].link, op[o].hold) ELSE UNCHANGED dbVars
  /\ op' = [op EXCEPT ![o] = OperatorIdle]
  /\ UNCHANGED <<objects, cut>>

(* Engine.RevokeMessage for one message, Engine.RevokeSender for the       *)
(* messages a listing by sender returned.                                  *)
RevokeMessages(o, ms) ==
  /\ op[o].pc = "idle"
  /\ ms # {} /\ ms \subseteq messages
  /\ op' = [op EXCEPT ![o] = [OperatorIdle EXCEPT !.pc = "list", !.todo = ms]]
  /\ UNCHANGED <<dbVars, objects, cut>>

(* ListLinksByMessage, counting the active held links. *)
RevokeList(o, m) ==
  /\ op[o].pc = "list" /\ m \in op[o].todo
  /\ op' = [op EXCEPT ![o].pc = "cascade", ![o].msg = m, ![o].todo = @ \ {m},
              ![o].skipped = {l \in LinksOf(m) : links[l].status = "active" /\ links[l].hold}]
  /\ UNCHANGED <<dbVars, objects, cut>>

(* RevokeLinksByMessage; ErrHeld of one message does not stop a sender's. *)
RevokeCascade(o) ==
  LET m == op[o].msg IN
  /\ op[o].pc = "cascade"
  /\ RevokeLinksByMessage(m)
  /\ cut' = cut \cup {l \in LinksOf(m) : LinkExists(l) /\ ~links[l].hold}
                \cup {p \in Package : p[1] = m /\ packages[p].status # "none"}
  /\ op' = [op EXCEPT ![o].pc = "list", ![o].msg = <<>>, ![o].skipped = {},
                      ![o].errHeld = @ \/ op[o].skipped # {}]
  /\ UNCHANGED objects

RevokeReturn(o) ==
  /\ op[o].pc = "list" /\ op[o].todo = {}
  /\ op' = [op EXCEPT ![o] = OperatorIdle]
  /\ UNCHANGED <<dbVars, objects, cut>>

(* Any store call may fail; the engine returns the error. *)
OperatorAborted(o) ==
  /\ op[o].pc # "idle"
  /\ op' = [op EXCEPT ![o] = OperatorIdle]
  /\ UNCHANGED <<dbVars, objects, cut>>

OperatorStep(o) ==
  \/ \E l \in Link : RevokeRead(o, l)
  \/ RevokeWrite(o)
  \/ \E l \in Link, hold \in BOOLEAN : SetHoldRead(o, l, hold)
  \/ SetHoldWrite(o)
  \/ \E ms \in SUBSET Message : RevokeMessages(o, ms)
  \/ \E m \in Message : RevokeList(o, m)
  \/ RevokeCascade(o)
  \/ RevokeReturn(o)
  \/ OperatorAborted(o)

=============================================================================
