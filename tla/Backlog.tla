------------------------------ MODULE Backlog ------------------------------
(***************************************************************************)
(* What the retention sweeper eventually does with a backlog: every        *)
(* attachment is past its deadline, the ticker keeps firing, operators set *)
(* and release holds, and the storage delete of some objects always fails. *)
(***************************************************************************)
EXTENDS Retention

CONSTANT Deadline    \* retain_until of the backlog's attachments

ASSUME BacklogAssumption == Deadline \in [Attachment -> 1 .. MaxTime - 1]

vars == <<now, dbVars, objects, sweep>>

(* Delivered messages whose retention has run out since the last sweep. *)
Init ==
  /\ now = MaxTime
  /\ messages = Message
  /\ attachments = Deadline
  /\ links = [l \in Link |-> [status |-> "active", expires |-> Deadline[l[1]], max |-> 0,
                              downloads |-> 0, hold |-> FALSE]]
  /\ packages = [p \in Package |-> [status |-> "active", expires |-> MaxTime]]
  /\ objects = Attachment
  /\ RetentionInit

Sweeper == SweepStep /\ UNCHANGED now
SetHold == /\ \E l \in Link, hold \in BOOLEAN : SetHoldRow(l, hold)
           /\ UNCHANGED <<now, objects, sweep>>

Next == Sweeper \/ SetHold

(* The loop goroutine always takes its next step, and the ticker fires. *)
Spec == Init /\ [][Next]_vars /\ WF_vars(Sweeper)

-----------------------------------------------------------------------------
(* Properties.                                                             *)

(* Operators stop setting and releasing holds at some point, leaving the    *)
(* attachments of S held.                                                   *)
HoldsSettle(S) == <>[](\A a \in Attachment : AttachmentHeld(a) <=> a \in S)

(* Sweep's promise: a row that cannot be purged, or is held, does not keep  *)
(* the rest of the backlog from being purged, object and rows.              *)
BacklogDrains ==
  \A S \in SUBSET Attachment :
    HoldsSettle(S) => \A a \in Attachment \ (S \cup Faulty) :
                        <>(~AttachmentExists(a) /\ a \notin objects)

(* A pass gets past its purge loop, so that sweepAudit runs again and again *)
(* even while some purge keeps failing.                                     *)
AuditRuns == \A S \in SUBSET Attachment : HoldsSettle(S) => []<>SweepAt("audit")

=============================================================================
