---------------------------- MODULE ObjectStore -----------------------------
(* What storage.Driver promises its callers (internal/core/storage): Put,  *)
(* Get, Delete and Stat of concurrent callers take effect one at a time,   *)
(* a Put as a whole or not at all, and a call that returns an error has    *)
(* changed nothing.  The s3 driver makes each of them one request.         *)
EXTENDS Integers, Sequences

CONSTANTS
  Key,        \* keys a caller may pass
  WellFormed, \* the opaque keys among them
  Content,    \* payloads a reader may deliver
  Caller

VARIABLES
  objects,    \* [WellFormed -> at most one content]
  pending     \* the callers' calls

vars == <<objects, pending>>

Op == {"put", "get", "delete", "stat"}
Sizes == {-1} \cup {Len(v) : v \in Content}

(* A call and, once it has taken effect, its result; value is the stream of *)
(* a Get or the size of a Stat.                                             *)
NoCall == [op |-> "none", key |-> <<>>, src |-> <<>>, size |-> 0, res |-> "none", value |-> <<>>]

Init ==
  /\ objects = [k \in WellFormed |-> {}]
  /\ pending = [c \in Caller |-> NoCall]

Invoke(c) ==
  /\ pending[c] = NoCall
  /\ \E op \in Op, k \in Key, v \in Content, n \in Sizes :
       /\ op # "put" => n = -1 /\ v = CHOOSE w \in Content : TRUE
       /\ pending' = [pending EXCEPT ![c] = [NoCall EXCEPT !.op = op, !.key = k, !.src = v, !.size = n]]
  /\ UNCHANGED objects

Waits(c, op) == pending[c].op = op /\ pending[c].res = "none"

Ends(c, res, value) == pending' = [pending EXCEPT ![c].res = res, ![c].value = value]

Found(c) == pending[c].key \in WellFormed /\ objects[pending[c].key] # {}

Put(c) ==
  /\ Waits(c, "put") /\ pending[c].key \in WellFormed
  /\ pending[c].size \in {-1, Len(pending[c].src)}
  /\ objects' = [objects EXCEPT ![pending[c].key] = {pending[c].src}]
  /\ Ends(c, "ok", <<>>)

Get(c) ==
  /\ Waits(c, "get") /\ Found(c)
  /\ \E v \in objects[pending[c].key] : Ends(c, "ok", v)
  /\ UNCHANGED objects

Delete(c) ==
  /\ Waits(c, "delete") /\ Found(c)
  /\ objects' = [objects EXCEPT ![pending[c].key] = {}]
  /\ Ends(c, "ok", <<>>)

Stat(c) ==
  /\ Waits(c, "stat") /\ Found(c)
  /\ \E v \in objects[pending[c].key] : Ends(c, "ok", <<Len(v)>>)
  /\ UNCHANGED objects

NotFound(c) ==
  /\ \E op \in Op \ {"put"} : Waits(c, op)
  /\ pending[c].key \in WellFormed /\ ~Found(c)
  /\ Ends(c, "notFound", <<>>)
  /\ UNCHANGED objects

(* Any other error: nothing happened. *)
Fail(c) ==
  /\ pending[c].op # "none" /\ pending[c].res = "none"
  /\ Ends(c, "error", <<>>)
  /\ UNCHANGED objects

(* The caller has its answer, and has read the stream if there is one. *)
Return(c) ==
  /\ pending[c].res # "none"
  /\ pending' = [pending EXCEPT ![c] = NoCall]
  /\ UNCHANGED objects

(* The process dies with its calls; what they did stays done. *)
Crash == pending' = [c \in Caller |-> NoCall] /\ UNCHANGED objects

Next ==
  \/ \E c \in Caller :
       Invoke(c) \/ Put(c) \/ Get(c) \/ Delete(c) \/ Stat(c) \/ NotFound(c) \/ Fail(c) \/ Return(c)
  \/ Crash

Spec == Init /\ [][Next]_vars
=============================================================================
