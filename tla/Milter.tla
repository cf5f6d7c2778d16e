------------------------------- MODULE Milter -------------------------------
(***************************************************************************)
(* One milter session (internal/adapters/milter): the MTA sends a message  *)
(* piecewise, EndOfMessage hands it to the Processor and applies its       *)
(* verdict as a series of header and body modifications, any of which may  *)
(* fail.  A failure becomes the configured fail-open or fail-closed        *)
(* answer.                                                                 *)
(*                                                                         *)
(* A header value is [v, gap]: what it says, and the white space between   *)
(* its words - one blank, more blanks on one line, a fold directly behind  *)
(* a word, a fold behind blanks ("ragged"), or a fold before the first     *)
(* word ("front").  Names are numbers, in their sort order.                *)
(***************************************************************************)
EXTENDS Naturals, FiniteSets, SequencesExt, Config

CONSTANTS
  FailureModes,    \* spellings of milter.failure_mode the configuration may have
  Name,            \* canonical header names
  Text,            \* what a header value may say; never nothing, which deletes
  SentGaps,        \* the white space of the headers the MTA sends
  ChunkSize,       \* sizes of the body chunks the MTA sends
  MaxMessageSize,  \* cfg.MaxMessageSize; 0 is no limit
  MaxHeaders,      \* bound on the headers of a message
  MaxBody,         \* bound on the body the MTA tries to send
  MaxRepeat        \* bound on the occurrences of one name in a rewritten block

Gaps == {"one", "two", "fold", "ragged", "front"}

(* Validate compares in lower case, and the value goes to the adapter as    *)
(* it was written.                                                         *)
ASSUME MilterAssumption ==
  /\ SentGaps \subseteq Gaps
  /\ \A spelling \in FailureModes : ToLower(spelling) \in validMilterFailureModes
  /\ Name \subseteq Nat /\ IsFiniteSet(Name) /\ ChunkSize \subseteq Nat \ {0}
  /\ MaxMessageSize \in Nat /\ MaxHeaders \in Nat /\ MaxBody \in Nat /\ MaxRepeat \in Nat

Value == [v : Text, gap : Gaps]
Header == [name : Name, value : Value]
SentValue == [v : Text, gap : SentGaps]
Bounded(S, n) == UNION {[1 .. k -> S] : k \in 0 .. n}

(* textproto's ReadMIMEHeader (external) trims every line of a value and    *)
(* joins them with one blank.                                              *)
readMIMEHeader(x) == [x EXCEPT !.gap = IF @ = "two" THEN "two" ELSE "one"]
RewrittenHeader == [Name -> Bounded({readMIMEHeader(x) : x \in SentValue}, MaxRepeat)]

VARIABLES
  mode,       \* cfg.FailureMode
  pc,
  original,   \* b.headers: the header block the MTA sent
  written,    \* bytes in the body spool
  wanted,     \* rewrittenHeader
  calls,      \* the modifier calls still to be made
  queued,     \* what the MTA delivers if it is told to accept (external)
  cause,      \* why the configured failure mode was due, "none" if it was not
  response    \* the last answer; "closed": the connection ended without one

vars == <<mode, pc, original, written, wanted, calls, queued, cause, response>>

NothingWanted == [n \in Name |-> <<>>]
Pending(hs) == [headers |-> hs, body |-> "original"]

Init ==
  /\ mode \in FailureModes
  /\ pc = "receive" /\ original = <<>> /\ written = 0 /\ wanted = NothingWanted
  /\ calls = <<>> /\ queued = Pending(<<>>) /\ cause = "none" /\ response = "none"

-----------------------------------------------------------------------------
(* Callbacks before the end of the message.                                *)

HeaderCallback(h) ==
  /\ pc = "receive" /\ written = 0 /\ Len(original) < MaxHeaders
  /\ original' = Append(original, h)
  /\ UNCHANGED <<mode, pc, written, wanted, calls, queued, cause, response>>

SpoolAccepts(n) == MaxMessageSize = 0 \/ written + n <= MaxMessageSize

(* BodyChunk returns the spool's refusal as a Go error, which ends the      *)
(* connection.                                                              *)
BodyChunk(n) ==
  /\ pc = "receive" /\ written + n <= MaxBody
  /\ IF SpoolAccepts(n)
       THEN /\ written' = written + n
            /\ UNCHANGED <<pc, cause, response>>
       ELSE /\ pc' = "done" /\ cause' = "oversize" /\ response' = "closed"
            /\ UNCHANGED written
  /\ UNCHANGED <<mode, original, wanted, calls, queued>>

(* Abort, or the fresh backend the server makes after a final answer. *)
NextMessage ==
  /\ \/ pc = "receive" /\ original # <<>>
     \/ pc = "done"
  /\ pc' = "receive" /\ original' = <<>> /\ written' = 0 /\ wanted' = NothingWanted
  /\ calls' = <<>> /\ queued' = Pending(<<>>) /\ cause' = "none" /\ response' = "none"
  /\ UNCHANGED mode

-----------------------------------------------------------------------------
(* Header lines.  The k-th smallest of a set of positions:                  *)
Nth(P, k) == CHOOSE i \in P : Cardinality({j \in P : j <= i}) = k

(* The lines of some names, in their order. *)
Positions(hs, names) == {i \in DOMAIN hs : hs[i].name \in names}
Lines(hs, names) ==
  LET P == Positions(hs, names) IN [k \in 1 .. Cardinality(P) |-> hs[Nth(P, k)]]

(* The MTA's side of a modifier call (external): index counts the           *)
(* occurrences of the name as they are now.                                 *)
ApplyCall(m, c) ==
  LET P == Positions(m.headers, {c.name})
      there == c.index <= Cardinality(P)
      at == Nth(P, c.index)
  IN CASE c.op = "add" -> [m EXCEPT !.headers = Append(@, [name |-> c.name, value |-> c.value])]
       [] c.op = "change" /\ there -> [m EXCEPT !.headers[at].value = c.value]
       [] c.op = "delete" /\ there -> [m EXCEPT !.headers = RemoveAt(@, at)]
       [] c.op = "body" -> [m EXCEPT !.body = "rewritten"]
       [] OTHER -> m

-----------------------------------------------------------------------------
(* replaceMessage: reconcile the rewritten header block with the original.  *)

normalizeHeaderValueVerbatim(x) == x
(* A fold and the blanks behind it become one blank; those before it stay.  *)
normalizeHeaderValue(x) == [x EXCEPT !.gap = CASE @ = "fold" -> "one" [] @ = "ragged" -> "two" [] OTHER -> @]

originalValues(hs) ==
  [n \in Name |-> LET ls == Lines(hs, {n}) IN [i \in DOMAIN ls |-> ls[i].value]]

NoValue == [v |-> "", gap |-> "one"]
Call(op, n, i, x) == [op |-> op, name |-> n, index |-> i, value |-> x]
BodyCall == Call("body", 0, 0, NoValue)

(* Occurrences on both sides are changed where they differ, extra wanted    *)
(* ones added, and those only in the original deleted.                      *)
ChangesAllOnce(n, orig, want) ==
  {Call("change", n, i, want[i]) : i \in
     {i \in DOMAIN orig \cap DOMAIN want :
        \E j \in DOMAIN orig \cap DOMAIN want : normalizeHeaderValue(orig[j]) # normalizeHeaderValue(want[j])}}
Changes(n, orig, want) ==
  {Call("change", n, i, want[i]) : i \in
     {i \in DOMAIN orig \cap DOMAIN want : normalizeHeaderValue(orig[i]) # normalizeHeaderValue(want[i])}}
Adds(n, orig, want) == {Call("add", n, i, want[i]) : i \in DOMAIN want \ DOMAIN orig}
Deletes(n, orig, want) == {Call("delete", n, i, NoValue) : i \in DOMAIN orig \ DOMAIN want}

headerNameUnion(orig, block) == {n \in Name : orig[n] # <<>> \/ block[n] # <<>>}

CallsFor(n, orig, want) == Changes(n, orig, want) \cup Adds(n, orig, want) \cup Deletes(n, orig, want)
CallSet(orig, block) ==
  {BodyCall} \cup UNION {CallsFor(n, orig[n], block[n]) : n \in headerNameUnion(orig, block)}

(* Name by name; then the deletions, which are sorted by name and from the  *)
(* highest index down; then the body.                                       *)
Stage(c) == CASE c.op \in {"change", "add"} -> 1 [] c.op = "delete" -> 2 [] c.op = "body" -> 3

CallBeforeLowestFirst(c, d) ==
  \/ Stage(c) < Stage(d)
  \/ Stage(c) = Stage(d) /\ (c.name < d.name \/ (c.name = d.name /\ c.index < d.index))
CallBefore(c, d) ==
  \/ Stage(c) < Stage(d)
  \/ Stage(c) = Stage(d) /\ c.name < d.name
  \/ Stage(c) = Stage(d) /\ c.name = d.name /\ IF c.op = "delete" THEN c.index > d.index ELSE c.index < d.index

replaceMessage(block) ==
  LET S == CallSet(originalValues(original), block)
  IN [k \in 1 .. Cardinality(S) |-> CHOOSE c \in S : Cardinality({d \in S : CallBefore(d, c)}) = k - 1]

-----------------------------------------------------------------------------
(* EndOfMessage and applyVerdict.                                           *)

(* "closed", in exactly this spelling; anything else is fail-open. *)
resolveFailure(why) ==
  /\ pc' = "done" /\ cause' = why
  /\ response' = IF mode = "closed" THEN "tempfail" ELSE "accept"
  /\ calls' = <<>>

(* The spool cannot be read, Process fails or panics, or its verdict is nil *)
(* or unknown.                                                              *)
ProcessFails ==
  /\ pc = "receive"
  /\ resolveFailure("process")
  /\ written' = 0 /\ queued' = Pending(original)
  /\ UNCHANGED <<mode, original, wanted>>

(* VerdictAccept, VerdictReject and VerdictTempFail. *)
PlainVerdict(answer) ==
  /\ pc = "receive"
  /\ pc' = "done" /\ response' = answer
  /\ written' = 0 /\ queued' = Pending(original)
  /\ UNCHANGED <<mode, original, wanted, calls, cause>>

(* VerdictRewrite; the AttachmentProcessor leaves AddHeaders empty. *)
RewriteVerdict(block) ==
  /\ pc = "receive"
  /\ pc' = "apply" /\ wanted' = block /\ calls' = replaceMessage(block)
  /\ written' = 0 /\ queued' = Pending(original)
  /\ UNCHANGED <<mode, original, cause, response>>

(* The rewritten header block does not parse, or the body after it looks    *)
(* like another header block: refused before any modifier call.             *)
RewriteRefused ==
  /\ pc = "receive"
  /\ resolveFailure("refused")
  /\ written' = 0 /\ queued' = Pending(original)
  /\ UNCHANGED <<mode, original, wanted>>

ModifierCall ==
  /\ pc = "apply" /\ calls # <<>>
  /\ queued' = ApplyCall(queued, Head(calls))
  /\ calls' = Tail(calls)
  /\ UNCHANGED <<mode, pc, original, written, wanted, cause, response>>

(* The call is refused, or reading the rewritten body fails part-way. *)
ModifierFails ==
  /\ pc = "apply" /\ calls # <<>>
  /\ \/ UNCHANGED queued
     \/ Head(calls).op = "body" /\ queued' = [queued EXCEPT !.body = "partial"]
  /\ resolveFailure("modify")
  /\ UNCHANGED <<mode, original, written, wanted>>

(* The connection is gone: the answer cannot be sent either. *)
ConnectionLost ==
  /\ pc = "apply"
  /\ pc' = "done" /\ cause' = "modify" /\ response' = "closed" /\ calls' = <<>>
  /\ UNCHANGED <<mode, original, written, wanted, queued>>

Accepted ==
  /\ pc = "apply" /\ calls = <<>>
  /\ pc' = "done" /\ response' = "accept"
  /\ UNCHANGED <<mode, original, written, wanted, calls, queued, cause>>

Next ==
  \/ \E h \in [name : Name, value : SentValue] : HeaderCallback(h)
  \/ \E n \in ChunkSize : BodyChunk(n)
  \/ NextMessage
  \/ ProcessFails
  \/ \E answer \in {"accept", "reject", "tempfail"} : PlainVerdict(answer)
  \/ \E block \in RewrittenHeader : RewriteVerdict(block)
  \/ RewriteRefused
  \/ ModifierCall
  \/ ModifierFails
  \/ ConnectionLost
  \/ Accepted

Spec == Init /\ [][Next]_vars

-----------------------------------------------------------------------------
(* Properties.                                                             *)

ValuesIn(hs, n) == LET ls == Lines(hs, {n}) IN [i \in DOMAIN ls |-> ls[i].value.v]
Wanted(n) == [i \in DOMAIN wanted[n] |-> wanted[n][i].v]

(* Once replaceMessage returned without an error, every header name has     *)
(* exactly the values of the rewritten block, in its order and up to the    *)
(* white space between their words, and the body is the rewritten one: no   *)
(* deletion hit the occurrence next to the one meant.                       *)
ReconcileExact ==
  queued.body = "rewritten" => \A n \in Name : ValuesIn(queued.headers, n) = Wanted(n)

(* The rewritten block gives back what the MTA sent, which has no blank     *)
(* before a fold and no fold before the first word: normalizeHeaderValue    *)
(* would keep that blank, ReadMIMEHeader drops it, and the header, although *)
(* unchanged, is then written again on one line.                            *)
PassedThrough(sent, block) == block = readMIMEHeader(sent) /\ sent.gap \notin {"ragged", "front"}

(* The names all of whose occurrences are passed through. *)
Unchanged ==
  {n \in Name : LET sent == originalValues(original)[n]
               IN DOMAIN sent = DOMAIN wanted[n] /\ \A i \in DOMAIN sent : PassedThrough(sent[i], wanted[n][i])}

OccurrencesKept(n) ==
  LET sent == originalValues(original)[n]
      now == originalValues(queued.headers)[n]
  IN \A i \in DOMAIN sent \cap DOMAIN wanted[n] :
       PassedThrough(sent[i], wanted[n][i]) => i \in DOMAIN now /\ now[i] = sent[i]

(* What the rewrite passes through is not touched, at any moment of the     *)
(* modifier calls.  The names it leaves alone keep their lines, folds and   *)
(* relative order, as a signature over them needs; and of the other names   *)
(* every occurrence that is passed through keeps its value and its number,  *)
(* whichever of its neighbours is changed, added or deleted.                *)
UnchangedUntouched ==
  pc = "apply" => /\ Lines(queued.headers, Unchanged) = Lines(original, Unchanged)
                  /\ \A n \in Name : OccurrencesKept(n)

(* Fail-closed lets no message through that could not be processed:         *)
(* MilterConfig's "closed" temp-fails it.  Violated by the spellings        *)
(* Validate accepts and resolveFailure does not know.                       *)
ClosedTempFails == ToLower(mode) = "closed" /\ cause # "none" => response # "accept"
=============================================================================
