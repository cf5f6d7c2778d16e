----------------------------- MODULE MCMailPath -----------------------------
(* Small messages, policies and envelopes for MailPath. *)
EXTENDS MailPath

NoRefs == [c \in {} |-> 0]
Leaf(type, name, disp, cid, detected, size) ==
  [kind |-> "leaf", type |-> type, headers |-> 1, filename |-> name,
   extension |-> IF name = "" THEN "" ELSE "x", disposition |-> disp, cid |-> cid,
   detected |-> detected, size |-> size, refs |-> NoRefs, eofWithLastByte |-> FALSE]
Multi(type, children) ==
  [kind |-> "multipart", type |-> type, headers |-> 1, boundary |-> TRUE, children |-> children]
Envelope(body) == [kind |-> "rfc822", type |-> "message/rfc822", headers |-> 1, body |-> body]

Text == Leaf("text/plain", "", "", "", "text/plain", 1)
Html == [Leaf("text/html", "", "", "", "text/html", 2) EXCEPT !.refs = [c \in {"logo"} |-> 2]]
LongHtml == [Leaf("text/html", "", "", "", "text/html", 4) EXCEPT !.refs = [c \in {"logo"} |-> 4]]
ZipFile == Leaf("application/zip", "a.x", "attachment", "", "application/zip", 2)
ZipAsText == Leaf("malformed", "", "", "", "application/zip", 1)
Notes == Leaf("text/plain", "notes.x", "inline", "", "text/plain", 1)
Logo == Leaf("image/png", "", "", "logo", "image/png", 1)
Stray == Leaf("image/png", "", "", "stray", "image/png", 1)
Edge == [Leaf("application/pdf", "b.x", "attachment", "", "application/pdf", 4) EXCEPT !.eofWithLastByte = TRUE]

PlainTrees ==
  { ZipFile, Text, ZipAsText,
    Multi("multipart/mixed", <<Text, ZipFile>>),
    Multi("multipart/mixed", <<ZipFile, Notes, Text, ZipFile>>),
    Multi("multipart/mixed", <<ZipAsText, ZipFile>>),
    Multi("multipart/mixed", <<Multi("multipart/alternative", <<Text, Html>>), ZipFile>>),
    Multi("multipart/mixed", <<Multi("multipart/mixed", <<ZipFile>>), Text, Html>>),
    Multi("multipart/related", <<Html, Logo, Stray>>),
    Multi("multipart/mixed", <<Multi("multipart/related", <<LongHtml, Logo, ZipFile>>), Html>>),
    Multi("multipart/mixed", <<Html, Multi("multipart/related", <<Html, Logo, ZipFile>>)>>),
    Multi("multipart/mixed", <<Envelope(Multi("multipart/mixed", <<Text, ZipFile>>)), Text>>),
    Multi("multipart/mixed", <<Text, Envelope(ZipFile)>>),
    Multi("multipart/mixed", <<Envelope(Envelope(ZipFile)), Text>>),
    Multi("multipart/mixed", <<Text, Edge>>),
    Multi("multipart/mixed", <<ZipFile, ZipFile, ZipFile, ZipFile, ZipFile>>),
    Multi("multipart/mixed", <<Envelope(Multi("multipart/mixed", <<Envelope(Multi("multipart/mixed", <<ZipFile>>))>>)), Text>>),
    [Multi("multipart/mixed", <<ZipFile>>) EXCEPT !.boundary = FALSE],
    [ZipFile EXCEPT !.headers = 9], Multi("multipart/mixed", <<>>) }

(* Over one limit each: all nodes, but not the leaves; the headers of a     *)
(* child and of a forwarded message; the attachment size without io.EOF     *)
(* and by two bytes.                                                        *)
LimitTrees ==
  { Multi("multipart/mixed", <<Envelope(Multi("multipart/mixed", <<Text, Text, Text>>)), Text, Text, Text>>),
    Multi("multipart/mixed", <<[Text EXCEPT !.headers = 9], ZipFile>>),
    Multi("multipart/mixed", <<Envelope([Text EXCEPT !.headers = 9]), ZipFile>>),
    Multi("multipart/mixed", <<Text, [Edge EXCEPT !.eofWithLastByte = FALSE]>>),
    Multi("multipart/mixed", <<Text, [Edge EXCEPT !.size = 5]>>) }

WrappedTrees ==
  { Multi("multipart/mixed", <<Text, Envelope(Envelope(Multi("multipart/mixed", <<Text, ZipFile>>)))>>),
    Envelope(Multi("multipart/mixed", <<Text, ZipFile>>)) }

AllTrees == PlainTrees \cup WrappedTrees \cup LimitTrees
-----------------------------------------------------------------------------
NoAddress == [address |-> {}, domain |-> {}, pattern |-> {}]
AnyAttachment == [size |-> Nil, mimeType |-> {}, claimedMimeType |-> {}, extension |-> {},
                  filename |-> {}, disposition |-> {}]
AttachmentWhen(m) == [sender |-> Nil, recipient |-> Nil, attachment |-> m]
RecipientWhen(m) == [sender |-> Nil, recipient |-> m, attachment |-> Nil]
Spec0(action) == [action |-> action, params |-> NoParams, reason |-> Nil, link |-> FALSE, dryRun |-> Nil]
ReplaceWith(ttl, n) == [Spec0("replace") EXCEPT !.params = [ttl |-> ttl, maxDownloads |-> n, retention |-> Nil]]
RuleOf(name, when, then) == [name |-> name, when |-> when, then |-> then, disabled |-> FALSE]
Doc(rules, default) == [version |-> 1, name |-> "p", rules |-> rules, default |-> default]

ToBob == RecipientWhen([NoAddress EXCEPT !.address = {"bob"}])
ToOut == RecipientWhen([NoAddress EXCEPT !.domain = {"out"}])
ZipRule(then) == RuleOf("zip", AttachmentWhen([AnyAttachment EXCEPT !.mimeType = {{"application/zip"}}]), then)
Big == AttachmentWhen([AnyAttachment EXCEPT !.size = [min |-> 2, max |-> Nil]])
InlineOnly == AttachmentWhen([AnyAttachment EXCEPT !.disposition = {"inline"}])

PolicyDocs ==
  { Doc(<<>>, Spec0("pass")), Doc(<<>>, Spec0("replace")), Doc(<<>>, Spec0("block")), Doc(<<>>, Spec0("")),
    Doc(<<ZipRule(Spec0("block"))>>, Spec0("pass")),
    Doc(<<ZipRule(Spec0("block"))>>, Spec0("replace")),
    Doc(<<RuleOf("bob", ToBob, ReplaceWith(1, Nil)), RuleOf("out", ToOut, ReplaceWith(2, 3))>>, ReplaceWith(3, 1)),
    Doc(<<RuleOf("big", Big, ReplaceWith(2, Nil)), RuleOf("all", Nil, Spec0("pass")), RuleOf("late", Nil, Spec0("block"))>>, Spec0("block")),
    Doc(<<[RuleOf("off", Nil, Spec0("pass")) EXCEPT !.disabled = TRUE], ZipRule(Spec0("replace"))>>, Spec0("pass")),
    Doc(<<RuleOf("bob", ToBob, [Spec0("replace") EXCEPT !.dryRun = TRUE])>>, [Spec0("replace") EXCEPT !.dryRun = FALSE]),
    Doc(<<RuleOf("bob", ToBob, [Spec0("block") EXCEPT !.dryRun = TRUE])>>, [Spec0("replace") EXCEPT !.dryRun = TRUE]),
    Doc(<<RuleOf("bob", ToBob, [Spec0("block") EXCEPT !.dryRun = TRUE])>>, [Spec0("replace") EXCEPT !.dryRun = FALSE, !.link = TRUE]),
    Doc(<<>>, [Spec0("pass") EXCEPT !.link = TRUE]),
    Doc(<<RuleOf("inline", InlineOnly, Spec0("replace"))>>, Spec0("pass")),
    Doc(<<RuleOf("glob", RecipientWhen([NoAddress EXCEPT !.pattern = {Malformed}]), Spec0("pass"))>>, Spec0("pass")) }

MCDomainOf(a) == CASE a = "bob" -> "out" [] a = "eve" -> "out" [] OTHER -> "home"
MCEnvelopes == {[sender |-> "ann", recipients |-> rs] : rs \in {<<>>, <<"bob">>, <<"ann", "bob">>, <<"bob", "ann">>, <<"eve", "ann">>}}
=============================================================================
