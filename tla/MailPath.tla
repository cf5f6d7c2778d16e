------------------------------ MODULE MailPath ------------------------------
(* core/pipeline: AttachmentProcessor.Process for one message, from the     *)
(* captured body to the verdict: parse, evaluate, protect, dry run, store,  *)
(* rewrite.  What storing and linking do to the database is Pipeline's      *)
(* subject; here that step succeeds or fails as a whole.  The spools only   *)
(* fail: they are opened and closed inside one step.                        *)
EXTENDS Policy, Rewrite, RawParts

CONSTANTS
  Trees,          \* MIME trees that may arrive
  Policies,       \* policy documents that may be loaded
  Envelopes,      \* [sender, recipients]
  InlineMaxSize,  \* limits.inline_max_size
  MaxHTMLScan,    \* maxHTMLCIDScanBytes, per part
  MaxAggregateScan, MaxAggregateTokens,  \* per message
  Faults          \* BOOLEAN: spool, storage and staging errors happen

VARIABLES
  input,     \* [tree, env, policy, dryRun]: what this message meets
  pc,        \* the next step of Process
  atts,      \* parseMessage's leaves
  decision,  \* the current policy.MessageDecision
  stored,    \* paths uploaded and linked
  params,    \* the parameters the links got
  verdict    \* [action, out]

vars == <<input, pc, atts, decision, stored, params, verdict>>

Init ==
  /\ input \in [tree : Trees, env : Envelopes, policy : {p \in Policies : validate(p)}, dryRun : BOOLEAN]
  /\ pc = "spool" /\ atts = <<>> /\ decision = Nil /\ stored = {}
  /\ params = Nil /\ verdict = Nil

Return(action, out) ==
  /\ pc' = "done"
  /\ verdict' = [action |-> action, out |-> out]

Fail == Return("error", <<>>)

SpoolBody ==
  /\ pc = "spool"
  /\ \/ pc' = "parse" /\ UNCHANGED verdict
     \/ Faults /\ Fail
  /\ UNCHANGED <<input, atts, decision, stored, params>>

(* parseMessage: every leaf or none. *)
ParseMessage ==
  /\ pc = "parse"
  /\ LET st == Parse(input.tree)
     IN \/ /\ st.err = ""
           /\ atts' = st.atts
           /\ pc' = "evaluate" /\ UNCHANGED verdict
        \/ /\ st.err # "" \/ Faults
           /\ Fail /\ UNCHANGED atts
  /\ UNCHANGED <<input, decision, stored, params>>

EvaluatePolicy ==
  /\ pc = "evaluate"
  /\ decision' = Evaluate(input.policy, input.env, atts)
  /\ pc' = "protect"
  /\ UNCHANGED <<input, atts, stored, params, verdict>>

-----------------------------------------------------------------------------
(* Protection of inline assets (cid.go, protectInlineAssets) and of the     *)
(* message's own text (protectStructuralBodies).                            *)

isStructuralBodyPart(att) ==
  att.disposition = "inline" /\ att.filename = "" /\ att.declared \in {"text/plain", "text/html"}

hasInlineCandidate(as) == \E i \in DOMAIN as : as[i].inlineAsset /\ as[i].size <= InlineMaxSize

smaller(a, b) == IF a < b THEN a ELSE b

(* One step of collectHTMLCIDRefs' loop: acc has the remaining budgets and  *)
(* the refs found; `unreadable` are the parts whose spool cannot be read.   *)
ScanPart(acc, att, unreadable) ==
  LET limit == smaller(MaxHTMLScan, acc.bytes)
      found == {c \in DOMAIN att.refs : att.refs[c] <= limit}
      ref(cids, truncated) == [path |-> att.path, cids |-> cids, truncated |-> truncated]
      add(r) == [acc EXCEPT !.refs = Append(@, r)]
  IN CASE att.declared # "text/html" \/ att.disposition # "inline" -> acc
       [] acc.bytes = 0 \/ acc.tokens = 0 \/ att.path \in unreadable -> add(ref({}, TRUE))
       [] Cardinality(found) > acc.tokens ->
            [add(ref({}, TRUE)) EXCEPT !.bytes = @ - smaller(att.size, limit), !.tokens = 0]
       [] OTHER -> [add(ref(found, att.size > limit)) EXCEPT
                      !.bytes = @ - smaller(att.size, limit), !.tokens = @ - Cardinality(found)]

collectHTMLCIDRefs(as, unreadable) ==
  FoldLeft(LAMBDA acc, att : ScanPart(acc, att, unreadable),
           [bytes |-> MaxAggregateScan, tokens |-> MaxAggregateTokens, refs |-> <<>>], as).refs

isWithinContainer(path, container) == IsStrictPrefix(container, path)

(* Mutant: an incomplete scan counts as "not referenced". *)
cidReferencedNoFailsafe(htmls, container, cid) ==
  \E i \in DOMAIN htmls : isWithinContainer(htmls[i].path, container) /\ cid \in htmls[i].cids

(* Referenced, or not refutable because a scan was incomplete. *)
cidReferenced(htmls, container, cid) ==
  \E i \in DOMAIN htmls :
    isWithinContainer(htmls[i].path, container) /\ (cid \in htmls[i].cids \/ htmls[i].truncated)

(* Mutant: a protected attachment is taken off the list of decisions. *)
DowngradeDropped(m, which) ==
  MessageDecision([k \in 1..(Len(m.attachments) - Cardinality(which)) |-> m.attachments[k]], "pass")

Downgrade(m, which) ==
  MessageDecision([i \in DOMAIN m.attachments |->
                     IF i \in which THEN [m.attachments[i] EXCEPT !.action = "pass"] ELSE m.attachments[i]], "pass")

(* DetectType results with the prefix image/. *)
ImageTypes == {"image/png"}

protectInlineAssets(as, m, htmls) ==
  Downgrade(m, {i \in DOMAIN as :
    /\ m.attachments[i].action = "replace" /\ ~m.attachments[i].inlineOptIn
    /\ as[i].inlineAsset /\ as[i].detected \in ImageTypes /\ as[i].size <= InlineMaxSize
    /\ cidReferenced(htmls, Front(as[i].path), as[i].cid)})

(* Mutant: a blocked body is let through as well. *)
protectStructuralBodiesBlocked(as, m) ==
  Downgrade(m, {i \in DOMAIN as : isStructuralBodyPart(as[i])})

protectStructuralBodies(as, m) ==
  Downgrade(m, {i \in DOMAIN as : m.attachments[i].action = "replace" /\ isStructuralBodyPart(as[i])})

Protect ==
  /\ pc = "protect"
  /\ \E unreadable \in IF Faults THEN SUBSET {atts[i].path : i \in DOMAIN atts} ELSE {{}} :
       LET htmls == IF hasInlineCandidate(atts) THEN collectHTMLCIDRefs(atts, unreadable) ELSE <<>>
       IN decision' = protectStructuralBodies(atts, protectInlineAssets(atts, decision, htmls))
  /\ pc' = "mode"
  /\ UNCHANGED <<input, atts, stored, params, verdict>>

-----------------------------------------------------------------------------
hasReplace(m) == \E i \in DOMAIN m.attachments : m.attachments[i].action = "replace"

(* ApplyModeToMessage, then the early returns of steps c and d. *)
ApplyDryRun ==
  /\ pc = "mode"
  /\ LET m == ApplyModeToMessage(decision, input.dryRun)
     IN /\ decision' = m
        /\ CASE m.action = "block" -> Return("reject", <<>>)
             [] m.action # "block" /\ ~hasReplace(m) -> Return("accept", <<>>)
             [] m.action # "block" /\ hasReplace(m) /\ input.env.recipients = <<>> -> Fail
             [] OTHER -> pc' = "store" /\ UNCHANGED verdict
  /\ UNCHANGED <<input, atts, stored, params>>

worstCaseReplaceParams(m) ==
  FoldLeft(LAMBDA acc, d : IF d.action # "replace" THEN acc ELSE MostRestrictiveParams(acc, d.params),
           NoParams, m.attachments)

ReplacedPaths(m) == {atts[i].path : i \in {j \in DOMAIN atts : m.attachments[j].action = "replace"}}

(* uploadReplaced, CreateLinks and packageURLFor, or their rollback. *)
StoreReplaced ==
  /\ pc = "store"
  /\ \/ /\ stored' = ReplacedPaths(decision)
        /\ params' = worstCaseReplaceParams(decision)
        /\ pc' = "rewrite" /\ UNCHANGED verdict
     \/ Faults /\ Fail /\ UNCHANGED <<stored, params>>
  /\ UNCHANGED <<input, atts, decision>>

(* What Rewrite is told: everything but the structural bodies. *)
rewriteInput(as, m) ==
  [p \in {as[i].path : i \in {j \in DOMAIN as : ~isStructuralBodyPart(as[j])}} |->
     m.attachments[CHOOSE i \in DOMAIN as : as[i].path = p].action]

(* Rewrite and stageToFile; a failure rolls the uploads back. *)
RewriteMessage ==
  /\ pc = "rewrite"
  /\ LET rw == RewriteRun(input.tree, rewriteInput(atts, decision))
     IN \/ /\ Staged(rw)
           /\ Return("rewrite", rw.out)
           /\ UNCHANGED stored
        \/ /\ ~Staged(rw) \/ Faults
           /\ Fail /\ stored' = {}
  /\ UNCHANGED <<input, atts, decision, params>>

Finished == pc = "done" /\ UNCHANGED vars

Next ==
  \/ SpoolBody \/ ParseMessage \/ EvaluatePolicy \/ Protect \/ ApplyDryRun
  \/ StoreReplaced \/ RewriteMessage \/ Finished

Spec == Init /\ [][Next]_vars

-----------------------------------------------------------------------------
(* Properties. *)

TypeOK ==
  /\ pc \in {"spool", "parse", "evaluate", "protect", "mode", "store", "rewrite", "done"}
  /\ verdict = Nil \/ verdict.action \in {"accept", "reject", "rewrite", "error"}
  /\ decision # Nil => DOMAIN decision.attachments = DOMAIN atts
  /\ stored \subseteq {atts[i].path : i \in DOMAIN atts}

Done(action) == verdict # Nil /\ verdict.action = action
LeafPaths == {l.path : l \in Leaves(input.tree, <<0>>)}
Written(what) == {i \in DOMAIN verdict.out : verdict.out[i].what \in what}
WrittenPaths == {verdict.out[i].path : i \in Written({"kept", "plain", "html"})}
One(i, r) == decideOne(input.policy, input.env.sender, r, atts[i])
InOrder == IF input.env.recipients = <<>> THEN <<"">> ELSE input.env.recipients
Recipients == ToSet(InOrder)

(* The decision for the k-th recipient about part i is in force: it is not  *)
(* in dry run, and no recipient has a decision in dry run that is severer,  *)
(* or as severe and earlier in the envelope.  Those are the two cases in    *)
(* which strongerDecision lets the dry run of one recipient's rule decide   *)
(* about the other's.                                                       *)
InForce(i, k) ==
  LET strength(j) == actionStrength(One(i, InOrder[j]).action)
      dry(j) == EffectiveDryRun(One(i, InOrder[j]), input.dryRun)
  IN ~dry(k) /\ \A j \in DOMAIN InOrder :
                   strength(j) > strength(k) \/ (strength(j) = strength(k) /\ j < k) => ~dry(j)

Decides(i, k, action) == InForce(i, k) /\ One(i, InOrder[k]).action = action

(* Parts that stay although a rule replaces them: the message's own text,   *)
(* and small inline images no replacing rule opted in.                      *)
MayStay(att, i) ==
  \/ isStructuralBodyPart(att)
  \/ /\ att.inlineAsset /\ att.detected \in ImageTypes /\ att.size <= InlineMaxSize
     /\ \A r \in Recipients : One(i, r).action = "replace" => ~One(i, r).inlineOptIn

(* A rewritten message loses nothing: each leaf is written exactly once or  *)
(* was uploaded, through any nesting, promotion or opaque copy (Rewrite's   *)
(* two walks agree on the paths Parse assigned).                            *)
NothingLost ==
  Done("rewrite") =>
    /\ WrittenPaths \cup stored = LeafPaths
    /\ Cardinality(Written({"kept", "plain", "html"})) = Cardinality(WrittenPaths)

(* "attachments decided ActionReplace are removed from the MIME tree"       *)
(* (Rewrite's contract), for every tree.                                    *)
ReplacedIsRemoved == Done("rewrite") => stored \cap WrittenPaths = {}

(* The same for trees in which no message/rfc822 directly wraps another:    *)
(* the rewriter does descend into a forwarded message.                      *)
ReplacedIsRemovedUnwrapped ==
  ~WrapsEnvelope(input.tree) /\ input.tree.kind # "rfc822" => ReplacedIsRemoved

(* The recipient gets the link: each rendering of the block is written at   *)
(* most once and at least one is, wherever the text parts are.              *)
BlockOnce ==
  Done("rewrite") =>
    LET count(w) == Cardinality(Written(w))
    IN /\ count({"plain", "block"}) <= 1 /\ count({"html", "block"}) <= 1
       /\ count({"plain", "html", "block"}) >= 1

(* The message's own text is never taken out, but a block decision on what  *)
(* it really contains still rejects the message (protectStructuralBodies).  *)
BodyKeptNotExempt ==
  LET bodies == {i \in DOMAIN atts : isStructuralBodyPart(atts[i])}
  IN /\ Done("rewrite") => \A i \in bodies : atts[i].path \in WrittenPaths
     /\ Done("accept") \/ Done("rewrite") => \A i \in bodies, k \in DOMAIN InOrder : ~Decides(i, k, "block")

(* A small image that an HTML body of its container really embeds stays in  *)
(* the message unless the rule opted in, however the scan budgets ran out   *)
(* and whatever could not be read (cidReferenced's fail-safe).              *)
EmbeddedImageKept ==
  Done("rewrite") =>
    \A i \in DOMAIN atts, j \in DOMAIN atts :
      /\ atts[i].inlineAsset /\ atts[i].detected \in ImageTypes /\ atts[i].size <= InlineMaxSize
      /\ atts[j].declared = "text/html" /\ atts[j].disposition = "inline"
      /\ IsStrictPrefix(Front(atts[i].path), atts[j].path) /\ atts[i].cid \in DOMAIN atts[j].refs
      /\ \A r \in Recipients : ~One(i, r).inlineOptIn
      => atts[i].path \in WrittenPaths

(* The links of a message are no more generous than any replace decision    *)
(* about a stored attachment for any recipient (worst-case merge).          *)
NoMoreGenerous ==
  Done("rewrite") =>
    \A i \in DOMAIN atts, r \in Recipients :
      atts[i].path \in stored /\ One(i, r).action = "replace" =>
        \A f \in {"ttl", "maxDownloads", "retention"} :
          One(i, r).params[f] # Nil => params[f] # Nil /\ params[f] <= One(i, r).params[f]

(* What is in force for one recipient happens, whatever the rules say for   *)
(* the others: a block rejects the message, and a replaced part is taken    *)
(* out unless it may stay.                                                  *)
InForceApplied ==
  verdict # Nil /\ verdict.action # "error" =>
    \A i \in DOMAIN atts, k \in DOMAIN InOrder :
      /\ Decides(i, k, "block") => Done("reject")
      /\ Decides(i, k, "replace") /\ ~MayStay(atts[i], i) => Done("reject") \/ atts[i].path \in stored

(* And nothing else: without a block in force no message is rejected, and   *)
(* no part is stored without a replacement in force; in particular dry run  *)
(* of every rule leaves the message as it is (ApplyMode).                   *)
DryRunHarmless ==
  /\ Done("reject") => \E i \in DOMAIN atts, k \in DOMAIN InOrder : Decides(i, k, "block")
  /\ Done("rewrite") => stored # {}
  /\ \A i \in DOMAIN atts : atts[i].path \in stored => \E k \in DOMAIN InOrder : Decides(i, k, "replace")

(* A message that gets a verdict was within every limit as a whole, counted *)
(* on the tree and not by the walk: its nesting, all of its parts with the  *)
(* containers among them, the headers of each, the sizes.  The attachment   *)
(* limit has one exception, which limitedReader makes: a part with exactly  *)
(* one byte too many that arrives together with io.EOF passes without it.   *)
WithinAttachmentLimit(node) ==
  \/ MaxAttachmentSize = 0 \/ node.size <= MaxAttachmentSize
  \/ node.size = MaxAttachmentSize + 1 /\ node.eofWithLastByte

LimitsHold ==
  verdict # Nil /\ verdict.action # "error" =>
    LET leaves == Leaves(input.tree, <<0>>)
        nodes == Nodes(input.tree)
        total == FoldLeft(LAMBDA n, l : n + l.node.size, 0, SetToSeq(leaves))
    IN /\ Depth(input.tree) <= MaxDepth /\ Len(nodes) <= MaxParts /\ total <= MaxTotalSize
       /\ \A i \in DOMAIN nodes : nodes[i].headers <= MaxHeaders
       /\ \A l \in leaves : l.node.size <= MaxPartSize /\ WithinAttachmentLimit(l.node)
       /\ MaxAttachmentSize > 0 => \A i \in DOMAIN atts : atts[i].size <= MaxAttachmentSize

(* A rule the validator calls unreachable never decides anything. *)
WarnedRulesDead ==
  \A i \in DOMAIN atts, r \in Recipients :
    One(i, r).rule \notin {input.policy.rules[k].name : k \in unreachableRuleWarnings(input.policy.rules)}

(* What becomes of a message's parts when it is rewritten: each is kept     *)
(* once or stored, and what is stored is taken out.                         *)
PartsAccounted == TypeOK /\ NothingLost /\ ReplacedIsRemovedUnwrapped

(* What happens to a message is what the rules in force say, for every      *)
(* recipient: no less (InForceApplied), no more (DryRunHarmless), on the    *)
(* strictest terms (NoMoreGenerous) and never by a dead rule.               *)
PolicyFollowed == InForceApplied /\ DryRunHarmless /\ NoMoreGenerous /\ WarnedRulesDead

(* When a message is rewritten, the reader cuts its multipart bodies right  *)
(* and the writer puts them together again, whatever their lines are.       *)
CutsExact == Done("rewrite") => SplitAgrees /\ RejoinStable
=============================================================================
