------------------------------- MODULE Policy -------------------------------
(* core/policy: what a policy document decides about a message.  Matching,  *)
(* evaluation, aggregation, dry run and validation, as operators.           *)
(*                                                                          *)
(* Abstraction: a glob is the set of texts it matches, or Malformed; an     *)
(* absent (nil) field is Nil; an empty list is {}; addresses are already    *)
(* lower-cased.  Sizes and durations are numbers.                           *)
EXTENDS Naturals, Sequences, SequencesExt, FiniteSets

CONSTANTS
  Nil,          \* an absent optional field
  Malformed,    \* a glob path.Match rejects
  DomainOf(_)   \* the part of an address after its last '@'

ASSUME NilAssumption == Nil \notin Nat \cup BOOLEAN

Actions == {"pass", "replace", "block"}

(* actionStrength: an unknown action is weaker than pass. *)
actionStrength(a) ==
  CASE a = "pass" -> 1 [] a = "replace" -> 2 [] a = "block" -> 3 [] OTHER -> 0

-----------------------------------------------------------------------------
(* Matching: match.go *)

Matches(glob, text) == glob # Malformed /\ text \in glob

(* No criterion at all matches nothing; an absent section matches all. *)
matchAddress(m, addr) ==
  \/ m = Nil
  \/ addr \in m.address
  \/ DomainOf(addr) \in m.domain
  \/ \E g \in m.pattern : Matches(g, addr)

matchSize(r, size) ==
  \/ r = Nil
  \/ /\ r.min # Nil => size >= r.min
     /\ r.max # Nil => size <= r.max

matchGlobList(patterns, text) == patterns = {} \/ \E g \in patterns : Matches(g, text)

effectiveDisposition(att) == IF att.inlineAsset THEN "inline" ELSE "attachment"

matchAttachment(m, att) ==
  \/ m = Nil
  \/ /\ matchSize(m.size, att.size)
     /\ matchGlobList(m.mimeType, att.detected)
     /\ matchGlobList(m.claimedMimeType, att.declared)
     /\ m.extension = {} \/ att.extension \in m.extension
     /\ matchGlobList(m.filename, att.filename)
     /\ m.disposition = {} \/ effectiveDisposition(att) \in m.disposition

matchWhen(w, sender, recipient, att) ==
  \/ w = Nil
  \/ /\ matchAddress(w.sender, sender)
     /\ matchAddress(w.recipient, recipient)
     /\ matchAttachment(w.attachment, att)

-----------------------------------------------------------------------------
(* Evaluation: evaluate.go *)

NoParams == [ttl |-> Nil, maxDownloads |-> Nil, retention |-> Nil]

(* The decision a rule (or the default branch, rule Nil) stands for. *)
DecisionOf(spec, name, optIn) ==
  [action |-> spec.action, rule |-> name, params |-> spec.params,
   reason |-> spec.reason, dryRun |-> spec.dryRun, inlineOptIn |-> optIn]

FirstMatch(p, sender, recipient, att) ==
  {i \in DOMAIN p.rules : ~p.rules[i].disabled /\ matchWhen(p.rules[i].when, sender, recipient, att)}

decideOne(p, sender, recipient, att) ==
  LET hits == FirstMatch(p, sender, recipient, att)
      first == CHOOSE i \in hits : \A j \in hits : i <= j
      r == p.rules[first]
  IN IF hits = {} THEN DecisionOf(p.default, Nil, FALSE)
     ELSE DecisionOf(r.then, r.name,
            r.when # Nil /\ r.when.attachment # Nil /\ r.when.attachment.disposition # {})

(* mostRestrictiveDuration / mostRestrictiveInt: nil is "unbounded". *)
mostRestrictive(a, b) ==
  CASE a = Nil -> b [] b = Nil -> a [] OTHER -> IF a <= b THEN a ELSE b

MostRestrictiveParams(a, b) ==
  [ttl          |-> mostRestrictive(a.ttl, b.ttl),
   maxDownloads |-> mostRestrictive(a.maxDownloads, b.maxDownloads),
   retention    |-> mostRestrictive(a.retention, b.retention)]

(* Mutant: the parameters of the second recipient are dropped. *)
strongerDecisionKeepFirst(a, b) ==
  IF actionStrength(b.action) > actionStrength(a.action) THEN b ELSE a

(* Mutant: of two equal actions the later recipient's decision stands. *)
strongerDecisionKeepLast(a, b) ==
  CASE actionStrength(a.action) > actionStrength(b.action) -> a
    [] OTHER -> IF a.action # b.action \/ b.action # "replace" THEN b
                ELSE [b EXCEPT !.params = MostRestrictiveParams(a.params, @),
                               !.inlineOptIn = a.inlineOptIn \/ @]

(* The severer action wins with everything that belongs to it, its dry run  *)
(* included; of two equal ones the first, with the merged parameters.       *)
strongerDecision(a, b) ==
  CASE actionStrength(b.action) > actionStrength(a.action) -> b
    [] actionStrength(a.action) > actionStrength(b.action) -> a
    [] OTHER -> IF a.action # "replace" THEN a
                ELSE [a EXCEPT !.params = MostRestrictiveParams(@, b.params),
                               !.inlineOptIn = @ \/ b.inlineOptIn]

decideAttachment(p, env, att) ==
  LET recipients == IF env.recipients = <<>> THEN <<"">> ELSE env.recipients
      one(r) == decideOne(p, env.sender, r, att)
  IN FoldLeft(LAMBDA worst, r : strongerDecision(worst, one(r)), one(Head(recipients)), Tail(recipients))

(* The strongest action of a sequence of decisions and the reason of the    *)
(* first decision that has it, above `least`.                               *)
Aggregate(decisions, least) ==
  FoldLeft(LAMBDA m, d : IF actionStrength(d.action) > actionStrength(m.action)
                           THEN [action |-> d.action, reason |-> d.reason] ELSE m,
           [action |-> least, reason |-> Nil], decisions)

MessageDecision(decisions, least) ==
  LET m == Aggregate(decisions, least)
  IN [action |-> m.action, reason |-> m.reason, attachments |-> decisions]

Evaluate(p, env, atts) ==
  MessageDecision([i \in DOMAIN atts |-> decideAttachment(p, env, atts[i])], "pass")

-----------------------------------------------------------------------------
(* Dry run: mode.go *)

EffectiveDryRun(d, globalDryRun) == IF d.dryRun # Nil THEN d.dryRun ELSE globalDryRun

(* Mutant: dry run only suppresses blocking. *)
ApplyModeBlockOnly(d, globalDryRun) ==
  IF EffectiveDryRun(d, globalDryRun) /\ d.action = "block" THEN [d EXCEPT !.action = "pass"] ELSE d

ApplyMode(d, globalDryRun) ==
  IF EffectiveDryRun(d, globalDryRun) THEN [d EXCEPT !.action = "pass"] ELSE d

(* Aggregated from no action at all: a message without parts keeps "". *)
ApplyModeToMessage(m, globalDryRun) ==
  MessageDecision([i \in DOMAIN m.attachments |-> ApplyMode(m.attachments[i], globalDryRun)], "")

-----------------------------------------------------------------------------
(* Validation: validate.go, parse.go.  A document is what yaml.v3 made of   *)
(* the file: "policy" with its content, "empty", "several" or "broken".     *)

validateActionBlock(a) ==
  /\ a.action \in Actions
  /\ a.action # "replace" => a.params = NoParams /\ ~a.link
  /\ a.action # "block" => a.reason = Nil
  /\ a.params.maxDownloads # Nil => a.params.maxDownloads >= 1

Compiles(globs) == Malformed \notin globs

validateWhen(w) ==
  /\ \A m \in {w.sender, w.recipient} \ {Nil} : Compiles(m.pattern)
  /\ w.attachment # Nil =>
       /\ Compiles(w.attachment.filename)
       /\ Compiles(w.attachment.mimeType)
       /\ Compiles(w.attachment.claimedMimeType)
       /\ w.attachment.disposition \subseteq {"inline", "attachment"}

validateRule(r) ==
  /\ r.name # ""
  /\ validateActionBlock(r.then)
  /\ r.when # Nil => validateWhen(r.when)

supportedVersion == 1

validate(p) ==
  /\ p.version = supportedVersion
  /\ p.name # ""
  /\ \A i \in DOMAIN p.rules : validateRule(p.rules[i])
  /\ validateActionBlock(p.default)

parseIssues(doc) == doc.kind = "policy" /\ validate(doc.policy)

(* Mutant: a disabled catch-all counts too. *)
unreachableRuleWarningsDisabled(rules) ==
  {i \in DOMAIN rules : ~rules[i].disabled /\ \E j \in 1..(i - 1) : rules[j].when = Nil}

(* The enabled rules behind the first enabled catch-all, which validate     *)
(* warns about.                                                             *)
unreachableRuleWarnings(rules) ==
  {i \in DOMAIN rules : /\ ~rules[i].disabled
                        /\ \E j \in 1..(i - 1) : ~rules[j].disabled /\ rules[j].when = Nil}
=============================================================================
