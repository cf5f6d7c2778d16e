------------------------------ MODULE Rewrite ------------------------------
(* core/rewrite: the second walk over the same tree, which leaves out the   *)
(* replaced parts and writes the replacement block.                         *)
(*                                                                          *)
(* The output is the sequence of what is written in document order:         *)
(* [path, what] with what = "kept" (byte for byte), "plain"/"html" (the     *)
(* leaf with the block appended) or "block" (a new multipart/alternative    *)
(* with both renderings, inside the container at path).                     *)
EXTENDS MessageTree

(* rewriter: where the block went so far, the output and an error. *)
RewriteStart == [injected |-> FALSE, plain |-> FALSE, html |-> FALSE, out |-> <<>>, err |-> ""]

Emit(rw, path, what) == [rw EXCEPT !.out = Append(@, [path |-> path, what |-> what])]

(* appendBlockToBody: the leaf, its transfer encoding undone and redone,    *)
(* with the rendering `kind` of the block at its end.  What Parse could     *)
(* decode this can decode as well.                                          *)
AppendBlock(rw, path, kind) == [Emit(rw, path, kind) EXCEPT !.injected = TRUE, ![kind] = TRUE]

(* A part copied verbatim takes everything below it along. *)
EmitWhole(rw, node, path) ==
  LET leaves == SetToSeq(Leaves(node, path))
  IN [rw EXCEPT !.out = @ \o [i \in DOMAIN leaves |-> [path |-> leaves[i].path, what |-> "kept"]]]

(* Mutant: every part with a decision is left out. *)
ReplacedAny(decisions, path) == path \in DOMAIN decisions

Replaced(decisions, path) == path \in DOMAIN decisions /\ decisions[path] = "replace"

(* Mutant: the block is appended to every text part. *)
rewriteLeafEvery(rw, node, path, decisions) ==
  LET type == mediaType(node)
      undecided == path \notin DOMAIN decisions
  IN CASE Replaced(decisions, path) -> rw
       [] type = "text/plain" /\ undecided -> AppendBlock(rw, path, "plain")
       [] type = "text/html" /\ undecided -> AppendBlock(rw, path, "html")
       [] OTHER -> EmitWhole(rw, node, path)

(* rewriteLeaf: dropped, or the first undecided text part of its kind (the  *)
(* block is appended), or copied.  A message/rfc822 handed to it is opaque. *)
rewriteLeaf(rw, node, path, decisions) ==
  LET type == mediaType(node)
      undecided == path \notin DOMAIN decisions
  IN CASE Replaced(decisions, path) -> rw
       [] type = "text/plain" /\ undecided /\ ~rw.plain -> AppendBlock(rw, path, "plain")
       [] type = "text/html" /\ undecided /\ ~rw.html -> AppendBlock(rw, path, "html")
       [] OTHER -> EmitWhole(rw, node, path)

appendFallbackAlternativePart(rw, path) ==
  [Emit(rw, path, "block") EXCEPT !.injected = TRUE, !.plain = TRUE, !.html = TRUE]

RECURSIVE rewriteMultipart(_, _, _, _)

(* Mutant: the forwarded message is always copied as it is. *)
rewriteNestedMessageOpaque(rw, node, path, decisions) == rewriteLeaf(rw, node, path, decisions)

rewriteNestedMessage(rw, node, path, decisions) ==
  IF node.kind = "multipart" THEN rewriteMultipart(rw, node, path, decisions)
  ELSE rewriteLeaf(rw, node, path, decisions)

(* The closing delimiter of ANY multipart, nested or not, is preceded by    *)
(* the block if nothing took it yet.                                        *)
rewriteMultipart(rw0, node, path, decisions) ==
  IF ~node.boundary THEN Failed(rw0, "boundary") ELSE
  LET child(rw, i) ==
        LET c == node.children[i]
            p == Append(path, i)
        IN CASE rw.err # "" -> rw
             [] c.kind = "multipart" -> rewriteMultipart(rw, c, p, decisions)
             [] c.kind = "rfc822" -> rewriteNestedMessage(rw, c.body, p, decisions)
             [] OTHER -> rewriteLeaf(rw, c, p, decisions)
      rw1 == FoldLeft(child, rw0, [i \in DOMAIN node.children |-> i])
  IN IF rw1.err # "" \/ rw1.injected THEN rw1 ELSE appendFallbackAlternativePart(rw1, path)

(* A single part becomes a multipart/mixed of itself (unless replaced) and  *)
(* the block.                                                               *)
rewriteTopLevelSinglePart(rw, node, path, decisions) ==
  appendFallbackAlternativePart(
    IF Replaced(decisions, path) THEN rw ELSE EmitWhole(rw, node, path), path)

(* stageToFile hands out a body only when the whole walk succeeded and run  *)
(* found that the block was written.                                        *)
Staged(rw) == rw.err = "" /\ rw.injected

(* run: decisions maps the path of each attachment Rewrite is told about to *)
(* its action.                                                              *)
RewriteRun(root, decisions) ==
  IF root.kind = "multipart" THEN rewriteMultipart(RewriteStart, root, <<0>>, decisions)
  ELSE rewriteTopLevelSinglePart(RewriteStart, root, <<0>>, decisions)
=============================================================================
