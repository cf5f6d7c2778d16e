---------------------------- MODULE MessageTree ----------------------------
(* core/message: the walk over a MIME tree that finds every leaf part and   *)
(* enforces the limits.                                                     *)
(*                                                                          *)
(* A node is [kind, type, headers] with, for a leaf, filename, extension,   *)
(* disposition, cid, detected, size, refs (text/html: the Content-IDs it    *)
(* embeds, with the byte offset at which each reference ends) and           *)
(* eofWithLastByte (the decoding reader returns its last byte together with *)
(* io.EOF, as mime/multipart does for an unencoded part); for a multipart,  *)
(* children and boundary; for a message/rfc822, body.  A part's path is the *)
(* sequence of indices below the root <<0>>.                                *)
EXTENDS Naturals, Sequences, SequencesExt

CONSTANTS
  MaxDepth, MaxParts, MaxHeaders, MaxPartSize, MaxTotalSize,  \* message.Limits
  MaxAttachmentSize                                           \* 0: no such check

(* Absent or malformed Content-Type: RFC 2045's text/plain. *)
mediaType(node) == IF node.type = "malformed" THEN "text/plain" ELSE node.type

classifyDisposition(node) ==
  IF node.disposition \in {"inline", "attachment"} THEN node.disposition
  ELSE IF mediaType(node) \in {"text/plain", "text/html"} THEN "inline" ELSE "attachment"

(* The leaf's attributes; an inline asset has a Content-ID and sits         *)
(* directly in a multipart/related (ADR-016).                               *)
Attachment(node, path, parentType) ==
  [path |-> path, filename |-> node.filename, extension |-> node.extension,
   declared |-> mediaType(node), detected |-> node.detected, size |-> node.size,
   disposition |-> classifyDisposition(node), cid |-> node.cid, refs |-> node.refs,
   inlineAsset |-> node.cid # "" /\ parentType = "multipart/related"]

(* walkState: counters shared by the whole walk, the leaves so far and the  *)
(* error that ended it.                                                     *)
WalkStart == [parts |-> 0, total |-> 0, atts |-> <<>>, err |-> ""]

Failed(st, why) == [st EXCEPT !.err = why]

(* Mutant: every leaf may be one byte too large. *)
limitedReaderOneOver(node) ==
  CASE MaxAttachmentSize = 0 \/ node.size <= MaxAttachmentSize -> node.size
    [] node.size = MaxAttachmentSize + 1 -> MaxAttachmentSize
    [] OTHER -> MaxAttachmentSize + 1

(* What the processor's callback sees through its limitedReader: more than  *)
(* MaxAttachmentSize bytes are an error, unless the one byte read beyond    *)
(* the limit arrives together with io.EOF, when it is dropped.              *)
limitedReader(node) ==
  CASE MaxAttachmentSize = 0 \/ node.size <= MaxAttachmentSize -> node.size
    [] node.size = MaxAttachmentSize + 1 /\ node.eofWithLastByte -> MaxAttachmentSize
    [] OTHER -> MaxAttachmentSize + 1

(* emitLeaf with limitedCountingReader: both sizes are counted on the       *)
(* decoded bytes.                                                           *)
emitLeaf(st, node, path, parentType) ==
  CASE node.size > MaxPartSize -> Failed(st, "part_size")
    [] st.total + node.size > MaxTotalSize -> Failed(st, "total_size")
    [] MaxAttachmentSize > 0 /\ limitedReader(node) > MaxAttachmentSize -> Failed(st, "attachment_size")
    [] OTHER -> [st EXCEPT !.total = @ + node.size,
                           !.atts = Append(@, [Attachment(node, path, parentType) EXCEPT !.size = limitedReader(node)])]

RECURSIVE walkPart(_, _, _, _, _)

(* walkMultipart's loop over the children, stopping at the first error. *)
walkMultipart(st, node, path, depth) ==
  CASE ~node.boundary -> Failed(st, "boundary")
    [] depth + 1 > MaxDepth -> Failed(st, "depth")
    [] OTHER ->
       FoldLeft(LAMBDA s, i :
                  CASE s.err # "" -> s
                    [] node.children[i].headers > MaxHeaders -> Failed(s, "headers")
                    [] OTHER -> walkPart(s, node.children[i], Append(path, i), depth + 1, mediaType(node)),
                st, [i \in DOMAIN node.children |-> i])

(* Mutant: a nested message does not cost depth. *)
walkNestedMessageFree(st, node, path, depth) ==
  IF node.body.headers > MaxHeaders THEN Failed(st, "headers")
  ELSE walkPart(st, node.body, path, depth, "")

(* Mutant: the headers of a nested message are not counted. *)
walkNestedMessageHeaders(st, node, path, depth) ==
  IF depth + 1 > MaxDepth THEN Failed(st, "depth")
  ELSE walkPart(st, node.body, path, depth + 1, "")

(* The envelope's own root part keeps the path and has no parent container. *)
walkNestedMessage(st, node, path, depth) ==
  CASE depth + 1 > MaxDepth -> Failed(st, "depth")
    [] node.body.headers > MaxHeaders -> Failed(st, "headers")
    [] OTHER -> walkPart(st, node.body, path, depth + 1, "")

(* Mutant: only the leaves are counted. *)
walkPartLeavesCounted(st, node, path, depth, parentType) ==
  CASE node.kind = "multipart" -> walkMultipart(st, node, path, depth)
    [] node.kind = "rfc822" -> walkNestedMessage(st, node, path, depth)
    [] st.parts + 1 > MaxParts -> Failed(st, "parts")
    [] OTHER -> emitLeaf([st EXCEPT !.parts = @ + 1], node, path, parentType)

walkPart(st0, node, path, depth, parentType) ==
  LET st == [st0 EXCEPT !.parts = @ + 1]
  IN CASE st.parts > MaxParts -> Failed(st, "parts")
       [] node.kind = "multipart" -> walkMultipart(st, node, path, depth)
       [] node.kind = "rfc822" -> walkNestedMessage(st, node, path, depth)
       [] OTHER -> emitLeaf(st, node, path, parentType)

Parse(root) ==
  IF root.headers > MaxHeaders THEN Failed(WalkStart, "headers")
  ELSE walkPart(WalkStart, root, <<0>>, 0, "")

-----------------------------------------------------------------------------
(* Reference definitions, independent of the walk. *)

RECURSIVE Leaves(_, _)
(* The leaves of a tree as a set of [path, node]. *)
Leaves(node, path) ==
  CASE node.kind = "multipart" -> UNION {Leaves(node.children[i], Append(path, i)) : i \in DOMAIN node.children}
    [] node.kind = "rfc822" -> Leaves(node.body, path)
    [] OTHER -> {[path |-> path, node |-> node]}

RECURSIVE Nodes(_)
(* All nodes of a tree, the containers and envelopes among them. *)
Nodes(node) ==
  CASE node.kind = "multipart" -> <<node>> \o FlattenSeq([i \in DOMAIN node.children |-> Nodes(node.children[i])])
    [] node.kind = "rfc822" -> <<node>> \o Nodes(node.body)
    [] OTHER -> <<node>>

RECURSIVE Depth(_)
Depth(node) ==
  CASE node.kind = "multipart" -> 1 + FoldLeft(LAMBDA d, c : IF Depth(c) > d THEN Depth(c) ELSE d, 0, node.children)
    [] node.kind = "rfc822" -> 1 + Depth(node.body)
    [] OTHER -> 0

RECURSIVE WrapsEnvelope(_)
(* Some message/rfc822 (or the top level) has another one as its body. *)
WrapsEnvelope(node) ==
  CASE node.kind = "multipart" -> \E i \in DOMAIN node.children : WrapsEnvelope(node.children[i])
    [] node.kind = "rfc822" -> node.body.kind = "rfc822" \/ WrapsEnvelope(node.body)
    [] OTHER -> FALSE
=============================================================================
