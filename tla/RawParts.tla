------------------------------ MODULE RawParts ------------------------------
(* core/rewrite: rawMultipartReader, which cuts a multipart body into raw   *)
(* parts line by line, and boundaryWriter, which puts parts together again. *)
(* The rewriter re-emits every kept part through this pair.                 *)
(*                                                                          *)
(* A line is [text, nl]: only the last one may lack its line break.  What   *)
(* a text tells apart is whether it starts with "--boundary", what follows, *)
(* and whether it parses as a header field.  Lines fit the reader's 32 KiB  *)
(* buffer, so one ReadSlice is one line.                                    *)
EXTENDS Naturals, Sequences, SequencesExt

CONSTANT MaxLines    \* bound on the lines after the first delimiter

Blank == [dash |-> FALSE, close |-> FALSE, rest |-> "", field |-> FALSE]
Field == [Blank EXCEPT !.rest = "Name: value", !.field = TRUE]
Prose == [Blank EXCEPT !.rest = "prose"]
Dash == [Blank EXCEPT !.dash = TRUE]
Padded == [Dash EXCEPT !.rest = " "]
Longer == [Dash EXCEPT !.rest = "prose"]    \* the boundary is a prefix of this line
Closing == [Dash EXCEPT !.close = TRUE]
Texts == {Blank, Field, Prose, Dash, Padded, Longer, Closing}

Broken(t) == [text |-> t, nl |-> TRUE]

isTransportPadding(rest) == rest \in {"", " "}

(* Mutant: whatever starts like the boundary is one. *)
classifyBoundaryLinePrefix(t) ==
  IF ~t.dash THEN "notBoundary" ELSE IF t.close THEN "closeDelimiter" ELSE "delimiter"

classifyBoundaryLine(t) ==
  CASE ~t.dash \/ ~isTransportPadding(t.rest) -> "notBoundary"
    [] t.close -> "closeDelimiter"
    [] OTHER -> "delimiter"

isBlankLine(l) == l.text = Blank

(* A line without its break; nothing, if the line was empty. *)
stripTrailingCRLF(line) == IF line.text = Blank THEN <<>> ELSE <<[line EXCEPT !.nl = FALSE]>>

-----------------------------------------------------------------------------
(* The reader: [in, done, consumed, err] with the lines still unread.       *)

newRawMultipartReader(in) == [in |-> in, done |-> FALSE, consumed |-> FALSE, err |-> FALSE]

Fails(r) == [r EXCEPT !.err = TRUE]

RECURSIVE skipToBoundary(_)
skipToBoundary(r) ==
  IF r.in = <<>> THEN Fails(r) ELSE
  LET kind == classifyBoundaryLine(Head(r.in).text)
      next == [r EXCEPT !.in = Tail(@)]
  IN IF kind = "notBoundary" THEN skipToBoundary(next)
     ELSE [next EXCEPT !.done = (kind = "closeDelimiter")]

RECURSIVE readHeader(_, _)
(* [r, header]: up to the blank line or an unbroken last line; lines that   *)
(* are no header fields, delimiters included, make the block malformed.     *)
readHeader(r, header) ==
  IF r.in = <<>> THEN [r |-> Fails(r), header |-> header] ELSE
  LET line == Head(r.in)
      next == [r EXCEPT !.in = Tail(@), !.err = @ \/ (~isBlankLine(line) /\ ~line.text.field)]
  IN IF isBlankLine(line) \/ ~line.nl THEN [r |-> next, header |-> Append(header, line)]
     ELSE readHeader(next, Append(header, line))

RECURSIVE fill(_, _, _)
(* [r, body]: partBody.Read until it reports io.EOF or fails, with at most  *)
(* one line held back until the next one is known not to be a delimiter.    *)
fill(r, pending, out) ==
  IF r.in = <<>> THEN [r |-> Fails(r), body |-> out] ELSE
  LET line == Head(r.in)
      kind == classifyBoundaryLine(line.text)
      next == [r EXCEPT !.in = Tail(@)]
  IN CASE kind # "notBoundary" ->
            [r |-> [next EXCEPT !.consumed = TRUE, !.done = (kind = "closeDelimiter")],
             body |-> out \o (IF pending = <<>> THEN <<>> ELSE stripTrailingCRLF(pending[1]))]
       [] ~line.nl -> [r |-> next, body |-> out \o pending \o <<line>>]
       [] OTHER -> fill(next, <<line>>, out \o pending)

(* NextPart and the body of the part: [r, part], no part at the end. *)
NextPart(r) ==
  LET at == IF r.done THEN r ELSE IF r.consumed THEN [r EXCEPT !.consumed = FALSE] ELSE skipToBoundary(r)
      h == readHeader(at, <<>>)
      b == fill(h.r, <<>>, <<>>)
  IN CASE at.done \/ at.err -> [r |-> at, part |-> <<>>]
       [] h.r.err -> [r |-> h.r, part |-> <<>>]
       [] OTHER -> [r |-> b.r, part |-> <<[header |-> h.header, body |-> b.body]>>]

RECURSIVE ReadParts(_, _)
(* The caller's loop: every part until io.EOF or an error. *)
ReadParts(r, parts) ==
  LET n == NextPart(r)
  IN IF n.r.err \/ n.part = <<>> THEN [parts |-> parts, err |-> n.r.err]
     ELSE ReadParts(n.r, parts \o n.part)

Split(in) == ReadParts(newRawMultipartReader(in), <<>>)

-----------------------------------------------------------------------------
(* The writer.  A part never brings its own final line break: the delimiter *)
(* that follows does.                                                       *)

(* Mutant: a delimiter relies on the part to end its last line. *)
CRLFBeforeMissing(out) == out

(* "\r\n" before every delimiter but the first. *)
CRLFBefore(out) ==
  IF out = <<>> THEN out
  ELSE IF Last(out).nl THEN Append(out, Broken(Blank))
  ELSE Front(out) \o <<[Last(out) EXCEPT !.nl = TRUE]>>

writePart(out, part) == CRLFBefore(out) \o <<Broken(Dash)>> \o part.header \o part.body

writeClosing(out, finalCRLF) == CRLFBefore(out) \o <<[text |-> Closing, nl |-> finalCRLF]>>

Join(parts, finalCRLF) == writeClosing(FoldLeft(writePart, <<>>, parts), finalCRLF)

-----------------------------------------------------------------------------
(* Properties, over every body of up to MaxLines lines after a delimiter,   *)
(* with or without a preamble, the last line broken or not.                 *)

Bodies ==
  {pre \o <<Broken(Dash)>> \o [i \in DOMAIN s |-> [text |-> s[i], nl |-> i < Len(s) \/ last \/ s[i] = Blank]] :
     pre \in {<<>>, <<Broken(Prose)>>},
     s \in UNION {[1..n -> Texts] : n \in 0..MaxLines},
     last \in BOOLEAN}

IsDelimiter(l) == l.text \in {Dash, Padded, Closing}

(* What RFC 2046 calls the parts: the lines between delimiters, cut at the  *)
(* first empty line; the break before a delimiter belongs to the delimiter. *)
PartAt(in, from, to) ==
  LET blank == CHOOSE k \in from + 1 .. to - 1 : in[k].text = Blank /\ \A j \in from + 1 .. k - 1 : in[j].text # Blank
      body == SubSeq(in, blank + 1, to - 1)
  IN [header |-> SubSeq(in, from + 1, blank),
      body |-> IF body = <<>> THEN body
               ELSE Front(body) \o (IF Last(body).text = Blank THEN <<>> ELSE <<[Last(body) EXCEPT !.nl = FALSE]>>)]

(* A body the streaming reader takes is closed, and cut exactly as the      *)
(* grammar says: a line that merely begins like the boundary stays content, *)
(* no line is lost at a cut, and a truncated body is refused.               *)
SplitAgrees ==
  \A in \in Bodies :
    LET got == Split(in)
        marks == SetToSortSeq({k \in DOMAIN in : IsDelimiter(in[k])}, <)
        close == SelectInSeq(marks, LAMBDA k : in[k].text = Closing)
    IN ~got.err =>
         /\ close > 0
         /\ got.parts = [i \in 1 .. close - 1 |-> PartAt(in, marks[i], marks[i + 1])]

(* Writing the parts and reading them again gives the same parts, however   *)
(* often the message passes through: a kept part is not changed by a byte,  *)
(* and no cut moves, whichever parts were left out.                         *)
RejoinStable ==
  \A in \in Bodies :
    LET got == Split(in)
        kept == {got.parts} \cup {SubSeq(got.parts, 2, Len(got.parts))}
    IN ~got.err => \A ps \in kept, crlf \in BOOLEAN : Split(Join(ps, crlf)) = [parts |-> ps, err |-> FALSE]
=============================================================================
