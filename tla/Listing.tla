------------------------------ MODULE Listing -------------------------------
(* The paged lists of the REST API while rows come, change and go: keyset   *)
(* pagination over (created_at, id) in internal/core/store/sqlite, and the  *)
(* deliverability report, which scans the links page by page and is itself  *)
(* paged by domain.                                                         *)
(*                                                                          *)
(* One client walks through one list.  A row keeps what that list tells     *)
(* apart: its creation time; its class, which stands for all that filters   *)
(* are about (a link's or message's status and recipient, an attachment's   *)
(* size, type and name); for the report, the recipient's domain and whether *)
(* the link was downloaded.                                                 *)
EXTENDS TimeText, Integers, SequencesExt, FiniteSetsExt

CONSTANTS
  Id,           \* row identifiers, in their order; never reused
  Class, Domain,
  Kind,         \* lists the client may walk through
  DefaultPage, MaxPage  \* page sizes (50 and 200 in the code)

ASSUME ListingAssumption ==
  /\ IsFiniteSet(Id) /\ Id \subseteq Nat \ {0}
  /\ IsFiniteSet(Domain) /\ "" \notin Domain   \* recipientDomain refuses an empty one
  /\ {DefaultPage, MaxPage} \subseteq Nat \ {0}

VARIABLES
  now,
  rows,         \* the table: [Id -> row], None if there is none
  used,         \* identifiers drawn so far
  stamped,      \* a row that has its created_at and is not committed yet
  walk,         \* the client's walk
  steady,       \* history: rows that match the query in every state since it began
  moved         \* history: the links changed since the walk began

vars == <<now, rows, used, stamped, walk, steady, moved>>

Unbounded == [sec |-> -1, frac |-> <<>>]
None == [at |-> Unbounded, class |-> "", dom |-> "", hit |-> FALSE]
NoStamp == [id |-> 0, row |-> None]
NoCursor == [text |-> <<>>, id |-> 0]

Epoch == [sec |-> 0, frac |-> [i \in 1 .. Precision |-> 0]]

Idle == [pc |-> "idle", kind |-> "", class |-> "", from |-> Unbounded, limit |-> 0, desc |-> FALSE,
         cursor |-> NoCursor, got |-> <<>>, domain |-> "", domains |-> <<>>]

Init ==
  /\ now = Epoch /\ rows = [i \in Id |-> None] /\ used = {} /\ stamped = NoStamp
  /\ \E k \in Kind : walk = [Idle EXCEPT !.kind = k]
  /\ steady = {} /\ moved = FALSE

Present == {i \in Id : rows[i] # None}

-----------------------------------------------------------------------------
(* Queries *)

EncodeCursor(i) == [text |-> Format(rows[i].at), id |-> i]

(* Mutant: the row of the cursor is read again. *)
AfterCursorAgain(i, cursor) ==
  \/ cursor = NoCursor
  \/ TextBefore(cursor.text, Format(rows[i].at))
  \/ cursor.text = Format(rows[i].at) /\ cursor.id <= i

(* created_at > ? OR (created_at = ? AND id > ?) *)
AfterCursor(i, cursor) ==
  \/ cursor = NoCursor
  \/ TextBefore(cursor.text, Format(rows[i].at))
  \/ cursor.text = Format(rows[i].at) /\ cursor.id < i

(* ORDER BY created_at ASC, id ASC *)
RowBefore(i, j) ==
  \/ TextBefore(Format(rows[i].at), Format(rows[j].at))
  \/ Format(rows[i].at) = Format(rows[j].at) /\ i < j

InOrder(S) ==
  CHOOSE f \in [1 .. Cardinality(S) -> S] : \A j, k \in DOMAIN f : j < k => RowBefore(f[j], f[k])

(* Mutant: the cursor points at the row that was dropped. *)
KeysetPageDropped(matching, cursor, limit) ==
  LET found == InOrder({i \in matching : AfterCursor(i, cursor)})
      more == Len(found) > limit
  IN [rows |-> IF more THEN SubSeq(found, 1, limit) ELSE found,
      next |-> IF more THEN EncodeCursor(found[limit + 1]) ELSE NoCursor]

(* LIMIT limit + 1: the extra row only proves that there is another page. *)
KeysetPage(matching, cursor, limit) ==
  LET found == InOrder({i \in matching : AfterCursor(i, cursor)})
      more == Len(found) > limit
  IN [rows |-> IF more THEN SubSeq(found, 1, limit) ELSE found,
      next |-> IF more THEN EncodeCursor(found[limit]) ELSE NoCursor]

(* created_at >= ?, in texts *)
FromBound(i, from) == from = Unbounded \/ ~TextBefore(Format(rows[i].at), Format(from))

ClampLimit(limit) == IF limit <= 0 THEN DefaultPage ELSE IF limit > MaxPage THEN MaxPage ELSE limit

OfClass(i, class) == class = "" \/ rows[i].class = class

Matching(q) == {i \in Present : OfClass(i, q.class) /\ FromBound(i, q.from)}

ListLinks(q) == KeysetPage(Matching(q), q.cursor, ClampLimit(q.limit))
ListMessages(q) == KeysetPage(Matching(q), q.cursor, ClampLimit(q.limit))
ListAttachments(q) == KeysetPage(Matching(q), q.cursor, ClampLimit(q.limit))
ListAPITokens(q) == KeysetPage(Present, q.cursor, ClampLimit(q.limit))

(* What the query means, by the clock. *)
Wanted(row, q) ==
  /\ row # None
  /\ q.class = "" \/ row.class = q.class
  /\ q.from = Unbounded \/ ~Before(row.at, q.from)

-----------------------------------------------------------------------------
(* Writers *)

IsReport == walk.kind = "report"
Walking == walk.pc = "walking"
Over == walk.pc \in {"done", "refused"}   \* nothing more is looked at

Write(table) ==
  /\ rows' = table
  /\ steady' = {i \in steady : Wanted(table[i], walk)}
  /\ moved' = (moved \/ walk.pc # "idle")

(* nowText: the clock does not go back.  The report's order does not depend *)
(* on it, so there time stands still.                                       *)
Advance ==
  /\ ~Over /\ ~IsReport
  /\ \E t \in Instant : Before(now, t) /\ now' = t
  /\ UNCHANGED <<rows, used, stamped, walk, steady, moved>>

Classes == IF walk.kind \in {"report", "tokens"} THEN {""} ELSE Class
Domains == IF IsReport THEN Domain ELSE {""}

(* A row takes its created_at from nowText before its statement waits for   *)
(* the one writer connection; ids are random.                               *)
Stamp ==
  /\ ~Over /\ stamped = NoStamp
  /\ \E i \in Id \ used, c \in Classes, d \in Domains :
       /\ stamped' = [id |-> i, row |-> [at |-> now, class |-> c, dom |-> d, hit |-> FALSE]]
       /\ used' = used \cup {i}
  /\ UNCHANGED <<now, rows, walk, steady, moved>>

Commit ==
  /\ ~Over /\ stamped # NoStamp /\ stamped' = NoStamp
  /\ Write([rows EXCEPT ![stamped.id] = stamped.row])
  /\ UNCHANGED <<now, used, walk>>

(* A link is revoked or expires, a message is processed. *)
Reclassify ==
  /\ ~Over /\ walk.kind # "attachments"
  /\ \E i \in Present, c \in Classes : rows[i].class # c /\ Write([rows EXCEPT ![i].class = c])
  /\ UNCHANGED <<now, used, stamped, walk>>

Download ==
  /\ ~Over /\ IsReport
  /\ \E i \in Present : ~rows[i].hit /\ Write([rows EXCEPT ![i].hit = TRUE])
  /\ UNCHANGED <<now, used, stamped, walk>>

(* Retention purges an expired attachment with its links. *)
Purge ==
  /\ ~Over /\ walk.kind # "tokens"
  /\ \E i \in Present : Write([rows EXCEPT ![i] = None])
  /\ UNCHANGED <<now, used, stamped, walk>>

-----------------------------------------------------------------------------
(* The client.  parseLimit refuses a limit outside 1..MaxPage; an absent    *)
(* one is 0.  A lower bound is at a full second.                            *)
Begin ==
  /\ walk.pc = "idle"
  /\ \E limit \in {0, MaxPage}, desc \in BOOLEAN, c \in {"", CHOOSE c \in Classes : TRUE},
        from \in {Unbounded, Epoch} :
       /\ walk.kind \in {"tokens", "report"} => from = Unbounded
       /\ IsReport \/ ~desc
       /\ walk' = [walk EXCEPT !.pc = "walking", !.class = c, !.from = from, !.limit = limit, !.desc = desc]
       /\ steady' = {i \in Id : Wanted(rows[i], walk')}
  /\ UNCHANGED <<now, rows, used, stamped, moved>>

(* A handler answers with one page; the client goes on with its cursor.     *)
(* The walk is over when there is none.                                     *)
Serve(page) ==
  /\ walk' = [walk EXCEPT !.got = @ \o page.rows, !.cursor = page.next,
                          !.pc = IF page.next = NoCursor THEN "done" ELSE "walking"]
  /\ UNCHANGED <<now, rows, used, stamped, steady, moved>>

listLinks == Walking /\ walk.kind = "links" /\ Serve(ListLinks(walk))
listMessages == Walking /\ walk.kind = "messages" /\ Serve(ListMessages(walk))
listAttachments == Walking /\ walk.kind = "attachments" /\ Serve(ListAttachments(walk))
listAPITokens == Walking /\ walk.kind = "tokens" /\ Serve(ListAPITokens(walk))

-----------------------------------------------------------------------------
(* The report.  got collects the links of one scan as [dom, hit], read when *)
(* their page was.                                                          *)

(* The map of counters, one entry for each domain that was seen. *)
Rates(scan) ==
  [d \in {scan[k].dom : k \in DOMAIN scan} |->
    [created |-> Cardinality({k \in DOMAIN scan : scan[k].dom = d}),
     downloaded |-> Cardinality({k \in DOMAIN scan : scan[k].dom = d /\ scan[k].hit})]]

DomainRank == CHOOSE f \in [Domain -> 1..Cardinality(Domain)] : \A x, y \in Domain : f[x] = f[y] => x = y

(* By download rate, then by name. *)
WorseRate(rates, d, e) ==
  LET x == rates[d]  y == rates[e]
  IN \/ x.downloaded * y.created < y.downloaded * x.created
     \/ x.downloaded * y.created = y.downloaded * x.created /\ DomainRank[d] < DomainRank[e]

ByRate(rates) ==
  CHOOSE f \in [1 .. Cardinality(DOMAIN rates) -> DOMAIN rates] :
    \A j, k \in DOMAIN f : j < k => WorseRate(rates, f[j], f[k])

ComputeDeliverability(scan) == ByRate(Rates(scan))

(* One iteration of ComputeDeliverability's loop. *)
ScanPage ==
  /\ Walking /\ walk.kind = "report"
  /\ LET page == ListLinks([walk EXCEPT !.limit = DefaultPage])
         seen == [k \in DOMAIN page.rows |-> [id |-> page.rows[k], dom |-> rows[page.rows[k]].dom, hit |-> rows[page.rows[k]].hit]]
     IN walk' = [walk EXCEPT !.got = @ \o seen, !.cursor = page.next,
                             !.pc = IF page.next = NoCursor THEN "scanned" ELSE "walking"]
  /\ UNCHANGED <<now, rows, used, stamped, steady, moved>>

indexOfDomain(entries, d) == {k \in DOMAIN entries : entries[k] = d}

(* Mutant: the page begins with the domain of the cursor. *)
StartOfPageAgain(entries) ==
  IF walk.domain = "" THEN 1 ELSE CHOOSE k \in indexOfDomain(entries, walk.domain) : TRUE

StartOfPage(entries) ==
  IF walk.domain = "" THEN 1 ELSE 1 + CHOOSE k \in indexOfDomain(entries, walk.domain) : TRUE

(* handleStatsDeliverability, after the scan: sort, reverse if asked, and   *)
(* slice after the cursor's domain; 400 if it is no longer there.           *)
handleStatsDeliverability ==
  /\ walk.pc = "scanned"
  /\ LET sorted == ComputeDeliverability(walk.got)
         entries == IF walk.desc THEN Reverse(sorted) ELSE sorted
         lost == walk.domain # "" /\ indexOfDomain(entries, walk.domain) = {}
         start == StartOfPage(entries)
         beyond == start - 1 + (IF walk.limit <= 0 THEN DefaultPage ELSE walk.limit)
         end == IF beyond > Len(entries) THEN Len(entries) ELSE beyond
         more == end < Len(entries)
     IN walk' = IF lost THEN [walk EXCEPT !.pc = "refused", !.got = <<>>]
                ELSE [walk EXCEPT !.domains = @ \o SubSeq(entries, start, end), !.got = <<>>,
                                  !.domain = IF more THEN entries[end] ELSE "",
                                  !.pc = IF more THEN "walking" ELSE "done"]
  /\ UNCHANGED <<now, rows, used, stamped, steady, moved>>

-----------------------------------------------------------------------------
Next ==
  \/ Advance \/ Stamp \/ Commit \/ Reclassify \/ Download \/ Purge \/ Begin
  \/ listLinks \/ listMessages \/ listAttachments \/ listAPITokens
  \/ ScanPage \/ handleStatsDeliverability

Spec == Init /\ [][Next]_vars

-----------------------------------------------------------------------------
(* Properties. *)

Rows == ~IsReport
Listed(i) == i \in ToSet(walk.got)

(* No row is returned twice, whatever is written between two pages: what    *)
(* EncodeCursor's comment holds against offset pagination ("silently skips  *)
(* or repeats rows when concurrent writes land between two page requests"). *)
NothingTwice == Rows => \A j, k \in DOMAIN walk.got : walk.got[j] = walk.got[k] => j = k

(* A row that matches the query from its first page to its last is on one   *)
(* of them.  "Matches" is by the clock; since the bound is compared as text *)
(* the rows of the very second of `from` are excepted.                      *)
SteadyRowsListed ==
  Rows /\ walk.pc = "done" => \A i \in steady : Listed(i) \/ rows[i].at.sec = walk.from.sec

(* A deadline or a creation time in another second than the query's is      *)
(* decided correctly by the comparison of texts (every expires_at,          *)
(* retain_until and created_at condition of the store).  Within one second  *)
(* it is not: 05.12Z sorts after 05.123Z, whatever timeLayout's comment says.*)
RightToTheSecond ==
  \A i \in Present : rows[i].at.sec # now.sec =>
    (TextBefore(Format(rows[i].at), Format(now)) <=> Before(rows[i].at, now))

(* Equal texts are equal instants, so the cursor's "created_at = ?" means   *)
(* what it says.                                                            *)
FormatInjective ==
  \A i \in Present : Format(rows[i].at) = Format(now) <=> rows[i].at = now

(* Every domain of the report comes on exactly one page, worst rate first,  *)
(* if the links do not change between the requests, although each request   *)
(* scans the links anew.  (If they do, a domain whose rate moved may be     *)
(* skipped or repeated: the cursor is a domain, not a rate.)                *)
ReportComplete ==
  walk.kind = "report" /\ walk.pc # "idle" /\ ~moved =>
    LET wanted == {i \in Present : FromBound(i, walk.from)}
        scan == SetToSeq({[id |-> i, dom |-> rows[i].dom, hit |-> rows[i].hit] : i \in wanted})
        sorted == ComputeDeliverability(scan)
        entries == IF walk.desc THEN Reverse(sorted) ELSE sorted
    IN IsPrefix(walk.domains, entries) /\ (walk.pc = "done" => walk.domains = entries)

(* A client that pages to the end sees each row that stayed, exactly once,  *)
(* because the texts the pages are ordered by keep the instants apart and,  *)
(* to the second, in order.                                                 *)
PagesExact == NothingTwice /\ SteadyRowsListed /\ RightToTheSecond /\ FormatInjective
=============================================================================
