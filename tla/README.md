# A formal model of Attachra

Attachra sits between a mail server and its recipients. It takes the large
attachments out of outgoing mail, stores them, and puts a link to a download
page into the message; operators revoke links, put them under legal hold and
read a tamper-evident audit log; a background sweeper deletes what has outlived
its retention. This directory models that program in TLA+: the modules are
checked on small instances by TLC, and 29 of the 40 properties those runs check are
also proved, for every instance, by TLAPS.

Every definition is a translation of the Go source; `PROJECT.json` ("map")
names the lines. Properties state what the code, its comments, its tests or its
documents promise.

## 1. Inventory

| Component | State | Operations | Hard behaviour | What makes it correct |
|---|---|---|---|---|
| mail pipeline (`core/pipeline`) | objects uploaded so far, compensation flag | parse, evaluate, upload, create links, rewrite, roll back | every step can fail after others were committed; crash; several messages at once | no dead link in a delivered message, no lost object, no dangling row |
| link engine (`core/link`) | none of its own | create, resolve, register download, revoke, hold, purge | check-then-act over several statements | budget, finality of revoke, hold respected |
| metadata store (`core/store/sqlite`) | four tables, audit table, API tokens | guarded inserts, updates, deletes, listings | one writer, many readers; times compared as text | references, guards evaluated inside the statement |
| audit log (`core/audit`, `store/sqlite/audit.go`) | rows with seq and prev_hash | record, truncate, list, verify, export | producers race for the writer; truncation races holds, pagination and verification | chain verifies, nothing protected is removed, no silent gap |
| retention sweeper (`core/retention`) | cutoff, current chunk | expire, list, purge, truncate audit | storage and database fail separately; holds arrive in the middle; failing rows | held data survives, backlog drains |
| milter adapter (`adapters/milter`) | header block, body spool | header, body, end of message, apply verdict | modifications cannot be withdrawn; indices shift | exact reconciliation, configured failure answer |
| HTTP adapters (`adapters/http`) | rate-limit buckets | download, package page, REST API | concurrent requests against shared limits | charge before serve, limits, authorisation |
| policy engine and store (`core/policy`) | current policy | evaluate, reload | reload during evaluation | first match, last valid policy stays |
| message parser and rewriter (`core/message`, `core/rewrite`) | MIME tree | parse with limits, remove parts, insert block | nesting and size limits, promotion of a single part | untouched parts stay, exactly the decided parts go |
| object storage (`core/storage`) | objects | put, get, delete, stat | crash during put | no partial object visible |
| configuration (`internal/config`) | - | load, override, expand, validate | checks repeated from packages it may not import; absent, blank and opted out look alike | what is accepted starts and exposes no more than asked |
| server command (`cmd/attachra`) | two loops, two adapters, deferred calls | start, reload, stop | early returns, signals, adapters that fail alone | always exits, closes the store last, loses no reload |
| operator commands (`setup`, `link`, `audit`, `token`, `doctor`) | files of the configuration directory | ask, back up, write, verify, undo | killed or failing between two files | the old configuration is never lost |
| statistics and metrics | - | fold the audit log, page the deliverability report | recomputed for every page | each domain once |

The components interact through two shared stores only: the SQLite database
(one writer connection, so that committed statements never overlap) and the
object storage. There is no transaction over both, and most engine operations
are several statements long; that is where the hazards are. The complete list,
with lines, is "hazards" in `PROJECT.json`.

## 2. Modules

| Module | Models |
|---|---|
| `Persistence` | tables `messages`, `attachments`, `links`, `message_links` and the object storage; one operator per committed statement or transaction |
| `Pipeline` | the replace path of `AttachmentProcessor.Process` against those stores, `CreateLinks`, `PurgeMessage` |
| `Retention` | `Sweeper.Sweep`, `purgeAndRecord`, `purgeOne` |
| `LinkEngine` | `serveDownload` with `RegisterPackageDownload`; `Revoke`, `RevokeMessage`, `RevokeSender`, `SetHold` |
| `Delivery` | composition of these four, with clock and crash |
| `Backlog` | the sweeper alone on an expired backlog, with fairness |
| `AuditLog` | `Record`, `TruncateAudit`, `ListEvents`, `audit.Verify` |
| `Policy` | validation with its warnings, matching, evaluation, merge over recipients, dry run |
| `MessageTree` | the parser's walk over a MIME tree with its limits |
| `Rewrite` | the rewriter's walk over the same tree: removal, block, promotion |
| `RawParts` | the streaming multipart reader and the boundary writer, line by line |
| `MailPath` | `Process` for one message from the captured body to the verdict; composes the last four |
| `Milter` | one milter session: callbacks, verdict, header reconciliation, failure mode |
| `Throttle` | token bucket, evicting LRU map, client address behind proxies |
| `Gate` | listener limit, rate limits, authentication, roles, heavy-request limit, API tokens; composes `Throttle` for concurrent requests |
| `TimeText`, `Listing` | timestamps as texts; the keyset listings and the deliverability report while rows change |
| `ObjectStore` | abstract specification: what `storage.Driver` promises |
| `FileStore` | the fs driver call by call; implements `ObjectStore` |
| `Config` | defaults, file, environment, placeholders, `Validate`, the checks of the constructors |
| `Setup` | `attachra setup`, one file-system call per step |
| `Server` | the server process: start-up, loops, adapters, reload, signals, deferred teardown |
| `Command` | `run()`: composes `Config`, `Setup` and `Server` |
| `MC...` | constants and symmetry sets for TLC |
| `AuditLogProofs`, `DeliveryProofs`, `FileStoreProofs`, `GateProofs`, `ListingProofs`, `MilterProofs`, `ServerProofs`, `CommandProofs` | the theorems about the module of that name, with the inductive invariant and the lemmas they rest on; `CommandProofs` has those about `Setup` too and uses those of `Server` |

### How state and actions correspond

*Rows.* Identifiers are random in the code, so a row is named by what it stands
for: a link is an (attachment, recipient) pair, a package page a (message,
recipient) pair, an object its attachment. Status `"none"` and `NoRow` mean that
there is no row. Only the columns some decision reads are kept.

*Atomicity.* One action is one committed statement or transaction, one storage
or file-system call, one critical section, or one in-memory step between two of
these. Every request is a small program counter (`proc`, `sweep`, `dl`, `op`,
`req`, `call`, `setup`), so that any other component may run between two steps
of the same function. A value the code reads and keeps (the engine's
`nowText()`, the sweeper's cutoff, a bucket taken from the map, an open file) is
kept in that record and may be stale when used. `MailPath` is the exception: one
message is processed by one goroutine on data nobody else sees, so its steps are
the phases of `Process`, and the shared effects are `Pipeline`'s.

*Failure.* Each call that may fail has a failing action that does what the code
does on an error. `Crash` and `Killed` drop all in-memory state and keep
database, storage and files.

*Data.* A MIME tree is a tree of records that carry what the byte-level code
finds in a part (declared and detected type, size, references); a glob is the
set of texts it matches; a line of a multipart body is told by how it begins; a
header value is what it says and the kind of white space between its words; a
configuration value is a representative of its class; a file is told by who
wrote it; `HashRecord` covers every column, so that the hash of a row is the row
itself, boxed: SHA-256 without collisions.

*History.* `granted`, `served`, `cut`, `leaked`, `protected`, `recorded`,
`pushedOut`, `steady`, `moved`, `before`, `lost`, `stranded`, `asked` and the
flags of a request exist only to state properties; no guard reads them, except
for the bounds on `granted` and on the length of `recorded`.

## 3. Runs

| Run | Question | Bounds |
|---|---|---|
| `delivery_downloads` | Can a link be over-spent, spent by somebody else, or used after a revoke? | two downloads, one operator, one attachment, two recipients: two requests are enough for a race on a counter |
| `delivery_retention` | What can the sweeper destroy or leave behind? | two attachments of one message, one recipient, one operator, one crash, faults on both attachments; the clock runs past TTL and retention |
| `backlog` | Is the backlog purged and the audit log truncated in spite of failing rows? | three attachments, chunk of two, one permanently failing row |
| `audit` | Does the log always verify, is everything protected kept, can a truncation hide events from a paging client? | two writers, four rows, four clock values, one client with pages of one: room for two truncations, the second removing the first one's checkpoint |
| `mail_path` | What do recipients get? | 27 trees with one case each of what parser and rewriter tell apart (disguised and embedded parts, forwarded messages, every limit crossed, those that count through containers and forwarded messages also by nothing but these), 15 policies, among them one and the same recipient in dry run under a severer and under an equal rule than the others', 5 envelopes; bodies of up to five lines after the first delimiter |
| `milter` | Does the MTA end up with exactly the rewritten header block? | two names, two texts, folded evenly, behind blanks or before the first word, up to three original and two wanted occurrences of a name |
| `gate` | Are the limits exact and the identities right? | two requests, three clients and a proxy, two tokens, two connections, one heavy slot, maps of two entries, a bucket charged at most one tick after it was looked up: every limit can be reached, both kinds of eviction happen, and a request can charge a bucket that has just been evicted |
| `listing` | Does a client that pages to the end see everything once? | three rows, pages of one and two, two seconds with one fraction digit, both directions, all five lists |
| `storage` | Does the fs driver do what `storage.Driver` promises? | two callers, two keys of which one is not well formed, payloads of one and two chunks, three inodes: two Puts and the old object |
| `server` | Does the command start what it accepts, stop when told, reload what was asked, and destroy no configuration? | two versions of the policy file, the second broken; two runs of `setup`; every key of the configuration alone, those of a section in pairs, from file and environment |
| `held_not_revoked`, `closed_temp_fails` | disagreements between the code and what it says of itself (section 5) | the smallest instance that shows each |

Deadlock is checked except in `listing`, where the client's walk ends. Symmetry is used for
interchangeable downloads, attachments, writers, clients, requests and callers,
never in a run with a liveness property. The spool, chunk and size limits are
small numbers that keep the order of the real ones.

### Properties

*Downloads* (`Delivery`): `DownloadBudget` - a link never grants more downloads
than its budget, and bytes are streamed only for a charged one.
`BudgetIsolation` - a mailed package token spends only its own recipient's
budget. `RevokedIsFinal` - after a revoke answered success, the link's counter
never moves and its page never resolves.

*Retention* (`Delivery`): `RefIntegrity`, `NoDeadLink` (a valid link of a
delivered message leads to stored bytes), `NoOrphanObject` (retention never
loses track of an object; what a failed roll-back or a crash before the insert
leaves is recorded in `leaked`, and nothing else is), `HeldRowsSurvive`,
`HeldBytesSurvive`. The last one is stated for holds set before the sweeper's
re-check: the window after it is documented in `sweeper.go` as the residual case.

*Backlog*: `BacklogDrains`, `AuditRuns`, under weak fairness of the sweeper's
step. The loop goroutine is never blocked by another component and the ticker
keeps firing, which is all this assumes; a storage call that always fails is
allowed for the attachments of `Broken`, and the attachments outside `Faulty`
do not fail.

*Audit log*: `ChainVerifies`, `TamperEvident`, `SeqNeverReused`,
`HeldEventsKept`, `RecentEventsKept`, `NoSilentGap`. Deletion of the newest rows
is not noticed by `Verify` (`TestVerifyDoesNotDetectTailDeletion`), so
`TamperEvident` leaves it out.

*Mail path*: `PartsAccounted` - each part of a rewritten message is written once
or stored, and what is stored is not written. `BlockOnce` - the recipient gets
the link, and each rendering once. `BodyKeptNotExempt` - the text of a message
is never taken out, and never exempt from a block. `EmbeddedImageKept` - the
fail-safe of the scan for embedded images. `PolicyFollowed` - what the rules in
force say happens, for each recipient: a block in force rejects, a replacement in
force takes the part out, nothing else does either; links are no more generous than
any recipient's rule; rules called unreachable never decide. A recipient's decision
is in force (`InForce`) unless it is in dry run itself or overruled by another's that
is: section 5 says why there is a second half. `LimitsHold` - a message that gets a
verdict was within every limit as a whole: depth, number of parts with the
containers among them, headers of each, sizes of part, message and attachment, the
last one with the exception `limitedReader` makes (section 5). `CutsExact` - for every body of a few
lines the streaming reader cuts as the grammar says and re-emitting is stable (a
fact about operators, checked where the rewriter runs).

*Milter*: `ReconcileExact` - each name ends with the wanted values in order;
`UnchangedUntouched` - at every moment of the modifier calls, names the rewrite
passes through keep their lines, folds and order, and so does a single occurrence
among changed ones. "Passed through" (`PassedThrough`) means that the rewritten
block says what `ReadMIMEHeader` makes of the original, and that the original has no
blank before a fold and none before its first word: `normalizeHeaderValue` and
`ReadMIMEHeader` undo those two folds differently (section 5), and `ReconcileExact`
is therefore about words, not about the white space between them. The calls of one verdict are a set (`CallSet`: additions, changes,
deletions and the body), sent in the order `CallBefore`.

*Gate*: `GateInv` - slots of connections and of heavy requests are held exactly
as long as used, the LRU lists are in order and in bounds, the charged address
is the client's own. `RateWindow` - no client gets more than burst plus refill
in any window, except one that was pushed out of the map by its cap: a new bucket
is a full one, and a request that looked the old bucket up before may still charge
it up to `Pause` later.
`RevokedCutOff`, `ValidNotThrottled` - what the API says of revoked and of valid
tokens.

*Listing*: `PagesExact` - a row that matches throughout is returned exactly
once, and texts order instants right to the second. `ReportComplete`.

*Storage*: `ImplementsDriver` is the refinement: `FileStore`'s `Driver` instance
maps the entry of a key to the object and a call in progress to a pending
request, so that the rename is the instant at which a Put takes effect, the
unlink that of a Delete, and the open that of a Get. `TreeSound` - a temporary
file has an owner or is known to be stranded, and never shares an inode with an
object.

*Command*: `ServerInv` - only valid policies are current, and the store is closed
after all that uses it. `SetupSafe` - what the files held is at its path or in
the backup until everything new is verified, and a failed run is undone.
`ConfigSound` - an accepted configuration passes every constructor and moves the
admin endpoints to the public listener only if asked. `StopsCleanly`,
`HupNotLost` - liveness. Fairness: each goroutine that can run does (weak
fairness of the steps of main, the reload loop, the adapters and a started
sweep), a shutdown ends because both servers bound theirs by a timeout, and a
`select` in which the context stays done takes that case eventually although
ticks or signals keep arriving (strong fairness of `ReloadEnds` and
`SweeperEnds`: Go chooses at random among ready cases). No fairness is assumed
for signals, edits, requests or sessions.

A property that is a conjunction is made of named parts, each with a comment of
its own. Each has at least one mutant in `PROJECT.json`: a definition with a
plausible bug, placed next to the original, under which TLC finds the property
violated.

## 4. Proofs

The theorems hold for every value of the constants that satisfies the named
assumptions; these are stated where the constants are declared, TLC evaluates
them on every run, and they say no more than the code ensures.

| Module | Theorems | Assumptions |
|---|---|---|
| `DeliveryProofs` | `DeliveryTypes`, `DeliveryRefIntegrity`, `NoOrphans`, `NoDeadLinks`, `BudgetKept`, `BudgetsIsolated` (invariants); `HeldRowsKept`, `HeldBytesKept`, `RevokesStand` (action properties) | `PersistenceAssumption` (every attachment has a message, the two are different rows), `PipelineAssumption`, `RetentionAssumption`, `DeliveryAssumption` |
| `AuditLogProofs` | `TypeCorrect`, `VerifyAccepts`, `SeqUnique`, `TamperDetected`, `PagesLeaveNoGap`; `HeldKept`, `RecentKept` (action properties) | `AuditAssumption` |
| `GateProofs` | `GateCorrect`, `RateKept`, `RevocationCutsOff`, `ValidPasses` | `GateAssumption` (finitely many connections at a time, maps with room for an entry, no client has the proxy's address), `EvictionAssumption` (the TTL of a bucket is long enough to refill it, even when it was charged a `Pause` after its look-up: what the comment of `evictingBucketMap` says, and true of the defaults) |
| `ListingProofs` | `PagesCorrect`, `ReportPagesComplete` | `ListingAssumption` (page sizes are positive, identifiers are ordered like numbers, there are finitely many domains and none is empty: `recipientDomain` refuses that one), `TimeTextAssumption` (at least one fraction digit; the code has nine) |
| `MilterProofs` | `ReconciledExactly`, `UntouchedKept` | `MilterAssumption` (the headers sent have any of the kinds of white space `Gaps` lists) |
| `FileStoreProofs` | `FileTreeSound`; `FileStoreRefines` (refinement) | `FileAssumption` (keys are sequences of segments, payloads sequences of chunks) |
| `ServerProofs` | `ServerCorrect` | `ServerAssumption` |
| `CommandProofs` | `CommandServesCorrectly`, `SetupDestroysNothing`, `ConfigAccepted` | `ServerAssumption`, `SetupAssumption` |

### The arguments

None of the properties is inductive as it stands.

*Delivery.* The invariant comes in four layers, each proved from those before.
`RowInv`: rows appear in the order of `CreateLinks` with the times it resolved,
and a request in flight names rows of one delivered message; from it follow types
and `RefIntegrity`. `BytesInv`: the bytes of an attachment are with the call that
uploaded them, behind a row, or given up, and what the sweeper has in its chunk
ran out before the pass began. `NoDeadLink` needs this because a sweep lists rows
in one step and deletes in another: the attachment it took must still be expired
when the link is looked at, which is the clamp of `resolveParams` (a link expires
no later than its attachment) carried through every state. `GrantInv`: what was
charged is what the row counts, and covers the requests in service and the
responses streamed; `BudgetKept` is the sum. `CutInv`: a row a revoke has covered
was already written, so no `CreateLinks` still in flight can write it again.
`HeldRowsKept`, `HeldBytesKept` and `RevokesStand` follow from the step and the
layers.

*Audit log.* `ChainVerifies` does not say that a later truncation finds the right
anchor. `ChainInv` adds that the table is a gapless suffix of what was recorded
(`Suffix`), that neighbours are linked (`Linked`), that the previous hash of a row
belongs to the row numbered one less, present or not (`PrevSeq`), that the anchor
of a checkpoint is gone and its hash belongs to its seq (`AnchorsGone`), that no
two checkpoints have the same anchor, so that the walker's map cannot be
overwritten (`AnchorsDistinct`), and that the first row, if it is not row 1, is
vouched for (`FirstAnchored`). Recording and truncating are both "append one row,
drop a prefix"; `AppendStep` proves once that this preserves `ChainInv`.
`TamperDetected` uses `AnchorsGone` and `AnchorsDistinct` in the other direction:
no surviving checkpoint can vouch for the row after a removed or altered one.
`PagesLeaveNoGap` adds where each client stands (`PagersFit`: the cursor is the
last event it has seen). `HeldKept` and `RecentKept` follow from what the boundary
and the clamp are (`BoundaryBelowRecent`, `ClampBelowHeld`) and, for the second,
from `CutoffInvariant`: the cutoff was read from a clock that never runs backwards.

*Gate.* `GateIInv` has three parts. `Budgets`: the lists hold one entry for a key,
newest first, none accessed after now; `GetOrCreateFits` shows what
`evictExpiredLocked`, the cap and the move to the front leave of such a list, and
`NewIdFree` that a bucket is always free (a counting argument over the three maps
and the requests in flight). `Requests`: what each request may rely on - a request
that began after its token's 204 carries a token whose row is revoked until it is
turned away (`StaleFits`), one whose token stayed active is never on its way to a
rejection (`ValidFits`), and `clientIP` returned its own address
(`ClientIsItself`, for chains of any length and content). `Limits`: the two
semaphores are the cardinalities of the sets that hold them; the accept loop's own
slot is counted. `RateKept` needs a second invariant, `WindowInv`: a bucket
belongs to one address in one map, for the map and for every request that holds it
(`Owners`); a request charges within a `Pause` of its look-up, and if the entry is
gone by then, the address was pushed out since (`InFlight`); a bucket was never charged later than its entry's last access
plus a `Pause` (`Dated`). The heart is `Room`: the tokens a bucket would hold now are
at most what an address may still be granted in any window that ends now. Refilling
adds `Rate` to both sides and a charge takes one from both, so the sum over a window
never has to be expanded; a window that ended earlier does not change (`Earlier`). A
bucket that appears after a TTL eviction is full, and so was the one it replaces:
that step, and only that, uses `EvictionAssumption`.

*File store.* `FileIInv` adds to `TreeSound` what a call owns: a running Put owns
its temporary file alone (`Owned`), has written the beginning of its source, and
the file an open stream reads is never a temporary one. Only that makes the
refinement go through: no write reaches an inode that is an object or is being
read, so the rename alone changes what `ObjectStore` sees. That two well-formed
keys never name one file (`Joined` of such a key is the key) is proved too.

*Listing.* A timestamp's text ends at its first `Z`, and two texts first differ at a
digit or at that `Z` (`TextsDiffer`); from this `TextBefore` is a strict total order
on them (`TextOrder`), `Format` is one-to-one (`FormatOneToOne`) and seconds decide
(`SecondsDecide`), which is the half of `PagesExact` about texts. So (text, id)
orders the rows strictly, a finite set of rows has its one sorted sequence
(`InOrderIs`), and a page is the rows ahead of the cursor up to the new cursor
(`PageIs`). `PagesInv` says where the client stands: what it has been given has a
key its cursor has passed (`KeysRead`; keys are kept with the row, and an identifier
is never drawn again, so a purged row cannot come back behind it), and a row that
matched throughout was given to it or is ahead (`SteadyAhead`). `StoreInv` covers
the row that has its stamp and waits for the writer.

For the report, `ReportInv` adds what a scan and an answer have reached. A scan in
progress has met each matching link not ahead of its cursor once, with the link's
counters as they are now (`Scanned`), as long as no link changed since the walk
began. The map of counters depends only on which links were met, not on their order
(`RatesOfScan`, by a bijection between the positions in the scan and the links), so
every complete scan of unchanged links gives the same report (`SameReport`). Rates
are compared as fractions by cross-multiplication; with ties broken by name that is a
strict total order (`CrossOrder`, `RateOrder`), hence the sorted report exists, is
unique and has each domain once (`ByRateIs`). What the client was told is then the
first n entries, and its cursor the domain of the n-th (`Told`): a page starts behind
it (`PageStart`), extends it (`OnePageMore`), and the walk ends when n is the length
of the report.

*Milter.* The calls of one verdict shift the positions the later ones name.
`MilterInv` says that what is left of them is in order and that whatever comes after
a call that is left is left (`Remaining`), and for each name (`Halfway`) that the
number of its lines is between the original and the wanted number, that the
additions and deletions left are exactly those this number needs, that each
value is the wanted one or has its change still to come, and that one without a
change to come is the original (`Spared`). Then every addition is
made at the end of its name's lines, every deletion hits the last one, a change hits
the occurrence it was computed for, and when nothing is left the lines are the wanted
ones: `ReconciledExactly`. The body call comes last, so a body that was replaced
means that no header call is left. What is passed through normalises to the same
value on both sides (`PassedSame`), so no call names a header of `Unchanged` and none
changes an occurrence passed through, whence `UntouchedKept`. The proofs use nothing
else about the comparison but that equal values say the same words (`SameWords`).

*Server, setup, command.* `ServerIInv` ties the stack of deferred calls to what
may still run: a loop or an adapter runs only between its start and its join, and
the join is deferred above the store's close. `SetupIInv` follows every file
through a run: untouched, being replaced, written with its old content in the
backup, undone, or committed. `CommandIInv` says that the server's state is fresh
until `Serve`, and that what is served is what `Load` accepted.

### Only model-checked

- `BacklogDrains`, `AuditRuns`, `StopsCleanly`, `HupNotLost`: liveness under
  fairness is beyond TLAPS.
- All of `MailPath`: `MessageTree` and `Rewrite` walk trees of any depth with
  RECURSIVE operators, which TLAPS does not accept.

## 5. Where code and documentation disagree

Two runs show a violation; they are quoted under "findings" in `PROJECT.json`.

1. `HeldNotRevoked`: `Engine.Revoke` reads the hold, then revokes in a second
   statement without a hold condition.
2. `ClosedTempFails`: `failure_mode: Closed` passes validation, which compares in
   lower case, and then means fail-open, because the milter compares as written.

Met while modelling, and not stated as a property:

*Header folding.* "A header left unchanged is already on the MTA side and is not
touched" (`backend.go:379`). The comparison that decides it (`backend.go:466`) keeps
the blanks before a fold (`backend.go:555`ff.), while `ReadMIMEHeader`
(`backend.go:423`) trims each line and joins with one blank. So a value sent as
`abc <CRLF> def` with a blank before the break, or one that starts on its second
line (`Message-ID:<CRLF> <...>`), compares as different although the rewrite left it
alone, and `backend.go:469` writes it again on one line, which a signature over the
header may not survive. Without the exception in `PassedThrough`,
`UnchangedUntouched` is violated by exactly these values.

*Dry run of some recipients.* "If even one addressee of the message falls under a rule
with `replace`/`block`, that action applies to the whole message"
(`policy-format-v1.md:193`, in the same sense `:186`), and `dry_run: false` forces "the
rule to apply for real" (`types.go:219`). `strongerDecision` (`evaluate.go:187`ff.)
takes the dry run along with the decision that wins: a severer decision in dry run
replaces a weaker one in force, and of two equal ones that of the recipient who comes
first in the envelope stays. With bob's `replace` in dry run and everybody else's in
force, a message to bob and ann is delivered with the raw file, one to ann and bob with
a link; with bob's `block` in dry run, ann's `replace` is dropped in either order.
`InForce` has these two exceptions, and without them `PolicyFollowed` is violated.

*Attachment limit.* `MaxAttachmentSize` is "the maximum number of bytes any single
attachment may occupy once decoded" (`processor.go:52`), and `limitedReader` promises
"an error once more than remaining bytes have been read" (`processor.go:1063`). Its
one-byte probe takes any `io.EOF` for "nothing left to read" (`processor.go:1082`), also
one that comes with a byte: such a part, one byte too large, is accepted, and its last
byte is missing from what is stored. `LimitsHold` excepts exactly this part
(`WithinAttachmentLimit`) and is violated without the exception.

*Milter and mail path.* `RevokeMessage` counts held links before its transaction
(`engine.go:536` against `:530`). A modifier call that fails after others
succeeded ends, in fail-open mode, in a clean accept with the earlier
modifications queued (`backend.go:229` against `:392`). An oversized body closes
the connection, so the MTA's default action decides, not `failure_mode`
(`backend.go:133` against `docs/integrations/postfix.md:64`). `Process` runs
with `context.Background()` and may outlive the 30-second shutdown. A
`message/rfc822` that wraps another one is parsed but not rewritten inside
(`walk.go:284`), so a part that was stored stays in the message as well:
`ReplacedIsRemoved` holds only for trees without it, and `NothingLost` says that
nothing is lost in them. Lines longer
than the 32 KiB buffer are classified chunk by chunk.

*Retention.* When every row of a full chunk fails, the same `Sweep` call lists the
same chunk for ever (`sweeper.go:348` against `:263`); with the default chunk
this takes 100 such rows, for instance during an outage of the storage. The run
`backlog` is about fewer.

*Store and listings.* `audit.go:303` says that seq order and time order diverge
only in tests, but two concurrent `Record` calls can be numbered in the other
order than they are stamped (`RecentKept` shows that truncation is right
nevertheless). `store.go:19` says that RFC3339 texts sort in time order, but
`05.12Z` sorts after `05.123Z` (`RightToTheSecond` bounds the error). A row is
stamped before its insert waits for the writer, so it can be committed behind a
client's cursor. The deliverability report's cursor is a domain in a list sorted
by a rate that moves.

*Storage.* A temporary file left by a crash is never removed, and nothing is
synced: after a power failure a committed row may have no object.

*Rate limits.* That an idle bucket has refilled by the time the TTL evicts it
(`evictingmap.go:62`) is true of the default limits, but nothing enforces it: the
configuration accepts, for instance, a burst of 1000 with 10 tokens a minute, and
then a client that returns after 30 minutes finds a full bucket an unevicted one
would not have been. `EvictionAssumption` states the condition; without it
`RateWindow` is false. After an eviction by the cap, a request that still holds the
old bucket charges that one while others charge the new one.

*Server.* If the public HTTP listener fails, `run` keeps waiting for the milter
adapter with a live context (`http/server.go:213`ff. calls it fatal).

*Configuration and setup.* `seconds * time.Second` can overflow.
`ATTACHRA_POLICY_DRY_RUN=yes` turns dry run off. An unset secret stays the
literal placeholder. `setup` looks for existing files before the prompts, so one
that appears meanwhile is replaced without `--force`; a fresh file whose write
fails half-way stays (`FailedSetupUndone` excepts it); a forced run after a crash
removes the backup of the crashed one, which may hold the only good copy
(`OldConfigNeverLost` speaks of the files as the run found them); a crash between
two files leaves files of two runs; a file-system setup never touches
`attachra.env`, although `setupManagedFiles` says it is backed up.

## 6. Not modelled, and the plan

Left out for good: byte-level MIME decoding and type detection, template wording
and transfer encodings, YAML and flag parsing, the Prometheus counters, host
inspection (`doctor`, `maildetect`), the REST client `attachractl`, address
normalisation (a function on characters), the S3 protocol, and the conformance
suite `storetest`, which is test code. The JSONL export of the audit log and its
statistics are read-only folds.

Simplifications: in `Delivery`, `Put`, `Get` and `Delete` are atomic, which is
what `ObjectStore` allows and `FileStore` implements; the clock does not run
backwards; a message has the same recipients as every other; the order of
attachments inside a chunk or an upload loop is left open; the counters the
sweeper returns and the audit events other components record are not state of
`Delivery`. In `Gate` rates are whole tokens per tick. In `Server` a policy is its
version, and one API call and one session stand for all. In `FileStore` a key that is
a prefix of another one would be a file and a directory at once: the model gives both
an entry, the file system refuses the second; `NewObjectKey` draws keys of one depth,
so none is a prefix. In `Listing` the upper time bound of a filter is left out: it is
one more condition on the same column as the lower one. `RawParts` reads one flat
multipart: the rewriter opens a new reader for each nested body, so that every level is
such a case of its own, but a line of a nested body that looks like the outer delimiter
is not followed through both levels.

What remains to be proved: `MailPath`, for which the walks of
`MessageTree` and `Rewrite` would have to become recursive functions over the paths
of a tree, with the induction over its depth left to a bound; and an abstract
specification of a link (created, spent, revoked, expired, gone) that `Delivery`
implements, with the refinement proved from the four layers.
