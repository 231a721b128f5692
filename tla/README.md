# File Upload and Processing Service: TLA+ models and proofs

The service accepts PDF and image uploads over HTTP, processes them in a bounded
pool of goroutines, stores the results in MinIO, keeps one row per file in
Postgres and tells the owner the outcome over WebSocket and e-mail. This
directory models its core, checks it with TLC and proves the central properties
with TLAPS. Paths below are relative to the repository; `worker/` and the like
are under `backend/internal/`.

## The system

| Component | State | Operations | Hard because | Correct when |
|---|---|---|---|---|
| Job queue `queue/job_queue.go` | a buffered channel | Enqueue (never blocks), Close | full buffer; a send after Close panics | no job is lost or sent after Close |
| Worker pool `worker/pool.go` | dispatchers, semaphore, context | Start, dispatch, Wait | a select with two ready branches, slots released by another goroutine | at most WORKER_COUNT jobs run, every queued job starts, Wait returns |
| Processor `worker/processor.go`, `deadletter.go` | row, temp file, object, dead letters, events, timers | Process: begin, process, put, remove, update, notify, mail; retry or bury | any step fails, panics or is the last before a crash; the retry runs beside its predecessor | one carrier per file, one true outcome, content never lost, retries end |
| Upload handler `handlers/upload.go` | temp file, row, job | save, record, enqueue | three stores in a row, no transaction | a 202 leads to an outcome |
| File service `services/file.go`, `repo/file.go` | rows, objects, text | Create, Delete; Get/Update text and pages, ExportPDF | Delete races the pipeline; page edits read, change and write the whole text, which is split at separators anybody may type | a delete leaves nothing; an edit is not lost |
| Wiring `di/wire.go` | the process | start, signal, Wait, HTTP shutdown, exit | order of closing; goroutines nobody waits for | shutdown ends, and no sender is left when the queue closes |
| WebSocket hub `notification/ws/` | clients per user, three channels | Register, Unregister, Send, Run, Stop, pumps | bounded buffers, drops, channels closed by another goroutine | never a send on a closed channel, nobody blocked for ever |
| Auth `services/auth.go`, `handlers/auth.go`, `middleware/jwt.go` | users, tokens | Register, Login, ValidateToken | a lookup and an insert in two statements; tokens expire on the way | one account per address, and its first password counts |
| Rate limiter `middleware/ratelimit.go` | a token bucket per user | get, Middleware, cleanupLoop | eviction beside use; the clock is read before the bucket is locked | a user gets at most burst + rate x time, and no less |
| Routes `di/wire.go` | none | what a request meets before its handler | both groups have the prefix `/`, so order decides | nothing protected is served unchecked |
| PDF text `worker/pdf.go` | matrices, chunks of one page | reading forms, chunksToText; ParsePages; GeneratePDF | state left between operators and forms, an order that is not transitive, marker round trip | every string is where it was drawn and reads in order; editing one page leaves the others |
| Image, e-mail, object-store client, config, DB connection, UI | none, or external | | I/O | |

Interactions: the upload handler and the retry timers send on the queue; the
dispatchers receive from it; the processor writes Postgres, MinIO and the disk
and calls `Hub.Send`; delete requests write the same row and object with no
coordination but the row lock of step 1; the signal handler closes the queue,
cancels the dispatchers' context, waits for them, stops HTTP and exits, with the
timers and the goroutines still alive. The queue and the timers are memory only.
Every request but a registration or a log-in passes the token check and the rate
limiter before its handler.

## Modules

* `WorkerPool.tla`: queue and pool. `Receive`, `Spawn`, `Exit` and `Abandon` are
  the branches of `dispatch`; `Finish` is the goroutine's deferred function;
  `Restart` is a new process. What a job does is left open.
* `Processor.tla`: one action per statement of `Process` and `doProcess` that
  changes state or can fail. `pc[g]` is the next statement of goroutine `g`. The
  constant `Fault` names the faults of an instance, so that each run says which
  ones its properties survive.
* `UploadService.tla`: composes the two. It adds the upload and delete requests,
  the timers' callbacks and the life of the process. `Spawn` starts the
  processor on the pool's new goroutine, `Finish` ends both; every other action
  is the pool's or the processor's with the rest unchanged. `ProcessEnds` is a
  crash, an exit, or the panic of a timer that sends on the closed queue: memory
  is lost, the table, the disk and the store stay.
* `FileStatus.tla`: what the owner may see in the status column. It is the
  abstract specification `UploadService` implements.
* `Hub.tla`: the hub's goroutine over its channels and, per connection, the
  handler with its read pump (`reader[c]`) and the write pump (`writer[c]`, with
  the event it holds in `hand[c]`). It has the `websocket.Conn` objects of the
  library's pool too (`conn[w]`, `wrapper[c]`), because the library takes one
  back when the handler returns and the write pump keeps its pointer. It meets
  the pipeline only through `Hub.Send`, which never blocks, so the two are
  checked apart.
* `PageText.tla`: a PDF's text as one string with page separators: extraction,
  splitting, trimming, joining, as operators. `FileText.tla`: the requests that read, edit,
  export and delete that text, each a read and a later write.
* `RateLimiter.tla`: the middleware's three steps (`Get` under the limiter's
  mutex, `ReadClock`, `Grant` or `Refuse` under the bucket's), the clean-up
  loop, and the token bucket of x/time/rate, in whole units: a bucket earns one
  unit a tick and a request costs `Cost`. `OpenWindow` lets an observer start to
  count at any time.
* `Accounts.tla`: registration as a lookup (`Register`) and an insert
  (`Create`, `CreateFails`), log-in, tokens with an expiry. `Clock.tla` is the
  time the two share.
* `Routes.tla`: fiber's list of routes and groups as `main` registers them, and
  the chain of handlers a request meets in it. `Access.tla` composes the four:
  concurrent requests, each going through its chain one handler at a time.
* `PageLayout.tla`: the matrices and `chunksToText` as operators.
  `FormText.tla`: reading one page. `visits` is the recursion over nested forms,
  and there is one action per PDF operator the code interprets.
* `MCWorkerPool.tla`, `MCUploadService.tla`, `MCHub.tla`, `MCFileText.tla`,
  `MCAccess.tla`, `MCFormText.tla`: instances for TLC.
* `WorkerPool_proofs.tla`, `UploadService_proofs.tla`, `FileLife_proofs.tla`
  (each extends the one before, but the first), `Hub_proofs.tla`,
  `FileText_proofs.tla`, `FormText_proofs.tla`, `Access_proofs.tla` (the
  limiter's too): theorems. `Induction.tla`: lemmas about numbers, sequences and
  the library's recursive operators that they share.

Definitions headed "Slip" are mistakes the code could plausibly contain. No
action uses them; each breaks a property when it takes the place of the
definition that follows it, which shows that the property depends on it.

Abstractions. A file stands for one upload: its id, row, temporary file and
storage key. A job is its file and RetryCount. Meta, text and payloads are left
out. A statement sent to Postgres is atomic; the transaction of `doProcess`
(lines 99-128) is one step because the row lock keeps every other writer out
until it ends. Delays are left out: a timer fires at any time after it is armed.
The upload's checks before the temporary file is written change no state. The
processed image of `ProcessImage` is removed on every path and not modelled.
The hub's sends of one broadcast go to different channels, so they are one step;
a goroutine panic without a recover ends the process (`alive`). A string is a
sequence of tokens, as fine as `ParsePages` and `Join` look at it: newline, space,
other white space, `[PAGE`, a number, `]`, and words of anything else. So what
`strings.Split`, `strings.TrimSpace`, `strings.Index` and `fmt.Sscanf` do is
modelled, and whether `[PAGE ` starts a page depends on the two newlines before
it, which may be a page's own or those that `Join` writes. Requests the handlers refuse (a
foreign file, a malformed id, an image) change nothing and are left out, except
that the rules on page numbers and empty texts are kept.

In `Access` a password stands for its hash and a token for its signature: no
other token passes. All routes of `/files` are one endpoint. In `FormText`
coordinates are whole points, a font decides only whether a string decodes to
nothing, and the library's own text of a page is an input. A form's `Matrix` and
the place where the page draws it are left out because the code does not look at
them. The forms of the instances are a tree; one that names itself sends the code
into endless recursion. `Sort` is the insertion sort that `sort.Slice` uses up to
12 chunks.

## Runs

| Run | Instance | Checks |
|---|---|---|
| `pool` | 2 jobs, 2 workers, queue of 2, 3 goroutines | `PoolTypeOK`, `SlotsAreActiveJobs`, `CloseDrains`; `JobStarts`, `PoolWaitReturns` |
| `service_retries` | 2 files, 2 workers, queue of 1, maxRetries 3; processing and store fail | `SingleCarrier`, `FailureIsRetriedOrKept`, `DoneHasObject`, `OutcomeIsTrue`, `RetryColumnAgrees` |
| `service_crashes` | 2 files, 1 worker, queue of 1, maxRetries 2; every fault but lost replies | `TypeOK`, `OutcomeToldOnce`, `ContentKept`, `ImplementsFileStatus` |
| `service_liveness` | 2 files, 1 worker, queue of 1, maxRetries 2; processing fails, signals | `CarriedIsResolved`, `PipelineDrains`, `SignalEnds` |
| `hub` | 2 users with a connection each, 2 pooled objects, event buffers of 2, 3 events, control buffers of 1 | `TypeOK`, `RoutedInOrder`, `UnregisteredOnce`, `ReaderOwnsWrapper`; `FullBufferGetsRoom`, `PumpsEnd` |
| `access` | 2 requests, 2 users, 2 buckets of one unit, 2 passwords for one address, 2 tokens that live 2 ticks, 3 ticks in all | `AccessTypeOK`, `OneAccountPerAddress`, `RegisteredCanLogIn`, `ServedWereChecked`, `RateHolds`, `HeldIsCurrent`; `RefusalIsEarned` |
| `layout` | streams of 5 graphics or 4 text operators, a form in a form and one beside it, 4 words at 8 places | `TypeOK`, `PlacedWhereDrawn`, `DrawnOnceInOrder`, `ReadsInOrder` |
| `file_text` | 3 requests, a document with a blank page and a page of one word, one whose page 2 begins with `[PAGE 3]`; edits that are empty, padded, hold a separator, a broken one, or a page that begins with `[PAGE 3]` | `TypeOK`, `JoinKeepsPages`; `DocumentIsShown`, `EditIsStored`, `LoneEditTouchesOnePage`, `DeletedStaysDeleted` |

The bounds. Nothing counts without limit: a file is uploaded once, its job has
fewer than maxRetries attempts behind it, and the process may restart for ever.
Two files are enough for one to fill the queue (of size 1) against the other,
for a 503, and for two goroutines at once. A third goroutine lets a missing
semaphore start one job too many. maxRetries 2 has a retry and a last failure; 3
is the code's value. Files and goroutines are symmetric where only safety is
checked. In the hub, three
events fill the hub's buffer of two or a client's and have one dropped at either;
two may wait in a channel behind the one in the pump's hand, so an order could be
broken at each place. One place in the control buffers has a handler blocked by
another. Three text requests are two edits and
a delete, or three edits of which the first typed a separator. A page number of 0
and one beyond the document are asked for. Two requests of `access` are two
registrations of one address; its `Horizon` lets a token expire between two
checks, or one holds the user's bucket while the clean-up drops entries. There is
one address, so one user ever has a bucket, and a full bucket holds one token, so a clock that is set back
earns nothing again: several users' buckets and the set-back clock are left to the
theorems `RateHoldsAlways` and `RefusalIsEarnedAlways`, which hold for every size
(instances with two tokens do not fit into the time of a run). Two tokens
are one for each user, or an old and a new one of the same. In `layout`, five
operators nest a `q` in a `q` with a matrix in each; four words make two rows of
two, three rows with a wide gap, or a row whose words are not level, with y
growing down or up. Deadlock is not checked: a service whose files are all
uploaded and deleted stops, a drained pool, a page that has been read, and the
clock of `access` at its horizon do too.

Fairness. Goroutines are runnable Go code or wait for a reply that comes, so
each gets weak fairness; the Spawn of a dispatcher gets strong fairness since Go
hands a released slot to the sender parked longest. Uploads, deletes, crashes,
boots and signals have none. That a processing call returns is an assumption:
no statement of the pipeline has a timeout. In the
hub a select picks at random among its ready cases, so unregistrations and
broadcasts have weak fairness; a write ends by its deadline and the ticker fires,
so the write pump has weak fairness, with that of a failing ping only on a closed
socket. Handlers, registrations, connections, peers, events and Stop have none:
no property waits for them. `FileText`
and `Access` have no liveness: a request may be abandoned at any point.

Faults a property does not survive are named in the run that leaves them out:

* A lost reply to `UpdateDone` on the last attempt turns a done file into an
  error, and one to the INSERT removes the temporary file of a row that exists;
  `service_crashes` therefore has no lost replies.
* A database error between the removal of the object and of its row leaves a
  done file without content; `service_retries` has no database errors.
* After a crash the unsettled rows stay unsettled: no code enqueues them again.
* A 503 leaves the row pending for ever.

Disagreements the runs show (each a run that must find its property violated):

* `panic_is_swallowed`: `doProcess` recovers a panic and returns nil, so the file
  stays processing with no retry and no dead letter, against processor.go:32.
* `send_after_close`: the queue is closed while a handler or a timer is about to
  send on it, against job_queue.go:37. The send panics; in a timer it kills the
  process.
* `delete_while_processing`: a delete that finds no storage path yet leaves the
  object the pipeline stores next, against README.md:148.
* `foreign_events`: the write pump of an ended connection holds a pooled object
  that another connection has by now, and writes its user's event there, against
  GUIDE.md:424. If the object is still free the pump panics instead.

Plain from the code and without a run:

* Two concurrent edits of different pages undo one another, since each writes the
  whole text it read (file.go:165-186), against file.go:152 ("leaving other pages
  untouched"). `LoneEditTouchesOnePage` is about an edit without another.
* The text `A\n\n[PAGE 2] [PAGE 3] B` has two pages, the second `[PAGE 3] B`. An
  edit of page 1, whatever it says, writes that page back after `\n\n[PAGE 2]\n\n`
  (file.go:182), and the readers of page 2 get nothing any more, against the same
  line 152. The same happens to an edit of a page but the first that begins with
  `[PAGE `, and to a PDF that has such a page. `Unspelt` names the pages of which
  none does so; `JoinKeepsPages`, `DocumentIsShown`, `EditIsStored` and
  `LoneEditTouchesOnePage` are about those.
* A retry that meets a full queue is a dead letter before its attempts are used
  up (deadletter.go:12 says after all of them), and nothing is mailed for a file
  in error (GUIDE.md:515 says it is).
* An `_edited.pdf` object outlives its file, since Delete removes the original
  only.
* A one-page document whose text is emptied has no page left and can only be
  edited as a whole again; `JoinKeepsPages` excepts it.
* The hub may take an unregistration before the registration it follows, and
  then keeps a client whose channel is closed; the next event for its user
  panics in the hub (hub.go:53, against hub.go:9). `HubPanicsOutOfTurn` shows that
  it panics in no other way.
* The loser of two registrations of one address is told 500, not the 409 of
  GUIDE.md:128.
* Both groups have the prefix `/`. So every file route passes the token check
  twice and the rate limiter (wire.go:116 and GUIDE.md:176 name `/upload` only),
  and `/ws` and `/health`, registered after them, demand an Authorization header
  (GUIDE.md:380 says none for `/health`, GUIDE.md:404 a query parameter for
  `/ws`).
* README.md:241 calls the limiter's map a `sync.Map`; it is a map with a mutex.
* A request that read the clock early and locks the bucket late sets the
  bucket's time back, and the next one earns that time again. `RateHolds` counts
  it as `late`; it is microseconds in practice.
* No code checks that a bucket is full again after the ten idle minutes that
  have it dropped (`Cap + Stall =< Idle` in `LimiterAssumption`). Default values
  satisfy it, a small RATE_LIMIT_RPS with a large burst does not.
* The host of a presigned link is replaced after the link was signed
  (minio.go:80-86).
* pdf.go:355 says 5 % where the code takes 10 %. "Typical line spacing"
  (pdf.go:395) is the upper median: of three rows 40 and 12 points apart it joins
  the two that are 12 apart. "Exact page-space positions" (pdf.go:153) leave out
  the form's own matrix and the place where the page draws it.

`Pool.Wait` also logs "worker pool drained" (pool.go:50) with jobs in the queue
and goroutines at work: it waits for the dispatchers only, and the context is
cancelled first. `CloseDrains` states what closing alone guarantees.

## Proofs

All theorems hold for every value of the constants: sets of files, goroutines,
users and requests, worker counts, buffer sizes, rates. They assume only the
named ASSUMEs (`PoolAssumption`, `ProcessorAssumption`, `ServiceAssumption`,
`HubAssumption`, `LimiterAssumption`, `AccessAssumption`, `FileTextAssumption`,
`PagesAssumption`), that None is not a job, and, in `FileLife_proofs`, the faults
that do not occur, as hypotheses of the theorem.

* `WorkerPool_proofs`: `PoolInvariant` proves `PoolTypeOK`, `SlotsAreActiveJobs`
  and `CloseDrains` together, one lemma per operation. They are inductive only
  together: that a release leaves `sem` at or above zero needs the goroutine that
  releases to be counted in it. `PoolTypes`, `ConcurrencyBounded` and
  `ClosingDrains` follow.
* `UploadService_proofs`, `OneCarrierPerFile`: `SingleCarrier` is not inductive.
  `Custody` says the same pairwise over the four carriers in the pipeline proper
  and adds that a file in it has an accepted upload, which is what keeps the
  upload handler from enqueueing it again. Most steps only drop carriers
  (`Shrinks`); six hand a job over, each with a lemma of its own.
* `ServiceImplementsPool`: the service's steps are pool steps or leave the pool
  alone, so the pool's theorems hold in it: `ServiceConcurrencyBounded`.
* `ServiceTypes`: the type invariant, from the pool's invariant, `Custody` and
  the types of the stores. A dead letter's count needs that a job on a timer has
  failed once.
* `Hub_proofs`, for every set of connections and pooled objects and every buffer
  size (`HubAssumption`): `WrapperIsOwned` needs that a live reader points to a
  real object, so that another connection's step cannot touch it. `ClosedOnce`
  needs `AskedOnce`: a client is in the unregister buffer only after its read pump
  has asked, once, and not when its channel is closed. `EventsRouted` needs
  `Routed`: what a channel holds was sent before everything still in the buffer,
  and all of it among the first `sent` events. `Handed` says the same of the event
  in a pump's hand, and that it was sent before what its channel holds. `HubTypes` is the type invariant
  with the capacities of the channels. `HubPanicsOutOfTurn` has a hypothesis on
  the behaviour, `[][InTurn]_vars`: no client is unregistered while its
  registration is still in the buffer. Then the hub neither sends on a closed
  channel nor closes one twice; `KnownAreOpen`, that a client in the map or on its
  way there has an open channel, is inductive exactly under that hypothesis. So
  the panic of hub.go:53 listed above has this one cause.
* `FileLife_proofs` relates a file's place to its row, content, dead letters and
  events. `LifeInv` adds to `Custody` a `Story` of every file: `Unrecorded`
  before its row, `Placed` at each statement of the processor, `Recorded`
  wherever it is, `Honest` when the database answers. It is inductive because
  `Custody` gives the file a single place: a statement of one goroutine has no
  other place of that file to account for, and leaves the other files alone
  (`PassiveKeepsStory`). From it, unless replies are lost: `ToldOnce`,
  `ContentIsKept` and `ServiceImplementsFileStatus`, the refinement. With no
  database error either: `ToldTruly`. With neither, and no crash or exit:
  `DoneIsDownloadable`; a crash between Delete's two statements leaves a done
  row without an object.
* The same module, retries: `Column` ties the row's count to that of each job with which
  an attempt begins or goes on; between the two increments the goroutine's job
  is one behind. `CountsAgree` follows, for a database that answers. `Followed`
  says where an unsettled file is, and gives `FailureIsAnswered` for failures of
  processing, disk and store. It is false with panics, which is what
  `panic_is_swallowed` shows.
* `Access_proofs`, the limiter: with `Level`, what a user could take now, the
  invariant brackets `Level + spent` between what any window earned and that plus
  a full bucket. It needs that an entry is dropped only when its bucket is full
  again and no request holds it, which is where `LimiterAssumption` enters.
  `RateHoldsAlways`, `HeldIsCurrentAlways` and `RefusalIsEarnedAlways` follow.
* `Access_proofs`, the routes: `AccessImplementsLimiter`, since whoever meets the
  limiter shows a token of a user; so `AccessKeepsRate`. `OneAccountAlways` and
  `RegisteredCanLogInAlways` for any number of registrations.
  `ServedWereCheckedAlways` first computes the chains from the list of
  registrations (`ProtectedChains`: token check twice, limiter, handler;
  `PublicChains`: the handler alone). `CheckedInv` then ties a request's place in
  its chain to what it has shown: past the first check its token was valid and
  one this server issued, and every issued token names an account, because
  accounts are never removed. `AccessTypeOKHolds` is the type invariant.
* `Induction`: the provers cannot use an induction theorem that takes a predicate,
  so induction is stated over sets. A set of numbers has a smallest member
  (`Smallest`, from the library's theorem that < is well founded), so a set with
  0 and every successor is all of Nat (`NatInduct`; `IntervalInduct` and
  `SeqInduct` are the same for intervals and sequences). `FlattenSeq` and
  `FoldLeft` are recursive functions; `IsFlattening` and `IsIteration` say what
  such a function must satisfy, that one exists, and that the library's is one,
  so a flattening or a fold can be unfolded at its last element. `RecursionExists`
  does it for a function on `0 .. n`.
* `FileText_proofs`, for every document, every text a user may send and any number
  of requests. `Split` is a recursive function of the place it starts from;
  `ChainExists` (in `Induction`) says that it exists, and `IsSplitting` what any
  result of it satisfies: parts without a separator which, joined by separators,
  are the text. By induction over its pages a joined list splits into what was
  written for each page (`SplitOfPages`), if no page spells a separator where it
  stands (`Unspelt`): none holds one, and none but the first begins with `[PAGE `,
  since its label ends in the two newlines that would complete it. The label of a
  part is read back as its number, and trimming takes away the label's newlines
  and the space around the page (`PagesOfLabelled`, `TrimOfParagraph`). So parsing
  a joined list gives its pages, trimmed (`ParseOfJoin`); a parsed text's pages are
  trimmed already, and its first is page 1 (`ParseType`): `PagesSurviveJoining`.
  `ExtractionIsShown` is the same for the pages of the document, numbered from 1.
  `EditsAreStored` and `LoneEditsTouchOnePage` need `TextInv`: a page edit that is
  about to be written is, for the text its request read, one of its pages replaced
  (`Edits`); others may have written since. The condition `Unspelt` is the code's,
  not the proof's: a page that begins with `[PAGE ` is split when it is joined. `DeletedStays`
  needs no invariant, since every write of the text looks at the row again.
* `FormText_proofs`, for every page, forms nested to any depth and streams of any
  length. `PlacedWhereDrawn` tells the place of a string from the operators before
  it, without a stack: the matrices that no closed `q ... Q` group took back, and
  the lines since the last `BT` or `Tm`. The invariant (`ReadingInv`) says that the
  interpreter has just that in its registers: `ctm` is `PageMatrix`, `tm` is
  `TextPlace`, and the stack holds the matrix of each `q` that is still open, in
  the order of their depth (`StackInv`). That a `Q` restores the matrix of its
  `q` needs that groups do not cross (`NoCrossing`): what is taken back inside a
  group is taken back inside the outer one as well (`InForceClosed`). A `Q` too
  many closes nothing (`StackEmpty`). `ShiftAssoc` and `ShiftTwice` are the
  arithmetic of the matrices. `PlacedInv` then says the same of every chunk found
  so far, and `InterpreterTypes` and `TextIsPlacedWhereDrawn` follow.
  `DrawnTextIsShown` is about the whole page, and has two halves. While it is
  read, the forms still to enter or to read and those read already are the forms
  known so far, each once (`Visited`), and the chunks bear the names of all that
  was drawn, each once (`Drew`). That a form is not visited again needs that no
  form is in the resources twice, that none is lost needs that each is somewhere
  in them: `EachInOnePlace`, a condition of the property, since the code does read
  a form twice that is there twice. Then `chunksToText`: inserting a chunk loses
  none and passes none that is on the same spot (`ToldSorted`), for any order that
  puts no chunk before one on its own spot (`Fair`), transitive or not; grouping
  into lines only cuts the sorted sequence, sorting and spelling a line are the
  same again, and the lines put one after another give back the whole
  (`ToldLines`). The sort is by insertion at any length here, which is what
  `sort.Slice` does up to 12 chunks; beyond that the order on one spot is not
  promised by Go and not by the theorem.
* `LegibleReadsInOrder`, in the same module, is about pages on which rows and
  columns can be told apart (`Legible`). Chunks of such a page are level or rows
  apart with nothing in between (`InRanks`, from the transitivity of `Level`), so
  the first sort's order is a true one there (`RanksOrder`) and what it sorts is
  in order (`SortOrders`, for any weak order). The threshold is half the upper
  median of the gaps the code finds, or more where that is small; every gap found
  is at most the widest distance of two neighbouring rows (`GapsFound`,
  `WidestIsWide`), so the threshold tells exactly which chunks are level
  (`ThresholdTells`). By induction over the chunks each then joins the row it is in
  or starts the next one (`RankedGrows`). `ReadAs` says how a text reads: a row
  from left to right without a break, a break between rows. A spelt row reads so
  (`ReadRow`), and so do rows put one below the other, since each but the first
  begins with a break (`ReadOn`, `LinesRead`). With the direction, which the first
  row of a legible page gives away (`TopIsEvident`), that is the property. It does
  not need `EachInOnePlace`: a form that is read twice is drawn twice on one spot.

Only model-checked: liveness (`JobStarts`, `PoolWaitReturns`,
`CarriedIsResolved`, `PipelineDrains`, `SignalEnds`, `FullBufferGetsRoom`,
`PumpsEnd`), which the prover has no rule for, and the runs that expect a
violation. Every safety property of the passing runs is a theorem.

## Plan

1. Done: queue, pool, processor, upload, delete, shutdown and restart, the file's
   life as abstract specification.
2. Done: the hub, its pumps and its buffers.
3. Done: the text operations over one row and the page separators; the reading
   and layout of a page's forms.
4. Done: accounts, tokens, the limiter, and the middleware each route meets.
5. Done: the theorems about the service's rows, content, events and retries.
6. Done: the theorems about the text with its separators, the checks before a
   protected handler, the places of a form's text, that nothing of it is lost, and
   that a legible page reads in order.
7. Done: the theorem that the hub sends on a closed channel only after an
   unregistration has overtaken its registration.

## Not modelled

* Configuration, database connection, entry point: start-up I/O, no state of
  their own after it.
* E-mail: one SMTP exchange without state; `UploadService` records that it was
  started.
* Image resizing, fonts and encodings, the library's text of a page, and the
  writing of PDFs: arithmetic and tables of libraries. The pipeline keeps their
  outcome, success or error.
* Reads (list, download links, the raw object, text and pages without an edit):
  they change nothing.
* The browser client: it polls, and changes nothing but through the API.
