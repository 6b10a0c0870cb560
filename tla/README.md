# autocitefetch: a verification project

autocitefetch resolves citation keys (`arxiv:…`, `doi:…`, `bibfile` entries,
manual text) to CSL-JSON items, following chains of pointers from one source to
another, and keeps what it found in a committable cache file that several
processes may share. This directory holds TLA+ models of it, the TLC runs
that check them, and TLAPS proofs of the results that do not depend on the size
of the instance. Paths below are relative to the repository; `core` stands for
`src/crates/autocitefetch/src`, `std` for `src/crates/autocitefetch-std/src`,
`cli` for `src/crates/autocitefetch-cli/src`.

## 1. The system

| part | state | operations | modelled in |
|---|---|---|---|
| advisory lock (`std/store.rs`) | lock file at a path, flock per inode, open descriptors | `lock_exclusive`, `try_lock_exclusive`, unlink, drop of a guard | `FileLock`, `Mutex` |
| file cache (`core/filecache.rs`) | main file, a log per writer, a companion lock file per log, in-memory map | `open`, `put`, `remove`, `flush` | `FileCache` |
| citation manager (`core/manager.rs`) | worklist, `seen`, per-pass buckets, report | `retrieve`, `get`, `prune` | `Retrieval` |
| TTL policy (`core/cache.rs`) | none (pure) | `make_record`, `classify`, `should_refetch`, `usable_within_grace` | `CachePolicy` |
| refresh batching (`core/batching.rs`) | none (pure) | `classify`, `plan` | `Batching`, over time in `RefreshCycle` |
| source driver (`core/driver.rs`) | keys left, `last_start` | `drive_source` | `Fetching` |
| retrying fetcher (`core/retry.rs`) | attempt counter | `fetch`, `backoff` | `Fetching` |
| HTTP fetcher (`std/fetcher.rs`) | none | `fetch_blocking` | `Fetchers` |
| progress reporting (`core/report.rs`, `cli/progress.rs`) | last delivery per subject, counters | events, `ThrottledReporter`, `StderrReporter` | `Reporting` |
| clock and timer (`std/clock.rs`, `std/timer.rs`) | time | `now`, `sleep` | environment of `Fetching` |
| sources (`core/source/*.rs`) | overrides, parsed bib files, the Atom reader's flags | `retrieve_chunk` | `Sources` over `Atom` and `Fetchers` |
| CSL helpers (`core/csl.rs`) | none (pure) | `set_id`, `remove_fields`, `merge_defaults`, `merge_over` | `Csl` |
| command line (`cli/main.rs`, `cli/input.rs`) | citations, report, items, exit status | `input::collect`, `run` | `Cli` |

How they interact. A run of the command line reads its citations, has the manager
retrieve them, and reads each back with `get`. `retrieve` drains a worklist in
passes: every item is looked up in the store and classified by
`batching::classify` (which uses the TTL policy); `batching::plan` decides per
prefix what goes out; `drive_source` cuts that into chunks and paces them; the
source turns a chunk into requests, through the retrying fetcher over the HTTP
one, and the bodies into resolutions; `store_resolutions` writes records, pushes
chain targets on the worklist and notes failures; at the end `flush` compacts the
store. Driver and fetcher emit events on the way, which a throttle thins out.
Everything within one process is one cooperative task, with prefixes driven
concurrently. Between processes the only shared state is the cache directory,
and the only synchronisation the advisory locks.

What is hard here: appends take no lock while a peer compacts; lock files are
unlinked while locked; a liveness lock is the oracle for a peer's death, and it
can die or come to life between any two calls; unlinks fail silently, and a
failing append leaves a torn line that the next one continues; open reads
without a lock; whether a cached pointer is kept, and so pulls its target in, is
known only after the whole batch was planned; an item reached by several
requests is taken once and stands for all of them; deferral, grace and prune
must fit together; pacing, backoff and throttle subtract readings of a wall
clock; `Missing` deletes a cached copy, so a source must not say it of a key that
it merely failed to hear about; the Atom reader has flags where a feed has
nesting. `PROJECT.json` lists each hazard at its line with the properties that
speak of it.

## 2. The modules

    Mutex <--refines-- FileLock       CachePolicy               Fetchers
                          |                |                    /      \
              (atomic lock of)         Batching     Atom       /        \
                          |             |    |        |       /          \
                      FileCache  RefreshCycle |       +-- Sources     Fetching
                                              |                           |
                                  Csl      Retrieval                  Reporting
                                    \         |
                                     +------ Cli

Each component has an `MC…` module with the definitions its `.cfg` files assign
to constants, and a `…_proofs` module where theorems are proved: those of `Batching`
are lemmas for `RefreshCycle_proofs` and `Retrieval_proofs`, and the latter extends
`Cli`, so that it speaks of the manager alone and of the command line. Definitions commented "Mutant of X" are X as a plausible bug would
have it; nothing uses them in the specification. They show that each property
fails when the code is wrong in that way.

**Mutex / FileLock.** `Mutex` says what a lock is: `Enter` when nobody holds it,
`Leave`. `FileLock` is `lock_the_file_at` one system call at a time: `Open`
(open or create), `Acquire` / `WouldBlock` (flock), `Confirm` / `StartOver` (the
`(dev, ino)` comparison and the bounded retry), `Unlink` (what `flush` does last,
still holding), `Release`, `Crash`. `named` is the inode the path names,
`flock[i]` who holds inode i; a freed inode number may be handed out again.

**FileCache.** Per writer a program counter; one action per `CacheFs` call.
`Write` is the synchronous prologue of `put`/`remove` (the in-memory view changes
at once); `EnsureLifelock` takes the companion, or goes on without it when a peer has it
(`Forgoes`); `AppendLine` writes the line and acknowledges it; `AppendFails` leaves no
log, a log as it was, or a torn one. `flush` is `FlushCall`,
`FlushLock` (compaction lock and main file), `List`, `FoldNext` per log,
`Replace`, then per folded log `ReapOwn`, `SkipPeer` or
`ProbePeer`–`UnlinkPeerLog`–`UnlinkPeerComp`, then the orphan sweep, then
`FlushDone` (companion given back, ephemeral records carried over, lock dropped).
A companion is `absent`, `free` (there, unlocked), `own` (held by the writer it
belongs to) or `peer` (held by whoever compacts). `SplitTryLock` chooses between
the atomic `try_lock_exclusive` the `CacheFs` trait describes and the open-then-
flock of the std host. The compaction lock is taken atomically: that is what
`FileLock` implements `Mutex` for. A record is the number of the write that
stored it; `hist`, `acked`, `committed`, `deadThen`, `keysThen`, `forgone`, `stranded`
and `failed` only record what happened. `forgone` are the writes that met a peer at
their writer's companion, `stranded` the writers whose companion the orphan sweep
unlinked beside their log, `failed` the kinds of calls that have failed: the
properties name their exceptions by these.

**CachePolicy, Batching.** Operators, one per function of the code; hashes and
draws are parameters; times saturate at `MaxMillis`. `Sorted` lists keys by rank,
`To` and `At` pick positions out of a list in order; `plan`, the manager's worklist
and the command line's output are built from them. **RefreshCycle** runs them:
`Retrieve` (one pass over one source, answered or in outage), `Prune`, `Tick`.

**Retrieval.** `Retrieve`, `BeginPass`, one of `SkipDuplicate` / `Refuse` /
`LookUp` per item, `PlanPass`, then per prefix `BeginGroup`, one of
`StoreConcrete` / `StoreChained` / `NoteFailure` / `NoteMissing` per key,
`EndGroup`, `EndPass`; `StoreFails` for an error of the store, `Return`, `Prune`.
`Link`, `Visited`, `GetSucceeds`, `DeadEnds` are the walk of `get`. A cite is a
normalised (prefix, key). Sources answer anything at all: concrete, a pointer
into `Targets`, a failure (or no answer: the code treats both alike), missing,
and with `ExtraAnswers` keys nobody asked for.

**Csl, Cli.** An item is a function from its fields to values. `Collect` is a run
up to its call of `retrieve` (`script` is the command lines that follow each
other; a malformed argument ends a run with status 2), the steps in between are
those of `Retrieval`, `Finish` reads every citation back, writes the items found
and the warnings, and sets the exit status. Between two runs another host of the
same cache may prune it. Which item the source of a cite returns, and which
properties its pointer sets, are constants.

**Fetchers.** One request: its URL is a scheme, what happens to it an event (a
connection that fails, a status with a body, a body cut short, a file that is not
there), and `Fetched(url, event)` the response or error `fetch_blocking` makes of
it. **Fetching** is one source over it: `BeginPass`, `Pace`, `StartChunk`,
`EndPass` are `drive_source`; `Send`, then one of `Answer` or `BackOff` on
`Arrive`, and `Retry`, are `RetryingFetcher::fetch`. Delays are words of `Width`
bits, as the code's are of 64. `real` is true time, `wall` what `Clock::now`
reads; `SetClock` steps the latter.

**Reporting** adds to each step of `Fetching` the events the code emits in it
(reports are synchronous), the throttle in front of the reporter, and the printed
counter; `OtherSample` is a sample of a second source that shares the throttle.

**Atom, Sources.** `Atom` is the feed reader: a record of flags and captures and
one operator per token (`OnOpen`, `OnClose`, `OnText`); a text is a sequence of
pieces (an id with its version digits, white space, a word, an escaped
character). `Sources` is one `retrieve_chunk`: for arXiv `LoadOverrides`, `Query`,
then one of `OpenElement` / `CloseElement` / `Characters` per token the server
sends, `BreakFeed` where the tokenizer reports an error (a cut within a tag, say),
`EndFeed` where it reaches the end of what was sent, elements still open or not
(every key is then resolved from the entries that were closed); for DOI `ResolveOne` per key; for bib files `LoadFile` per file, then
`LookUpAll`; `Format` for manual texts. `config` is the source, its keys and the
feed's vocabulary; `log` and `document` keep what the world said, for the
properties to compare with what the code made of it.

The reader matches local names and keeps no stack, "which is sufficient for the arXiv
feed" (`core/source/arxiv.rs:628`): what feeds it is sufficient for is
`FeedAssumption`. An entry stands in the feed only; its fields and authors stand
directly in an entry or in the feed; a text or a name is a leaf (`Cap` is of "text-bearing
leaf" elements, `core/source/arxiv.rs:671`); the other parts of an author are leaves too.
Anything else may stand anywhere, in any number and order, and the feed may be cut
anywhere. An entry with a `<source>` that has an `<id>` of its own, which Atom allows
and arXiv does not write, would fool the reader.

## 3. What the runs check

| run | shows | instance |
|---|---|---|
| `lock` | at most one holder, who guards the named file: the lock is a `Mutex`; waiting does not wedge | 2 processes, 3 inodes, 2 rounds, 2 crashes |
| `cache_core` | acknowledged writes survive in order, own view exact, ephemeral records stay in memory | 2 writers, 2 ids, 3 writes, 3 flushes |
| `cache_crash` | what a live writer may lose, which of its logs nothing vouches for, who may reap it, what the dead and a clean run leave behind: nothing, but for the exceptions each property names | 2 writers, 1 id, 3 writes, 3 flushes, 1 crash, any 2 failing appends, loads, reads, replaces or unlinks |
| `cache_live` | every flush ends | 2 writers, std lock, 1 crash, 1 fault of any kind |
| `refresh` | deferral fits grace and prune, top-up is free and by urgency, records are not mistaken for ephemeral ones | 3 keys, TTL 4, two policies, 7 instants, saturating at 10 |
| `retrieve` | reports, items and exit status account for every citation; a broken walk is reported, no id fetched twice, outages never empty the cache, the nearest property wins, every run ends | 2 command lines over 8 cites: chains of their own, and a shared target with a cycle, an unregistered prefix and extra answers |
| `fetch` | chunk starts spaced in true time, backoff neither hot nor endless, retries exactly where they may help, passes end; the display shows what is underway, thinned out fairly and ending on the final count | 2 keys, 2 passes, 2 requests a chunk, 2 retries, 3-bit delays, clock set back, a second source |
| `sources` | one answer per key, `Missing` only when the world said so, data only from what was heard, feeds read as they are nested, the right version and entry chosen, records kept whole | every feed of up to 5–7 elements, every file, response and failure of 4 sources |

Four more runs end in a violation, each of a sentence of the documentation:

* `cache_reap`: "its lines already captured by this same fold" – not a line
  appended after the fold by a writer that died before the reap.
* `cache_stdlock`: "a peer then sees a held lock and leaves our sidecar alone" –
  over the std host the lock that was in the way can be a peer's sweep, which lets
  go of it; the live writer's log is then reaped with a line in it.
* `cache_openrace`: open "loads the current on-disk state" – a flush between its
  two reads hides what that flush moved.
* `retrieve_shared`: "every requested cite that ultimately fails is discoverable"
  – not a request whose chain target was requested too.

The first and the last are the general form of something that holds under a
condition: `cache_core` checks `AckedWritesSurvive` where no writer dies and no
append fails, and `retrieve` checks `ApartFailureDiscoverable`, the same sentence
for requests of which none is, or shares, another's target.

Some properties join two statements about one hazard: `RunHonest` is
`CitesAccountedFor`, `StatusHonest` and `OutputLinesUp`; `RightEntryAnswers` is
`VersionKept` and `BestEntryAnswers`; `RecordKept` is `LaterFileWins` and
`DoiFieldKept`; `SamplesThrottled` is `SampleSpaced` and `NotStarved`.

Further differences met while modelling, which have no run of their own:

* Cache, a stranded log: the orphan sweep works from the listing made at the start of
  the flush. A writer that took its companion before that listing, made its first
  append after it and then died has the companion unlinked beside its log
  (`core/filecache.rs:667-674`). The log then reads as a foreign one: every later flush
  folds it and none reaps it, tombstones included, against "a sidecar left behind by a
  crashed writer must still be reclaimed" (`core/filecache.rs:133`). No call has to
  fail for that. `DeadReclaimed` excepts such logs (`stranded`) and shows that crashes
  leave no others.
* Cache, a live write lost to failing unlinks: a flush whose last unlink of its own
  companion fails leaves it there unlocked; a peer's sweep may then hold it when the
  owner's next write asks for it, so that the write is made without it (`forgone`); the
  sweep's own unlink fails too, and a later flush finds the companion unlocked and
  reaps the log of the running writer with lines its fold has not seen. `OnlyTornTailLoses`,
  `SidecarVouchedFor` and `OnlyOwnerReapsLive` except the forgone writes. Over the split
  try-lock of the std host no unlink has to fail for that (`cache_stdlock`).
* Cache: a flush that cannot read its own log does not reap it and gives the companion
  back all the same, so that a running writer's log is there with nothing to vouch for
  it (`SidecarVouchedFor` and `OnlyOwnerReapsLive` except histories with a failed
  read). An append that fails before there is a log leaves the companion, held, with
  nothing to vouch for until the writer's next flush, or, if it exits without one, until
  somebody's sweep (`NothingLeftAround` excepts it). A dead peer's companion is
  unlinked even when its log could not be; re-folding a live peer's log can bring an
  older record of another writer's id back.
* Refresh: `stale_percent = 100` makes every record ephemeral.
* Manager: a pointer cycle, or a chain overlapping a request, yields a complete
  report although `get` fails; a duplicate item overwrites the recorded origin;
  extra resolutions are stored and omitted ones reported as failures, both against
  `core/source/mod.rs`; an extra `Missing` or `Failed` yields a failure whose
  origin nobody requested (`core/manager.rs:780`); refused cites are in the report
  but emit no `CiteFailed` (`core/report.rs:245`); after an error of the store
  neither `PassFinished` nor `RetrieveFinished` is emitted.
* Pacing: retries are not paced, although `core/driver.rs:12` speaks of one
  request per interval; `last_start` lives in one `retrieve`, so two in a row may
  start chunks back to back; a clock set forward shortens the pacing although
  `std/clock.rs` says rate limiting never consults the clock.
* arXiv: an error entry is said to make the key `Failed` (`core/source/arxiv.rs:39-41`)
  and is answered `Missing`. A feed cut between two tags, in a text, or before its first
  tag tokenizes to its end (`core/source/arxiv.rs:879-902`), so the ids after the cut are
  `Missing` and their cached copies dropped, although a "malformed feed" is to be
  `Failed` (`core/source/mod.rs:65-67`). `MissingIsHeard` counts both as answers that
  were read through; that what was read before the cut is right is `DataIsHeard`.
* Command line: a requested cite that fails but is served within its grace is
  warned about although the exit status is 0.

## 4. Bounds, and why they are enough

* *Locks.* The race needs a holder that unlinks, a waiter on the old file and a
  new lock on a new file; two processes suffice because each may come back, and
  three inodes are one for the path and one per descriptor.
* *Cache.* Every failure known for this design involves one writer whose log is at
  stake, one that compacts and at most one that takes over after a crash; three
  writes give a put, a tombstone and a later put, or two writers and a re-write.
  A torn line matters to the next append only, so two writes show it. Two failing
  calls are what it takes to lose a write to failing unlinks, and to combine any
  fault with any other; three flushes let the owner's, the sweeping and the reaping one
  follow each other. The exceptions the properties of `cache_crash` name all occur in
  it. A third writer, to take over from a peer that crashed while compacting, and a
  second crash are left to the theorems, which have no bounds. `MaxWrites`,
  `MaxFlushes`, `MaxCrashes`, `MaxFaults` bound whole behaviours and are only guards of
  the actions they count. The calls that may fail are the five of `FaultKinds`; that a
  probe of a companion fails, or that `ensure_lifelock` gets an error rather than a
  refusal, is not among them.
* *Refresh.* Three entries are the fewest that fill a chunk of two and leave a
  choice of whom to pull forward; the clock passes freshness, stale window, expiry
  and grace of at least two entries and reaches saturation.
* *Retrieval, Cli.* Two command lines, so that the second meets pointers, records
  and expiries of the first; each names one or two cites of one of two worlds
  (one with targets of their own, one whose targets are shared and form a cycle),
  in every order, in two spellings, alone, or not at all. `MaxChainDepth` 3 is
  reached by a walk of the second world. Three instants and a TTL of 1 reach
  freshness, expiry and the end of the grace window between the runs.
* *Fetching, Reporting.* `MaxTime` bounds the time spent outside sleeps, never a
  sleep; `MaxSkew` bounds how far the wall clock gets from true time. Four units
  back is more than the pacing interval (2) and than the throttle's gap (3).
  Delays of 3 bits make `Base * 2^n` (4, 8) overflow at the first retry, and a
  `Retry-After` of 9 exceeds both the cap and the word. Statuses are a success, a
  permanent and a fleeting failure; URLs one that is sent and one that is read.
  Two passes show what survives a pass, two requests per chunk what one chunk's
  second request does to the first one's times.
* *Sources.* The ids are a name with no version, with versions 1 and 2, and with
  digits that overflow `MaxVersion`; feeds have up to 5 to 7 elements, enough for
  two entries of the same id with a DOI each, or for an author inside an entry with
  an affiliation or contributor before and after its name. `MCResolve` varies ids,
  DOIs and overrides, `MCTitles` the texts (pieces, escapes, CDATA) and stray
  elements outside an entry, `MCAuthors` the nesting. Statuses are 200, 404 and
  503; every scheme the fetcher knows occurs, and one it does not.

Deadlock is not checked where the bounds let a behaviour end: in all runs but
`lock`, `refresh` and `sources` (whose specification stutters once it is done).
Symmetry is not used: the order of writers and keys matters (name order, ties),
and the runs with liveness exclude it.

## 5. Fairness

`FileLock`, `FileCache` and `Fetching` assume weak fairness of what a running
process does without being asked: the operating system schedules it, calls
return, time passes. Nothing obliges anybody to ask for a lock, to write, to
flush or to crash. Weak fairness suffices for `FlushEnds` because flushes are
bounded: a waiter that loses the compaction lock does so finitely often; the
code itself gives no queueing guarantee. `Fetching` has it for the driver, the
request and time, and `Reporting` for the same steps with their events
(`FairReportingSpec`); setting the clock and the second source have none.
`Cli` assumes weak fairness of the running command (`FairCliSpec`): requests time
out, so every answer or failure arrives. An error of the store (`StoreFails`),
another host's prune and the next instant are not under fairness: nothing obliges
them.

## 6. What is proved

Each for every value of the constants, with the named assumptions of the modules.

* `FileLock_proofs`. `TypeCorrect`, `HoldersExclude`, `HoldersGuard` and
  `LockRefines` (`Spec => ImplementsMutex`). Mutual exclusion is not inductive by
  itself: that two holders hold the *same* inode comes from the path naming each
  holder's file, which `Confirm` establishes and only the holder's own `Unlink`
  ends. The invariant adds that a process past flock owns the lock of the file it
  has open. For the refinement, a check that succeeds is an `Enter` (`ConfirmEnters`),
  an unlink, drop or death of a holder a `Leave` (`HolderLeaves`), and nothing else shows
  (`WaitingUnseen`).
* `FileCache_proofs`. Without conditions, whatever fails and over either kind of
  lock: `TypeCorrect` (with `ControlTypes` under it) and `OwnOrderKept`, by
  `RecordInv`: what a log holds and what a compaction gathers are acknowledged
  persistent writes, each log in the order issued, and of one writer's gathered
  writes those later than a line of its log are still in that log (`NoLateLine`), so
  that folding a log never goes back behind what is committed.

  Also without conditions, each with the exceptions it names: `OnlyTornTailsLose`
  (`Spec => []OnlyTornTailLoses`), the data-loss guarantee of the design; `LiveLogsSafe`
  (`Spec => []SidecarVouchedFor`) and `OwnerReaps` (`Spec => OnlyOwnerReapsLive`).
  The invariant has two parts. `HeldInv`: a file that a flush is unlinking has its
  companion locked by that flush (`TakenHeld`), and a flush that still has its own log
  has it in sight, unless a log could not be read (`OwnLogKept`). `DataInv`: an append
  is made under the writer's own companion or is of a forgone write (`AppendHeld`);
  behind a torn tail of a live writer is its last write, or the last but the one about
  to be appended, and never an acknowledged one (`TornTail`, so only the next append can
  be lost); what a flush could reap of a running writer's log was captured by its fold
  and is committed before the reap, but for what is forgone (`FoldedSafe`); so every
  acknowledged write of a running writer is in its log, committed, or one of the two
  exceptions (`WritesKept`). Most steps disturb none of this, which is shown once
  (`QuietStep`) for the steps that qualify (`QuietActions`). The run `cache_stdlock` shows
  what the exception of the forgone writes costs without an atomic lock.

  With the atomic `try_lock_exclusive` of the trait and no failing unlink or read of a
  log (`TraitHost`), `NothingForgone`: no write meets a peer at its writer's companion,
  which leaves the torn tail as the only exception. The invariant, `VouchInv`: a
  running writer's companion is absent or its own, so no peer can lock it
  (`CompanionHeld`); a flush that still has its log has it listed or folded
  (`OwnLogSeen`), so the companion is given back only after the log; what a flush holds
  for reaping or sweeping belongs to a dead writer (`OnlyDeadTaken`).

  Over the same host, `DeadLeaveNothing`: of what a dead writer left, a companion is
  locked only by the flush that takes it away (`DeadUnlocked`), and what a flush found
  left behind when it began stays in its sight until it is gone (`LeftoversSeen`); a
  log without companion is a stranded one, and stays one, out of every flush's reach
  (`StrandInv`). `CleanRunLeavesNothing`: an own companion has a log, an append or a
  flush of its owner to account for it, or the append it was taken for failed
  (`CompanionUsed`). Appends may fail in both.

  With no failing append either (`NoTornLines`): `LiveWritesKept`, the guarantee
  without exception; `AckedWritesKept`, that until somebody crashes every acknowledged
  write is in its own log or committed (`CrashedAre`: whoever is not alive crashed); and
  `OwnSequenceKept`, from `SeqInv`, which follows an id that one writer only has written
  through log, main file, a peer's fold, the writer's own fold and its view.
* `Batching_proofs`. Lemmas: what `Sorted`, `To` and `At` return (every member once, in
  order, with each of their items at a position), cardinalities of prefixes, and what
  `plan` adds to what is due. Sorting is a function to positions, so these need no
  induction over sequences.
* `RefreshCycle_proofs`. `NormalRecordsPersist`: with both percentages below 100
  and no time near saturation (`Sane`), a record with a TTL is never ephemeral, whatever
  the policy, TTL, hashes and history. `stale_percent = 100` shows the assumption
  is needed. `TypeCorrect` (`RecordTypes`). `UrgentFirst`, for any key set and policy,
  from the order `Sorted` gives. `TopUpCostsNothing`, where chunks are not empty
  (`ChunkSize > 0`; the code raises 0 to 1). `ServedSurvives`, while the clock
  cannot reach saturation (`MaxTime < MaxMillis`) and a stored entry has a lifetime or
  a grace window (`LivesOn`): without either it is prunable as it is stored.
* `Fetching_proofs`. `PacingHolds` (`Spec => ChunkStartsSpaced`) for every
  interval, chunk size, retry policy and number of passes, when the clock is only
  set back (`OnlyBackward`). The invariant: since the last chunk start the wall
  clock has gone no further than true time, and a pacing sleep ends no earlier
  than an interval after that start. `RetriesEarned` and `BackoffKept` need no
  assumption: `RetryInv` says that the wait under way is as long as the policy says,
  a delay saturates and never wraps, and doubling never takes it below the base (that
  `2^n` is not 0 comes from the number of subsets of n things: `PowerOfTwo`).
* `Reporting_proofs`. `ReportedPacingHolds` and `ReportedRetriesHold` carry these over
  to the reporting system, which implements `Fetching` step by step.
  `AnnouncedIsUnderwayAlways` and
  `FinalCountAlwaysShown` are one invariant (`DisplayInv`). `NeverStarved` needs
  that the throttle's entry for this source is the time its last sample was shown
  (`ThrottleInv`): the other source writes its own entry only.
  `SamplesAlwaysThrottled` adds, under `OnlyBackward`, that the clock has not gone
  further than true time since then (`SpacedInv`).
* `Retrieval_proofs`. Six theorems for the manager alone and under the command line
  (`Spec \/ CliSpec => ...`; every run of the command line is a run of the manager that
  pauses, `Managed`, because what it passes on is a list of cites, `ArgsTyped`).
  `TypeCorrect`: the code bounds no depth by the number of cites, but an item at depth
  n was reached over n ids that `seen` holds (`DepthInv`), so a chain cannot be longer
  than the ids there are, and the worklist empties. `AskedOnce`: an id asked for is not
  classified again (`Fresh`). `OutagesKeep` needs the types alone.
  `BrokenWalksReported`, for any graph of pointers: an id looked at is reported, or
  still to be fetched, or cached with its target looked at or due (`SettledInv`), so
  when nothing is due any more each step of `get` from a request leads on, ends, or
  stops at a reported id. `FailuresTraced` and `UnresolvedFound`, of requests that
  share nothing and where a chain may have a step (`MaxChainDepth >= 2`):
  everything the manager holds is attributed to the request it is for
  (`AttributedInv`); a pointer about to be replaced is not yet a way to go, which is why
  the invariant speaks of links that are final.

  Of the command line: `RunsAreHonest`, that no citation is lost in silence, the status
  is right and the output lines up with the request. Whether an output lines up is
  a statement about two lists picked by `At`; a list of the members of a set in a
  given order is unique (`OrderUnique`). `NearestSetsWin`: for chains of any length,
  what `Gather` leaves of a field is that of the nearest set that has it
  (`GatherNearest`), and the sets gathered are those of the walk (`RouteTaken`).
* `Sources_proofs`. `OneAnswerPerKeyAlways` and `MissingIsHeardAlways`: whatever the
  sources, chunks, feeds and failures, a finished chunk answers each of its keys
  once and in order, and says `Missing` only of a key for which all it asked came
  with success and could be read through (for a DOI: or came as a 404), where a feed cut
  between two tags reads through. The invariant (`SourcesInv`) ties the phase to what the log
  holds: while a source still goes on, everything logged so far was sound
  (`SoundSoFar`), since every failure ends the chunk. `RecordKeptAlways`: what is
  stored of a key is its last item in the files, or the host's own, and all the fields
  of a DOI's record. The invariant (`FilesRead`): the map built so far holds of each id
  the last item of the files read so far, which one more file keeps
  (`LoadedHoldsLast`, `ReadsMore`).

  `FeedReadAlways`, for every feed that nests as `FeedAssumption` says: flags in place
  of a stack lose nothing. `FeedInv` splits what was sent (`Holds`) into the
  entries closed, of which the reader has what their elements say; the open entry; and
  what the reader has stored of it, which is all its elements but one whose text is
  still in the buffer. It is inductive because the nesting leaves a name that is
  captured only one path to stand at (`NestShape`, `CapturedPath`), and because storing
  one more element changes one field as reading one more does (`RawAppend`).

  `RightEntryAlways`: `ArxivInv` says that a feed that was tokenized has answered each key
  out of its closed entries (`KeyAnswered`), by overrides that are the host's over the file's
  (`KnownOverrides`). The fold over the entries finds one no other is better than
  (`ChosenIsBest`), and an entry with a version has no digits left in its base
  (`SplitIs`, `ReadIsEntry`), so that a key with a version names one entry id only.

  `DataIsHeardAlways`: the same invariant for arXiv, and per key or file for the others
  (`OtherDataHeard`). Both directions are needed of each response: the code goes
  on only after one that was sound (`SuccessIsSound`), and never stops after one
  (`SoundSucceeds`).

Where a definition recurses (`Gather`, `Loaded`, `SelectBest`, the concatenation
`FlattenSeq` of the library) or a property follows a walk, the proofs do induct: a set of numbers that is not empty has a least, since `<`
is well-founded on `Nat`, and the set of those for which a statement holds is a set of
its own (`Least`, `NaturalInduction`). The library's induction theorems take the
statement as an operator, which no installed prover can instantiate.

## 7. Only model-checked

Liveness (`NoWedge`, `FlushEnds`, `RunEnds`, `PassEnds`): out of the prover's reach.
Every safety property of the passing runs, invariant or action property, is a theorem.
Where one needs a condition on the constants, section 6 names it; what a run checks
outside that condition (a failing unlink or read for `DeadReclaimed` and
`NothingLeftAround`, say) is model-checked only.

## 8. Not modelled

* Of the fetcher: percent-decoding of `file:` paths, redirects, size limits,
  headers other than Retry-After.
* Of the sources: the query string, bytes that are not UTF-8 beyond being an error,
  the splitting of names and dates, and what the YAML and JSON readers make of a
  file (`cli/formats.rs`): its entries are an input. `normalize_key` is what makes
  two spellings one cite, not a function of the model.
* Of the command line: option parsing and what it assembles (`cli/cli.rs`,
  `cli/batching.rs`, `build_manager` in `cli/main.rs`). One difference was met reading it:
  "Preserve `ALL` order" is said of the enabled sources, and the order of `--enable`
  is kept.
* The manager's own events (passes, cites, flush) and all wording.
* Foreign logs (files no writer created): folded, never reaped.
* Two operations of one store at a time (`core/filecache.rs:181`): the docs forbid
  it ("must not be polled concurrently").
* The order of two writers of one id, by name of their logs (`core/filecache.rs:75`),
  documented as best-effort.
* The executor and waker the std crate writes by hand: they run one task to its end.

## 9. Plan

Done, in this order: `Mutex`/`FileLock` with proofs, `FileCache`, `CachePolicy` and
`Batching` with `RefreshCycle`, `Retrieval`, `Fetching`; then `Fetchers` with
`Fetching` over it, `Reporting`, `Atom` and `Sources`, `Csl` and `Cli`, the fault of
a failing append in `FileCache` with what it costs; then the proofs of every safety
property.

Next, in order of weight: an abstract specification of the cache (a map per writer with merge) and `FileCache`
as its implementation; how the command line's batching options become policies;
the manager's events beside those of the driver.
