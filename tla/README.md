# Formal models of the Unraid file browser

TLA+ models of the daemon behind the file browser plugin, the TLC runs that
check them, and TLAPS proofs of the properties that matter most. Paths below
are those of the repository (`daemon/` is `src/daemon/` here).

## The system

A Go daemon (`filebrowserd`) serves a web client over a Unix socket; Unraid's
web server authenticates and forwards to it (`proxy.php`).

| part | state it keeps | operations | what is hard |
|---|---|---|---|
| File index (`internal/index`: `service.go`, `crawler.go`, `meta.go`, `store.go`) | SQLite tables `files`, `content_fts`, `file_meta`, `meta`; live configuration; one crawl at a time; pause channel; subscribers | `New`, `Rescan`, `SetConfig`, `Pause`, `Resume`, `Close` | the disk changes during a crawl that lasts minutes; the configuration changes during it; statements fail one by one; the process dies between two of them |
| Index service around the crawl (`service.go`, `lazyIndex`, `api/index.go`) | subscribers' channels, coalescing timer, cron, wait group, count of streams | `Subscribe`, `notify`, `RunScheduler`, `Rescan`, `Close`, event stream, shutdown | a dozen goroutines and four locks; check and act apart; late sends on channels that close |
| Index search (`search.go`) | none | name, LIKE and content branches, merge, paging | a page is put together from several queries while rows are written |
| Settings (`cmd/filebrowserd/main.go`, `internal/config`) | `config.json` | load with fallbacks, save by rename | live and saved configuration drift apart; start while the index is opening (`lazyIndex`) |
| Media service (`internal/transcode`) | semaphore of process slots, live children, sessions with use counts and ages | probe, create, playlist, segment, close, expiry | every error path gives back slot, child and use count; eviction races with requests; deadlines; clients that stop reading |
| Transcoding decisions (`plan.go`, `playlist.go`, `planSegment`) | none | pure functions | segments must join without gap, with one rule seen from both sides of a cut |
| Archive resolver (`internal/archive`) | slots, temp-file budget, cache of entry tables | list, stat, open through nested archives | an operation opens several layers under one slot; budgets; stale cache keys |
| HTTP API (`internal/api`) | slots for expensive requests, count of event streams | routing, limiter, server-sent events | bounded waits, slow consumers |
| Path confinement (`internal/fsops`) | none | resolve beneath the roots | renames and links while a path is walked |
| Views, metadata extractors | none | decode windows of files, parse headers | file formats |
| Web client (`web/src`) | page lists, player, live status | paging, fallback from stream to polling | answers of an earlier navigation |
| Plugin (`plugin/source`) | pidfile, socket | start, stop, forward | start while another start runs |

The parts meet in few places: the API calls the index, the archive resolver,
the file system and the media service; the media service opens its input
through the resolver; `persistingIndex` ties the index to the settings file;
the crawler pushes its status to the subscribers the API serves.

## Modules

| module | what it is |
|---|---|
| `FileIndex` | the crawl, the sweeps, the configuration, failure, shutdown and restart |
| `MCFileIndex` | its instances for TLC |
| `MediaSessions` | the media service: slots, children, sessions |
| `MCMediaSessions` | its symmetry for TLC |
| `MCProgress` | `FileIndex`, `MediaSessions` or `ArchiveResolver`, for the liveness of the three |
| `ArchiveResolver` | operations on nested archives: slots, temp-file budget, cache of entry tables |
| `MCArchiveResolver` | its table sizes for TLC |
| `IndexService` | the index service around the crawl, its stand-in while it opens, the event streams, the end of the daemon |
| `MCIndexService` | its instance for TLC |
| `PathWalk` | a request of the file system service against other programs' renames and links |
| `MCPathWalk` | one link whose text goes up behind another link, for TLC |
| `Search` | a search, page after page, against writes to the index |
| `MCSearch` | the indexes to search and the searches, for TLC |
| `MCRequests` | `PathWalk` and `Search` together, one request at a time, for TLC |
| `SlotPool` | what a limit promises: the abstract specification that `MediaSessions`, `ArchiveResolver` and `IndexService` implement |
| `FileIndexProofs`, `FileIndexExactProofs`, `MediaSessionsProofs`, `ArchiveResolverProofs`, `IndexServiceProofs`, `PathWalkProofs`, `SearchProofs`, `SlotPoolProofs` | theorems about the module each is named after (the second continues the first) |

### `FileIndex`

One step is one SQL statement, one transaction or one file operation; what the
code does between two of them without touching shared state belongs to the
step. SQLite serializes statements, so this is the grain at which a crawl, the
callers of `PUT /index/config` and the disk interleave.

- `disk[f]` says whether a file exists and counts its changes. A version stands
  for the pair of size and time that `upsertSQL` compares, so two changes that
  leave both equal (same second, same size) are not distinguished.
- `row`, `doc` and `met` are the three tables as partial functions of the path;
  a row has its generation, version, and the marks `content_indexed` (`ci`) and
  `meta_extracted` (`me`). The ids of `file_meta` are abstracted to paths: only
  a walk inserts rows, and it never runs beside the metadata pass.
- A path is an element of `Files`, a directory one of `Dirs`. `Under[d]` is what
  lies beneath `d` for the walk, `Like[d]` what the prefix condition of `d`
  selects in SQL; SQLite's `LIKE` folds ASCII case, so the second may be larger,
  and that is all `PathAssumption` says of the two.
- `pc` follows `runCrawl`: `begin` (snapshot of the configuration, generation),
  `walk` (list, stat, batch, upsert), three sweep statements, cleanup /
  candidates / extraction of the content pass and of the metadata pass, the
  full-scan stamp, and the deferred end, which reads the live configuration
  (`endRead`) and sweeps with it (`endSweep`). Cancellation and a failed
  generation go straight to the deferred end (`Abandon`).
- The parallel workers of a pass are the choice of any pending candidate; the
  single writer takes any full batch of results. Both over-approximate the
  order in which channels deliver.
- A caller of `SetConfig` stores the configuration, reads it again for its
  sweep, sweeps, and saves the one it was given; callers are not serialized,
  as the code does not serialize them.
- Failure: any statement, batch, stat, directory read or extraction may fail
  (`MaxFaults`); the code logs and goes on, and so does the model.
- `Rescan` is the four steps of the code: its tests (`Rescan`), the swap of
  `crawlBusy` (`Claim`), the cancel function (`Register`), the wait group and the
  goroutine (`Spawn`). `Close` is four too: `closed` (`Close`), the cancel it finds
  (`CloseCancels`), the wait, and the store (`CloseStore`). Any step of the one
  may come between two of the other: a crawl that registers after `Close` has
  looked is not cancelled (`MissedCancel`), and one that is spawned after the
  wait meets a closed store, on which every statement fails (`Fault`). `Pause`
  and `Resume` ask nothing of `closed`.
- `Reboot` stands for death at any step or a start after shutdown: everything
  volatile is lost, the saved configuration is loaded (an empty list of roots
  is replaced), and `New` sweeps with it.
- History: `stable` are the files nothing disturbed since the crawl began (no
  write, failure, cancellation or change of configuration), `missed` says that
  the last sweep with the live configuration failed. No guard reads them.

Left out: the counters and the status feed, the scheduler (both in
`IndexService`), `VACUUM`-like upkeep, the order of roots, allowed roots and the
clamping of numbers in `sanitizeConfig`.

### `MediaSessions`

A player is one request at a time, its `at` the place in the code; the steps
are separated where the code takes or leaves a lock, waits for a slot or waits
for a child. `sem` and `running` are the semaphore and the counter of children;
`active`, `order`, `stale` and `hwFailed` are the fields of the sessions
(`lastUsed` only as an order of the sessions, plus whether it is older than the
TTL). `put` holds the store's lock over its scan (`mu`, `scan`) but looks at one
candidate at a time, so requests begin and end in between.

Deadlines are not counted: what a deadline may cut short may end at any moment.
One comparison of durations is used: `Age` does not expire a session between a
request's touch and its `begin()`, which are at most `ProcWait` (10 s) apart
against a TTL of 10 min. The unlocked read of `victim.lastUsed` in `put` is
modelled at the look at the next candidate: the word the comparison reads is
written at once, so it sees the value before or after a concurrent touch.

Left out: the keyframe cache, what the commands compute, the several keyframe
lookups of one request (they run one after the other; one child stands for
them).

### `ArchiveResolver`

Layer 0 is the archive on disk, layer `i` an entry of layer `i - 1`. `resolve`,
`tableForBlob`, `openEntryRaw` and the blobs' `stream`, `readerAt` and `file` call
one another through all layers; the model lays those calls out as a sequence of
instructions (`work`) in the order in which they run, and each action takes the
head: `table` (the key), `find` (the cache), `slot` (`acquire`), `read` (open the
archive on disk), `spill` and `write` (give a nested layer bytes of its own),
`parse`, `put`. A lookup that misses puts the listing in front of what was left
to do, which is the recursion of the code.

- `sem` is the channel of slots, `held` the `opGate`; `used` is the ledger. A
  reservation is two steps, add and undo (`over`), as the counter is an atomic.
- `temps` is the stack of open layers with the bytes their temp files take.
  Leaving on an error pops it one close at a time, then gives the slot back, as
  the defers do; the stream of `Open` keeps its layers until it is closed.
- A cleanup is two steps: the bytes go back to the ledger (`Release`), then the
  file is removed (`RemoveTemp`), which may fail without anyone looking. Between
  the two other operations may reserve; `going` are the bytes of the file in
  between, `litter` those of files that stay. The ledger counts neither.
- `ver` is the archive's pair of time and size, `seen` the version an operation
  has open. The cache maps keys (version looked at, layer) to the version the
  table was read from; `TableSize` gives the bytes of its table.
- A layer is streamed out of its parent, kept in memory or spilled at will: which
  of the three depends on formats and sizes.
- Any instruction may fail (`Fails`): I/O, a format, no such entry, the deadline.

Left out: the names in a table (see the plan), which version an entry is decoded
with (a table of one version used on the bytes of another ends in an error or in
the entry of that name), and the sweep of temp files at start. The ledger's
comment says that `reserve` fails "when that would exceed the budget"
(`archive.go:501`); it may also fail because of another's reservation that is
about to be undone. The files that operations and open streams use never exceed
the budget, which is what the invariant says, and what `MaxTempBytes` is said to
bound ("live nested-layer temp files", `archive.go:93`). The disk may hold more:
files between release and remove, and those that could not be removed.

### `IndexService`

`FileIndex` says what a crawl does to the tables; here a crawl is the changes of
status it announces. A status is a number, one more at every change that
`runCrawl` announces, so "newer" is "greater"; its counters are left out. One
step is what a goroutine does under one lock, or one operation on a channel or
an atomic.

- `call` follows `Rescan` in its four steps (the look at `closed`, the swap of
  `crawlBusy`, the cancel function, the wait group and the goroutine), because
  `Close` may come between any two, and `SetConfig` in its two locks. The cron
  is one of the callers of `Rescan`.
- A crawl ends by its three defers: `CrawlEnds` gives `crawlBusy` back (`cancel`
  comes then, of a context nobody looks at any more), `CrawlDone` leaves the wait
  group. In between the next `Rescan` may claim, register and enter the wait
  group, which then counts two; `ending` are the crawls that are there.
- `crawl` holds where `runCrawl` is, what it has still to announce (`tell`, with
  or without force) and whether it started after `Close` began (`late`).
- `subs`, `queue` and `shut` are the subscribers, what their channels hold, and
  the channels that are closed; sending to one of those, and closing one twice,
  is the `panic` Go makes of it. `sub` follows `Subscribe` (register under the
  lock, read the seed, send it) and the stand-in's goroutine (`poll`, forward).
- `pc`, `pending` and `view` are `indexEvents`: the slot, the greeting, the
  status put off, what the client has seen.
- `main` follows `run`: shutdown of the server, then `Close` in its five steps,
  then the rest and the end.
- Time is not counted. Whether a second has passed since the last push, or ten
  since the shutdown began, is a choice at each point where the code compares.
- History: `caught`, `sank`, `overtaken` and `dropped` mark what the properties
  must allow (below). No guard reads them.

What the model makes visible, all of it in the code as it stands and none of it
contradicted by a comment:

- The seed of a subscription may be older than a push that was queued before it
  (`overtaken`): a client then sees its view go back to the seed, a second time
  if it had already gone back from its greeting to what was queued before
  (greeting 2, then 1, then 0), and keeps it until the next push.
  A push that finds a channel full is lost (`dropped`), even the last one.
- `Subscribe` in the middle of `Close` may send to a channel `Close` has closed;
  one after `Close` registers a channel nobody closes. Both happen only while
  the process ends.
- `Rescan` may start a crawl after `Close` has waited (`late`). `Close` may also
  find no cancel function yet, and then waits for the whole crawl; if the
  crawler is paused, for ever (`MissedCancel`).
- With a stream open, `srv.Shutdown` always takes its ten seconds, and `run`
  returns an error, because streams end only with their clients or with `Close`,
  which comes after.

Left out: `recount`, which changes counters and announces nothing; the errors of
`SetConfig` and `Rescan` other than closed and busy; the heartbeat.

### `PathWalk`

A request of `List`, `Stat` or `Open` beside other programs that change what any
name stands for. `Confine` and the choice of the root look at one state of the
tree, as the walk does not rely on them; then one step is one system call:
`LookAtLeaf` (`fstatat`), `OpenElement` (`openat` with `O_NOFOLLOW`), `LookAgain`
(the `fstatat` after an open that failed), `ReadLink`, and what is done with
the descriptor at the end. A link re-spells the path and the walk starts over
from a root (`OpenRoot`).

The model separates objects from names: `tree` gives the names of each
directory, `MayName` what a name may come to stand for. `TreeAssumption` says
what the code must assume too: other programs move things about beneath the
roots but not out of a directory beneath a root to one outside and back; a
link may stand anywhere and point anywhere. The path library's resolution
(`EvalSymlinks`) is written out because `Confine` calls it and because it is the
reference for `QuietWalkResolves`. It is a loop over stages (elements still to
resolve, the spelling reached, links met), written as recursive functions
(`DirAt`, `Resolve`, `Clean`), not operators, so that it can be reasoned about.

`QuietWalkResolves` compares the walk with it while the tree is at rest. Its
premises are where the two need not agree:

- `RootsStand`: a root's path still resolves to the directory that `New` found.
  The code keeps the spelling of that moment (`resolved`) for ever.
- `Tidy`: no link's text goes down and up again. The walk joins texts as text
  (`fsops.go:306-311`), path resolution goes up from where the elements before
  lead, which differs behind a link. What then becomes of the comment at
  `fsops.go:272` is the run `path_walk_dots`.
- `~GaveUp`: the library did not stop at its own limit of links (255). For a
  grant, the request must meet no more than `maxSymlinkHops` links.

Limits: permissions are absent (the daemon runs as root), so are errors of
opening a root, and paths that are empty, relative or hold a NUL, which are
refused before. Only List's names are described, not their sizes.

### `Search`

Every SQL query is one step and sees one state of the index; rows and roots may
change between queries. A row is reduced to how it meets the text: its rank in
each FTS table, and whether LIKE finds its name. A query is answered with a
window of the rows it selects in its order; that is what `LIMIT` and `OFFSET`
say. The model has the checks of the handler and of `Search`, the counts that
decide between branches, the LIKE fallback, the count of the union, the two
fetches, the merge with its boost, and a client that turns pages.

Names have two orders besides that of their bytes: `NoCase`, in which SQL sorts
(`COLLATE NOCASE` folds `A` to `Z`), and `Lower`, in which Go does
(`strings.ToLower` folds any capital). `InBranch` uses the first, `InMerge` the
second. Relevance is a score in either, but equal scores are ordered by the
branch's own clause and, in the merge, by kind and path.

*What is exact, and what is not.* `search.go:178` says that "both branches and the
merge share one total order, so the page is exact". `PagesAreExact` states the
conclusion in two parts. Without any premise, while nothing is written: the total
is the number of files found, and each page is full until all of them were shown.
Under the premise the comment gives, that the orders agree (`OneOrder`): the pages
laid end to end are the answer, no file twice and none left out. The code does
not always keep that premise, and the run `search_twice` shows what then becomes
of the comment (`NoFileTwice`): all LIKE hits have one score, their query orders
them by name, the merge by path, so the top of the branch is not the top of the
merge. With five files and pages of one, a file is shown twice and another never.
The premise fails in two more cases, which TLC finds when it is dropped: sorting
by name with capitals outside ASCII (`É` and `á`), and a file that its content
lifts to the score of another one. `PagesAreAsGood` says what remains in all cases
of relevance: each place has a file of the score that belongs there.

Also left out: `parseQuery`'s treatment of the text; the closed service. Total and
page are separate queries and may differ by a write in between, which the three
properties exclude (`moved`).

### `SlotPool` and its implementations

A pool of slots has holders, at most `Capacity` of them; a client takes a slot
only while one is free, and gives back its own. Each implementation maps the
holders to its clients at certain places: `SlotsAreAPool` (`MediaSessions`, the
requests that have a process slot; a channel of tokens), `OperationsShareSlots`
(`ArchiveResolver`, the operations whose gate is held, however many layers they
open) and `StreamsAreAPool` (`IndexService`, the streams let in; an atomic that
is raised first and compared then, so that streams about to be refused are
counted as well). All three are proved, and the last two are
properties of runs as well; the first adds nothing to a run that has
`CountersMatchRequests`.

## Runs

| run | checks | instance |
|---|---|---|
| `file_index` | `TypeOK`, `ConfinedWhenQuiet`, `ConfinedOrSwept`, `MarksAreFresh`, `FreshByOrder`, `FullCrawlIsExact`, `SweptFilesAreGone` | two files in two roots; either one crawl over a disk at rest, two concurrent callers with three configurations (both roots, one, both with include paths), and one failure, restart or pause, or `Close` and all that fails after it; or two crawls (full or of one directory) with any two of: files that change once each, one change of the include paths, and one failure, restart or `Close` |
| `file_index_case` | `SweptFilesAreGone`: violated | two roots whose names differ in case |
| `file_index_foreign_key` | `MetaPassIsComplete`: violated | a root dropped during the metadata pass, batches of two |
| `file_index_settings` | `SettingsSurviveRestart`: violated | the list of roots emptied, one restart |
| `media_sessions` | `TypeOK`, `CountersMatchRequests`, `SessionsWithinLimit`, `SweepSparesRequests` | three requests, two slots, one session allowed, two created, hardware encoding |
| `progress` | `CrawlEnds`, `CloseReturns`; `RequestsAreAnswered`; `OperationsEnd` | the index with one crawl, pausing, closing, one change of configuration; or the media service with two requests, one slot, one session allowed; or the archive resolver with two operations, one slot, two layers, bytes and cache of one unit |
| `media_sessions_evicted` | `NoPlayerLosesItsSession`: violated | two requests, one slot, one session allowed |
| `archive_resolver` | `TypeOK`, `SlotsMatchOperations`, `LedgerMatchesTemps`, `CacheIsExact`, `NoStaleAnswers`, `OperationsShareSlots` | two operations, two layers, one slot, a budget of three units, layers of two, chunks of one or two, a cache of two tables and two units, one replacement, up to two units of files that cannot be removed |
| `index_service` | `TypeOK`, `CloseWaitsForCrawl`, `CronFollowsConfig`, `StreamsWithinLimit`, `StreamsAreAPool`, `OnlySeedsPanic`, `PushesInOrder`, `ViewGoesForward`, `ViewCatchesUp`, `ShutdownEnds` | three loads: two streams and the end of the daemon; one stream beside a crawl with one content pass; two callers with two crawls, settings, pauses and the end. Channels of two, one stream allowed |
| `requests` | `TypeOK`, `NeverEscapes`, `DescriptorsBalance`, `QuietWalkResolves`, `RequestEnds`; `SearchTypeOK`, `HitsAreConfined`, `PagesAreExact`, `PagesAreAsGood` | seven paths, one of them through a link above the root, through three names that other programs keep changing (files, links in, out, to themselves and by "..", a pipe); every index of three files in seven shapes, with seventeen queries, five files for the fallback, one write during a search |
| `path_walk_dots` | `LinksBehaveAsBefore`: violated | three paths; a link whose text goes through another link and up again |
| `search_twice` | `NoFileTwice`: violated | four files that LIKE finds, one that the content search finds, pages of one |

What the passing runs show:

- **Confinement.** Whenever nothing runs, the index holds nothing the live
  configuration does not cover, however crawls with older snapshots and
  overlapping requests interleave. The reason is the second invariant: each
  sweep reads the configuration after the change it must honour was stored.
- **Freshness.** A mark never vouches for text or metadata older than the row.
- **Exactness.** A full crawl that ran to its end agrees with the disk on every
  undisturbed file, and its sweep deletes only files that are gone.
- **Progress.** Crawls end. `Close` returns, also where the crawl is paused, but
  for one: a crawl whose `Rescan` was past its test when `Close` came and
  registered its cancel after `Close` had looked. While that one is paused,
  `Close` waits (`MissedCancel`).
- **Accounting.** Slots, children and use counts match the requests that hold
  them on every path; there are never more sessions than allowed; expiry never
  drops a session in use; every request is answered.
- **Archives.** A slot is out for exactly the operations that hold one, and none
  waits for its own; temp files in use stay within their budget and the ledger
  counts exactly them, not those let go or left behind; the cache's sum is exact
  though two operations file the same listing; no answer comes from a table
  older than the operation.

- **Shutdown.** `Close` waits for every crawl but one whose `Rescan` had passed
  its test before; it ends, with streams open and crawls paused, but for the
  missing cancel function named above.
- **Status.** A client that stays sees the last announced status however long
  the crawl then stands still, unless its channel was full or its seed came
  late; what it sees goes back once from its greeting to what was queued before,
  and once more if its seed was queued behind a newer push.
- **Schedule.** Whatever callers of `SetConfig` interleave, the cron is that of
  the configuration in force once each has left its second lock.
- **Paths.** Whatever becomes of the tree during a request, nothing outside the
  roots is opened, and only files are read; no descriptor is left; the request
  ends though the tree may change for ever. With the tree at rest, and no link
  whose text goes up behind another one, it finds what path resolution finds, no
  more and no less.
- **Search.** A hit is a row of the call, in scope of the configuration it began
  with and of the allowed roots. The total is exact and pages are full; where
  branches and merge share one order, the pages laid end to end are the answer.

What the violated ones show, each a disagreement of the code with a sentence of
its own (quoted in `PROJECT.json`):

- `file_index_case`: the rescan of `/r/docs` deletes the rows of `/r/Docs`.
- `file_index_foreign_key`: one row swept during the metadata pass costs a
  whole batch its results; the next crawl repairs it.
- `file_index_settings`: an empty list of roots does not survive a restart.
- `media_sessions_evicted`: creating a session can evict that of a player whose
  request waits for a slot.
- `path_walk_dots`: with `/r/m -> d/e` and `/r/k -> m/../b`, `/r/k` resolves to
  `/r/d/b`, but `Open` looks for `/r/b`: it finds nothing, or another file.
- `search_twice`: a file is shown on two pages and another on none.

### Bounds

Every bound is a constant. Two files in two roots are enough to have one file
inside and one outside a narrowed configuration, and one text and one media
file; a third would repeat one of the roles. Batches of one and of two give
both a flush in the middle of a pass and one at its end. Two crawls are needed
for rows of an earlier generation, and two versions for rows that are out of
date. Two callers are needed for the race of `SetConfig`; the invariants are
proved for any number. One slot forces waiting, two allow two producers on one
session; one allowed session with two ids makes every creation after the first
one evict or be refused. Two layers are the least where listing a table lists
another one and where a temp file is made while its parent is open; chunks of one
or two, layers of two and a budget of three units let one operation's reservation
fail because of the other's, and let a second layer be reserved in the time
between the release and the removal of a first; `MaxLitter` is one file of the
largest size, or two. The second version's table fills the cache alone, so both
limits evict. A look at the archive may fail for the nested layer only
(`Keyless`). Runs of the index and of the media service switch deadlock checking
off: an idle daemon whose bounds are spent has no step.

`file_index` bounds what a behaviour may contain by the constraint `Explored`: it
is one of the two kinds of the table above. The first is about configurations and
needs no change on disk; the second about the disk, the three tables and what
goes wrong. One `Rescan` at a time is between its tests and its claim. In
`progress` the resolver's files and cache are as small as they can be, since
what may wait there is the slot; nothing fails in the index and the resolver's
files are all removed, since a failure shortens what is to end.

`index_service` splits its actors over three loads, which do not disturb one
another but where they meet: streams and the shutdown (two streams, so that one
is refused while the other leaves), a crawl and a stream with a caller, and two
callers with two crawls (so that one `Rescan` meets a crawl, a `Close` and
another `Rescan`). A channel of two is the least in which a push comes before a
seed and another after; the stand-in's channel and the status in its goroutine's
hand count as one. In `requests` a path has two elements below a root, one of
which may be a link to the other's place, and two attempts stand for four;
`MaxHops` is 2, so that a link to itself runs into it; the library follows one
more (`LibHops`). Three files and seven
shapes of rows give every mixture of hits in one, both or no branch, of equal
names and sizes, and of roots that differ in case; pages of one and two put the
seam of pages at every place; the window ends at five. Names are four, `B`, `a`, `É`
and `á`, which bytes, `NOCASE` and `ToLower` put in three orders.

### Fairness

`FileIndex!FairSpec` has weak fairness of the crawl's goroutine as a whole, of
each request's handler, of a `Rescan` past its tests (`RescanStep`) and of a
`Close` that was begun (`CloseStep`): Go runs them whenever they are not blocked.
Nothing is assumed of the administrator (`Rescan`, `Pause`, `Close`, `Reboot`) or of
the disk. `CrawlEnds` has the premise that the crawler is not left paused,
because the code lets it wait for ever then.

`MediaSessions!FairSpec` has weak fairness of each request. Children end since
each has a deadline that kills it (`probeTimeout`, `keyframeLookupTimeout`,
`SegmentTimeout`). One assumption is not the server's to keep: a client reads
its stream or leaves. The server has no write timeout (`main.go:367`), so a
client that does neither keeps its slot; see the hazards.

`ArchiveResolver!Fairness` has weak fairness of each operation's steps and strong
fairness of `acquire`: senders on a Go channel queue in order, and a token that
is taken out admits the longest waiting one. Failures, closing a stream and
replacing the archive get none: operations end without a deadline's help.

`IndexService!FairSpec` has weak fairness of what goroutines do when they are
not blocked: announcing a status, ending a crawl and leaving the wait group, the
steps of a cancelled crawl, the timer, the main goroutine, the scheduler's stop,
callers in the middle of a call, streams and their feeds. A crawl that is not
cancelled need not get on with its files, clients need not come, read or leave,
nobody need call, resume or stop the daemon, and the database need not open.
`ViewCatchesUp` therefore holds while the crawl stands still, which is when the
trailing timer matters.

`PathWalk!FairSpec` has weak fairness of the request's own system calls, and none
of the other programs; `RequestEnds` holds because links and attempts are counted.
`MCRequests` uses the same, and `MCProgress` that of `FileIndex`, `MediaSessions`
and `ArchiveResolver`, of which one works in a behaviour.

## Proofs

Every theorem holds for every value of the constants, from the assumptions named
in the component's module, which each of its runs evaluates.

| module | theorem | states | from |
|---|---|---|---|
| `FileIndexProofs` | `TypeCorrect` | `[]TypeOK` | `PathAssumption`, `ConfigAssumption`, `BoundAssumption` |
| | `AlwaysConfinedOrSwept` | `[]ConfinedOrSwept` | |
| | `QuietIndexIsConfined` | `[]ConfinedWhenQuiet` | |
| | `AlwaysFreshByOrder` | `[]FreshByOrder` | |
| | `MarksStayFresh` | `[]MarksAreFresh` | |
| `FileIndexExactProofs` | `ExactAfterFullCrawl` | `[]FullCrawlIsExact` | the same, and `NoFolding`: no two names differ only in case |
| | `SweepsOnlyGone` | `SweptFilesAreGone` | the same |
| `MediaSessionsProofs` | `CountersAreRight` | `[]CountersMatchRequests` | `BoundAssumption` (finitely many requests) |
| | `SlotsImplementPool` | `SlotsAreAPool` | |
| | `StoreLimit` | `[]SessionsWithinLimit` | |
| | `TypeCorrect` | `[]TypeOK` | |
| | `SweepSpares` | `SweepSparesRequests` | |
| `ArchiveResolverProofs` | `SlotsAreHeld` | `[]SlotsMatchOperations` | `BoundAssumption` (finitely many operations) |
| | `AnswersAreFresh` | `[]NoStaleAnswers` | |
| | `LedgerIsExact` | `[]LedgerMatchesTemps` | |
| | `CacheStaysExact` | `[]CacheIsExact` | |
| | `TypeCorrect` | `[]TypeOK` | |
| | `OperationsImplementPool` | `OperationsShareSlots` | |
| `IndexServiceProofs` | `TypeCorrect` | `[]TypeOK` | `ServiceAssumption` (finitely many clients) |
| | `StreamLimit` | `[]StreamsWithinLimit` | |
| | `StreamsImplementPool` | `StreamsAreAPool` | |
| | `CronFollows` | `[]CronFollowsConfig` | |
| | `CloseNotBeforeCrawl` | `[]CloseWaitsForCrawl` | |
| | `SeedsOnlyPanic` | `[]OnlySeedsPanic` | |
| | `PushOrder` | `[]PushesInOrder` | |
| | `ViewForward` | `ViewGoesForward` | |
| `PathWalkProofs` | `TypeCorrect` | `[]TypeOK` | `TreeAssumption`, `RootsAssumption`, `BoundsAssumption` |
| | `Confinement` | `[]NeverEscapes` | |
| | `NoDescriptorLeaks` | `[]DescriptorsBalance` | |
| | `QuietOpensPlain` | what is opened and listed while nothing changes | |
| | `QuietWalkIsExact` | `[]QuietWalkResolves` | the same, and `TextAssumption` |
| `SearchProofs` | `TypeCorrect` | `[]SearchTypeOK` | `SearchAssumption` (a finite index) |
| | `HitsConfined` | `[]HitsAreConfined` | |
| | `ExactPages` | `[]PagesAreExact` | |
| `SlotPoolProofs` | `PoolLimit` | `[]WithinCapacity` | finitely many clients, `Capacity` a natural number |

*Confinement of the index.* `ConfinedWhenQuiet` is not inductive: it says nothing of the
moments at which something runs. `ConfinedOrSwept` adds them: at every moment
the index is confined, or a sweep that will use the live configuration is still
ahead (`SweepAhead`: a crawl that has not yet read the configuration for its
last sweep, or a sweep that has read the one still live), or the last such
sweep failed. Changing the configuration puts a reader of it ahead; a read
takes the live one; a sweep with the live one confines; every other write
happens in a crawl, which has its last sweep ahead of it. When all is quiet no
sweep is ahead, so the index is confined or the sweep failed.

*Freshness.* `MarksAreFresh` is not inductive: it does not bound what is
waiting to be written. `FreshByOrder` adds that rows and batches are not newer
than the disk, that results waiting in a pass are not older than their rows,
and that no results wait outside the passes. The crucial step is `Extract`: it
reads a version of the disk, which is at least the row's, and the row cannot
change before the result is written, since rows change their version only in
the walk.

*Exactness.* `FullCrawlIsExact` speaks of the end of a crawl; `ExactInv` says what
the crawl has established at each point before. For a file that nothing has
disturbed since the crawl began (`Known`): while it walks, the file is listed
(its row has the new stamp, and the version on the disk) or ahead of the walk if
it exists under the roots, and neither if not; after `SweepFiles` its row is
listed or gone; after each pass it is marked, or its pass has it in hand. At the
last sweep the configuration is still that of the snapshot (`Undisturbed`), so
the sweep takes nothing that was listed. Text needs an argument about all files
(`TextKept`): a sweep deletes a document before the row and its mark, in three
transactions, so a crash between them would leave a mark without text. Without
failures it does so only to files that have changed since their row was written,
whose mark the next upsert resets. `Reached`, the part of it about the walk
alone, holds of partial crawls as well and gives `SweptFilesAreGone`.

Both theorems need `NoFolding`. Where names differ only in case (the finding
of `file_index_case`), the sweep of a rescan takes the documents of the sibling
directory, whose files have not changed. If the daemon dies before the rows go
too, the next full crawl finds them unchanged and marked, and their text stays
missing although nothing has failed: TLC finds this in the instance of
`file_index_case` with one text file, three crawls and one restart.

All three arguments have one step per action and one lemma for what a sweep does to
the three tables. TLC checked the first two invariants in the runs above, and
`ExactInv` on the instance of `file_index`.

*Media service.* The ledger is a sum over requests, so the counters are not
inductive without saying at which places a request holds what: `LedgerInv`
says it, and one lemma (`Recount`) how the count of requests in a set of places
changes when one request moves. `LimitInv` adds who owns the store's lock, so
that the number of sessions cannot grow while `put` scans. `FreshInv` says that
a request on its way to its session has touched it within the TTL; one that has
arrived keeps it busy, by the ledger, and `Sweep` looks at both. The types need a
fourth: `OrderInv` says that a session has its place in the order of last uses
before it is stored and loses it when it is forgotten, and that no two requests
are about to store the same one; so a victim that goes and a session that comes
in one step leave the order total over what is in the store.

*Archive resolver.* `ResolverInv` is about what an operation has still to do:
its list of instructions has a slot before anything that touches the archive
(`Gated`), every table it will file is read by the listing that files it (`Fed`),
and its keys are neither of the future nor older than the operation (`Dated`).
Each of the three is kept by taking the head of the list and by putting a
listing or an opening in front, at any depth of nesting, which is where the
lemmas about sequences go. The cache holds no table older than its key, so a hit
is no older than the operation. The tokens are those of the operations with a
gate, one each.

*Temp files.* The ledger is a sum of sums, over operations and over their open
layers. What a sum over a finite set does when one member changes, or one comes or
goes, is an induction on the set; it is done by the smallest set for which the
lemma fails (`WFMin` with strict inclusion), since the library's induction
cannot be instantiated. `LedgerInv` says that the ledger is the files and what is
over, and that the files fit; `Books(p)` says of each step of `p` that it counts
what `p` takes or gives back, and that bytes are kept only while they fit. For
that a step must find the layers it closes: `Layered` walks through what an
operation has still to do and asks that each `spill`, `write` and `parse` has its
layer and, where it closes one, the parent below; `Closed` says that a listing
lets go of all it opens, so that an operation answered without a stream has
nothing open. Both are kept by putting a listing or an opening in front, at any
depth. `DiskInv`, for the types, bounds what is let go and what stays behind.

*The cache.* `CacheInv` adds to `CacheIsExact` that the list has exactly the keys
of the tables. A touch permutes the list; a table that is filed replaces its own
bytes or adds them; eviction takes the least number of the oldest that suffices,
which exists because all but the newest always do, and what it takes off the
count are the sizes of distinct tables. The type bound of `used` is the files plus
one chunk for each operation that is over.

*Index service.* Four small invariants, each about the few variables that one
concern touches, with a lemma for what all other goroutines leave alone
(`HandlersFrame`, `ClientsFrame`, `CronFrame`): `StreamInv` (who is counted, and
where a handler can be while its feed is at each place), `CronInv`, `CrawlInv`
(between claim and spawn exactly one caller owns `crawlBusy`; the wait group
counts the crawl that runs and those on their way out, fewer than were begun while
another is claimed; after Close's wait only a late one runs), `ChannelInv` (a channel
is registered or closed, never both).

*Order of statuses.* `PushesInOrder` alone is not inductive: the seed is sent by
one goroutine while others push. `StatusInv` follows a status from the channel
through the stand-in's to the one put off and the client's view, and says that
each is no newer than all behind it (`Line`), that none is ahead of the status
itself (`Known`), and that a stream begins with all of them empty (`Begins`), so
that until its seed is sent nothing has gone past it. A push keeps `Line` since
it is the newest of all, `Forward` and `Receive` since they take the oldest; a
seed behind a newer push is marked in `overtaken`, and `Line` is claimed only of
channels without the mark. What a client does is nothing to the others
(`OthersKept`). `FallInv` is about the others as well: all that is still to come
to a client, in the order in which it will come, falls at one place at most
(`OneFallLeft`), that of the late seed, and not at all once its view has sunk.
TLC checked both on the instance of `index_service` first.

*Types of the index service.* That a status stays within what crawls announce is
not inductive: a crawl may have announced less than its share, and `SetConfig`'s
callers announce too. `AnnounceInv` adds to the status what the running crawl and
the callers under way still owe (`CrawlPays`, `CallersOwe`), and bounds the sum
by what the crawls so far were good for. `Within` carries the bound to
everything on its way: what is queued, in the stand-in's hand, put off or seen
was the status of some moment.

*Search.* A page takes its hits by rank, the number of hits before one in the
order asked for. Each rank is taken exactly once, which looks like an induction;
with a total order on a finite set of hits it is a pigeonhole, since ranks are
distinct, below the number of hits, and as many as the hits. `CallInv` follows a
call through its queries; `Confined` says that all it has in hand, not only its
answer, was seen beneath the roots. `ExactInv` says of a call that nothing has
disturbed (`Undisturbed`) what its counts, branches and tops are at each step.
The merged page needs two arguments more: among the first `offset + limit + 1`
of the merge, a hit of one branch has fewer than that before it in its own
branch, so the tops fetched contain it; and branch and merge must agree about
ties, which is the premise `OneOrder`; that the total and the lengths are right
needs no order at all, and is proved apart (`BranchFills`, `MergeFills`,
`LengthsAdd`). TLC checked the three invariants on the instance of `requests`.

*Path walk.* `WalkInv` adds to `NeverEscapes` that what is in hand is beneath a
root; a name of it then stands, at the moment of the open, for something beneath
the root or a link, and a link is not opened. Nothing is assumed of
`EvalSymlinks`, `Confine` or of the texts of links: the walk is confined without
them, which is what the comments of `fsops.go` claim for it. `QuietInv` is about a
tree at rest: a leaf that is opened has been looked at before, and a listing
under way describes the entries it is done with, no more and no less.

*Path resolution.* `QuietWalkIsExact` does look at `EvalSymlinks`, `Confine` and the
texts of links. Its invariant `Exact` follows the walk beside path resolution of
what was asked for (`Aimed`): at the start of a turn, resolving the path that
the walk now looks for gives the same object, with as many fewer links as it has
followed (`TurnAt`); so does resolving what is left of it from the directory in
hand (`InDirectory`); at the end the two are at the same object (`Arrived`), and
a refusal is one that path resolution would have made (`Missed`, `Settled`).
That a step keeps it rests on lemmas about the operators:

- `Solvable`: a recursion that decreases a rank of pairs of numbers has a
  solution, so `DirAt`, `Clean` and `Resolve` are the functions their definitions
  say. It is proved from the least relation closed under the recursion;
  `LeastNat` and `Least`, from the library's `WFMin`, stand for the inductions.
- `Compose`: resolving a path is resolving its first part, and the rest from
  where that leads. `Fewer`: the links met before make no difference unless the
  library gives up.
- `CleanTidy`: on tidy texts, ".." as text and as the directory above agree.
- `ExistingAgrees`, `LocatedAgrees`, `NowhereLocated`: a path that resolves
  beneath a root is located in it, by either spelling of the root or through a
  link above it, and the rest resolves from there alike.

`BoundsAssumption` has `MaxHops <= LibHops`, 40 and 255 in the code: without it
the library could refuse what the walk would find. TLC checked `Exact` on the
instance of `requests` first.

*Pools.* The three refinements are proved with the invariants above as the
premise of the step; `PoolLimit` is what each implementation inherits.

### Only model-checked

- **Liveness.** `CrawlEnds`, `CloseReturns`, `RequestsAreAnswered`,
  `OperationsEnd`, `ViewCatchesUp`, `ShutdownEnds` and `RequestEnds` rest on
  fairness, whose rules need `ENABLED`, which the provers do not treat.
- **`PagesAreAsGood`**, the scores on a page whatever the orders are.
- **The violated properties**, of which a counterexample is the proof.

Every other invariant, action property and refinement of the passing runs is a
theorem.

## Not modelled, and why

- **Views, extractors, crawl policy.** Sequential and read-only; their
  difficulty lies in data (encodings, file formats, lists of names) that TLC
  cannot enumerate to any purpose.
- **The HTTP API beyond the event stream and the search handler.** Parameters
  and the envelope are pure conversions; the limiter for expensive requests is
  the same bounded wait on a channel of tokens as `acquire` in `MediaSessions`.
- **Transcoding decisions** (`plan.go`, `playlist.go`, `planSegment`). Pure
  functions of probe results; on the plan.
- **The tree of an archive's entries** (`newTable`). Pure; on the plan.
- **Web client.** Its paging and its fallback from the stream to polling have
  state worth modelling; on the plan. Rendering is not.
- **Plugin glue.** Shell and PHP around one process: a pidfile and a socket.

## Plan

Done: `FileIndex`, `MediaSessions`, `ArchiveResolver`, `IndexService`, `PathWalk`,
`Search`, and `SlotPool` with its three refinements, with the proofs listed above.

Left, in this order:

1. `SegmentPlan` and `EntryTable`: the pure algorithms against reference
   definitions over bounded inputs (cuts of adjacent segments; the tree built
   from a list of entries).
2. `DirListing`: paging in the web client against navigation and late answers.
