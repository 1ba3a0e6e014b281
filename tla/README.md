# A verification of go-sitemirror

go-sitemirror mirrors web sites: a crawler downloads pages and what they link
to, a cache keeps each response in a file, a web server answers visitors from
these files, and an engine ties the three together. This directory holds TLA+
models of the parts in which goroutines, files and failures meet, TLC runs that
check them on small instances, and proofs that hold for every instance.

## 1. The system

| part | source | state it keeps | operations |
| --- | --- | --- | --- |
| Crawler | `crawler/crawler.go` | start-once flag, worker count, queue (an unbounded channel that never blocks) and whether it is open, output channel (not buffered), callbacks, seven atomic counters | `Start`, `Stop`, `Enqueue`, `Download`, `Downloaded`, `DownloadedNotBlocking`, `SetWorkerCount`, `SetOn...`, the predicates `HasStarted`, `IsRunning`, `HasStopped`, `IsBusy`; inside: the workers' loop, `doEnqueue`, `doDownload`, `doAutoQueue` |
| Downloader | `crawler/download.go`, `downloaded.go`, `utils.go` | none beyond a call: buffer, links found | HTTP request, rewriting of HTML, CSS and scripts, link extraction, `ReduceURL` |
| Cache | `cacher/cacher.go`, `http.go`, `fileop.go` | one file per URL; path and default TTL | `CheckCacheExists`, `Write`, `WritePlaceholder`, `Bump`, `Open`; text format; path generation |
| Web server | `web/server.go`, `http.go`, `internal/serve_info.go` | listeners per host; per request what was written | `ListenAndServe`, `Stop`, closers, `Serve`, `ServeHTTPCache`, `ServeDownloaded` |
| Engine | `engine/engine.go`, `utils.go` | stopped flag, `downloadedSomething` channel, white list, rewrites, URLs to refresh | `Mirror`, `Stop`, callbacks of crawler and server, `autoEnqueue` |
| Configuration, main | `engine/config.go`, `main.go` | flags | start, interrupt |

How they interact:

* The engine hands the crawler three callbacks. `onURLShouldQueue` asks the
  white list, `onURLShouldDownload` asks the cache for an existing file, and
  `onDownloaded` writes the cache, unless the answer is bad (status 0 or at
  least 500) and a cache exists.
* The server opens a cache file for each request. A missing or unreadable file
  is answered by `downloadAndServe`: a placeholder is written, the crawler
  downloads directly in the goroutine of the request, and the result is served.
  An expired file is served, then bumped, and a forced item is enqueued.
* `Engine.Stop` waits until the crawler's `IsBusy` is false, then stops crawler
  and server. After an interrupt the process exits at once.

What is hard about it, and what correctness means:

* **Crawler.** Counters are updated one by one, beside the queue they count;
  workers enqueue into their own queue; `Stop` races with everything; results
  go to a callback or to a channel that nobody may read. Correct means: no item
  is lost or done twice, the counters agree with the work there is, a stop
  leaves nothing behind and does not panic, a crawl stays in scope and ends.
* **Cache and requests.** No lock protects a file. Writing truncates it first,
  takes several system calls and may be cut short by the end of the process.
  Readers, two kinds of writers and `Bump`, which writes in place, meet in any
  order. Correct means: a visitor gets one response in full, a good response is
  not replaced by a bad one, and damage heals.
* **Engine.** `Stop` polls a predicate that others keep changing, and closes a
  channel that callbacks send to. Correct means: it ends, it does not cut off
  work, and there is no send on a closed channel.
* **Server, configuration.** A request goes through phases, each of which may
  have sent something before the next one fails. URLs and ports are typed as one
  sequence and kept as two lists. Correct means: the visitor gets status, header and
  body of one answer, and every listener is the one that was typed.
* **Downloader, formats.** Token loops must end at the end of input; what is
  written must be read back, from a file of its own; a relative URL must resolve
  to its target; a page is fresh as long as its source says, and not longer.

`PROJECT.json` lists the hazards one by one, each at its line.

## 2. Modules

| module | models | status |
| --- | --- | --- |
| `Crawler` | crawler.go: workers, callers, queue, output channel, counters, stop | done |
| `WorkPool` | what the crawler promises: a pool of workers | done |
| `CrawlerPool` | the crawler as a `WorkPool`: the refinement mapping; EXTENDS `Crawler` | done |
| `MCCrawler` | instances of both for TLC | done |
| `CrawlerProofs` | `TypeCorrect` | proved |
| `CrawlerCountsProofs` | `CountersCorrect`, `NothingIsLost`, `BusyIsCovered`, `ResultsAreDelivered` | proved |
| `CrawlerPoolProofs` | `QueueIsDrained`, `CrawlStaysInScope`, `CrawlerIsPool` | proved |
| `CrawlerStopProofs` | `OneStopNoPanic` | proved |
| `Mirror` | one URL: cache file, downloads, requests, engine callbacks, restarts | done |
| `MCMirror` | instances of it for TLC | done |
| `MirrorProofs` | `MirrorTypeCorrect`, `EmptyIsWritten`, `ServesWhole` | proved |
| `Engine` | the engine around the crawler: `Mirror`, refresh, visitors, `onDownloaded`, `Stop`; EXTENDS `Crawler` | done |
| `MCEngine` | an instance of it for TLC | done |
| `EngineProofs` | `EngineIsCrawler`, `EngineTypeCorrect`, `StopWaitsForCrawl`, `EngineDoesNotPanic`, `StopStopsCrawler` | proved |
| `CacheFile` | names and lines of cache files: what is written, bumped and read | done |
| `Serving` | the server and the engine's callbacks over many files: listeners, phases of a visit, refreshes; EXTENDS `CacheFile` | done |
| `Program` | command line, set-up, interrupt and exit; EXTENDS `Serving` | done |
| `MCProgram` | instances of it for TLC | done |
| `ProgramProofs` | `ProgramTypeCorrect`, `NoStampedes`, `FilesAreWrittenFresh`, `GoodFilesKept`, `AnswersAreWhole`, `ListensWhereTyped` | proved |
| `Links` | URLs and references: `ReduceURL`, `Reduce`, resolution, where the mirror shows a URL | done |
| `Page` | `Download` from the answer on, token by token; EXTENDS `Links` | done |
| `MCPage` | instances of it for TLC | done |
| `PageProofs` | `PageTypeCorrect`, `KeepsOrder`, `ReducedResolves`, `ReferencesLead`, `LinksAreFollowed`, `LinksAreKept` | proved |

`Mirror` and `Serving` look at the same code from two sides. `Mirror` has one
URL and every interleaving of what its readers and writers do to the file, by
system calls. `Serving` has many URLs, every line of their files, every kind of
answer, expiry times and failing disks. It answers visitors and lets workers
download one after the other; only what a goroutine does about an expired page
goes on beside them, in steps of its own.

### Crawler

A thread is a goroutine: the `Workers` that `Start` may spawn and the `Callers`
of the API. `pc` says where a thread is. The labels follow the code:

| label | next thing the goroutine does | lines |
| --- | --- | --- |
| `born`, `started` | count itself in `workersStarted`, `workersRunning` | 279, 280 |
| `receiving` | receive from the queue, or leave at its end | 282-294 |
| `count`, `push` | `doEnqueue`: counters, then the critical section | 349-357 |
| `snapshot`, `enter`, `leaveQueue`, `decide`, `fetch`, `fetched`/`skipping` | `doDownload`: callbacks read, counters up and down, `onURLShouldDownload`, download | 370-407 |
| `deliver`, `send` | callback or output channel | 409-427 |
| `autoqueue` | `doAutoQueue` with the links found | 433-486 |
| `close` | the critical section of `Stop` | 313-317 |
| `drain` | the end of `SetOnDownloaded` | 203-214 |
| `receive`, `poll` | `Downloaded`, `DownloadedNotBlocking` | 331-347 |

One step is one atomic operation (an atomic addition, a critical section, a
channel operation) and the thread-local work before it. The `go` statement of
`SetOnDownloaded` is the variable `drainer`. A panic ends the process: after it
`Ready` is false for every thread. What a page links to, which URLs the white
list accepts and how deep links are followed are constants; how a download ends
and what `onURLShouldDownload` answers are free choices of each step.
`calls`, `dropped`, `skipped` and `delivered` are history variables.

`queueOpen` is false before `Start` too, but `Enqueue` calls `Start` first.
Stop closes `output` and the queue in one critical section, so the model reads
"the queue is closed" off `output`. `IsBusy` loads two counters one after the
other; no thread of this model acts on it, so it is an operator. `Engine.Stop`
acts on it, and there the two loads are two steps.

### WorkPool and CrawlerPool

`WorkPool` is the crawler as its users think of it: it opens once, accepts items
while it is open, hands each to one worker in the order of acceptance, and once
closed works off what it accepted before it lets its workers go. It has no
counters, callbacks, mutex, links or output channel. `CrawlerPool` maps the
crawler to it:

| `WorkPool` | in `Crawler` |
| --- | --- |
| `state` | "new" without an output channel, then "open" and "closed" as the channel is; "broken" after a panic |
| `backlog` | `queue` |
| `stage` | `StageAt(pc)`: a worker works from the receive (282) to the end of the download or the refusal, then follows links |
| `hold` | the item of a worker that works |
| `Items` | seeds, and links that the depth limit and `onURLShouldQueue` admit |

So `ImplementsPool` also says that nothing outside this scope is accepted. Callers
are not part of the pool: their direct downloads are stutters. `ImplementsFairPool`
adds that every worker with something to do in the pool does it.

### Mirror

The threads are the crawler's `Workers` and the `Requests` of the server. The
file is the only thing they share. A write is a truncation and then one step per
flush of a 4096 byte buffer, each at the writer's own offset: `PutAt` keeps
what other writers left, and a write beyond the end leaves a `Hole`. A response
has one part or two. The header of the file is tracked apart: its expiry may be
`fresh`, `expired`, `lost` (no line the server recognises) or the header is
`broken` (parsing it fails). `Layout` is the offset of the expires line, which
depends on the lines before it, such as the digits of `max-age`: a `Bump` that read
one layout and writes into another (`Misses`) damages the header, and `damaged`
remembers that. What comes of it depends on the bytes: the 39 it writes begin
inside another line and end in a newline of their own, so that the header may be
`broken`, may merely have lost lines (`lost`), or may end right there, before
`Content-Length`; then `CopyBody` copies nothing and finds no error. A visitor of such a file
is sent `Damaged(p)`: a header that is not the page's, with the body or
without. A bump only ever moves by a few digits, so it does not reach the body. For a
placeholder the outcome follows from the lengths of the lines: the expires line of
39 bytes replaces the beginning of a `Last-Modified` line of 45 bytes and leaves a
rest that is no header; the line of a response lies behind the whole of a
placeholder and changes nothing.

The crawler's queue is reduced to the items of this URL, which differ only in
`ForceDownload`. The other pages' links and the automatic refresh are
`EnqueueAgain`. A bad answer of the source, a visitor who disconnects, a new
item and the end of the process are limited by `Budget`.

### Engine

`Engine` composes with `Crawler`: it EXTENDS it, every goroutine of the engine is
one of the crawler's `Callers`, and a step of the engine that calls the crawler
is the conjunction of both (`EnqueueRoot`, `VisitMissing`, `StopCrawler`...). What a
goroutine does inside the crawler is `InCrawler`. The one step of the crawler
that the engine splits is `Deliver`: `onDownloaded` keeps the cache (`KeepCache`),
or writes it (`WriteCache`, then `Notify`, the section under the mutex).

| goroutine | actions | lines of engine.go |
| --- | --- | --- |
| `Main` | `Mirror`, `EnqueueRoot`, `Listen`, once per URL; then it may stop | 281-312 |
| `Ticker` | `Tick`, `EnqueuePending` | 349-369 |
| `Visitors` | `VisitExpired`, `VisitMissing` | 116-145 |
| workers, visitors | `KeepCache`, `WriteCache`, `Notify` | 86-114 |
| `Stoppers` | `StopEngine`, `PollQueuing`, `PollDownloading`, `Pause`, `CleanUp`, `StopCrawler`, `StopServer`, `CloseSomething` | 314-329, 415-425 |

`at` says where `Main` and the stoppers are; `something` is the channel
`downloadedSomething`, whose state "panic" stands for a second close or a send
after the close. A send without a receiver is dropped, a send with one ends the
pause of one stopper. The auto-enqueue mutex shows as the guard `pending = {}` of
`Mirror`. A connection outlives its listener (`connected`), as `http.Serve` leaves
it. `mark` is a history variable. `toMirror` begins as any part of `Mirrors`, also none: with
`-port` alone the engine listens for every host (`EveryHost`) and mirrors nothing, and
`Main` goes on at once.

### CacheFile, Serving and Program

In `CacheFile` a file is a sequence of lines, each with a key and a number, and lines
that belong to a response say of which URL and answer. `CachePath` is the name
of a URL's file (`SafeName` drops characters), `WrittenFiles` what `WriteHTTP` writes, `Lifetime` the
first of `Expires`, `max-age` and the default that lies in the future, `Bumped` what `Bump`
makes of a file (a placeholder, where it finds no expires line), and `Scan` what the server notes of a file up to the line where it
stops, with the error it stops with. Times wrap at `Half`, as an int64 of
nanoseconds does.

| `Serving` | code |
| --- | --- |
| `ListenAndServe` | server.go 68-105 |
| `Reply` | what is answered without the cache: wrong method, robots.txt, invalid path, bare host |
| `Visit`, `CopyBody`, `ServeCache` | `serveURL` and `ServeHTTPCache` up to the body, the body, and the look at the expiry that was read |
| `Bump`, `EnqueueExpired` | the issue `CacheExpired`, in the goroutine of a visitor who found the page expired |
| `Place`, `Download` | `downloadAndServe` of the engine: placeholder, then download, `onDownloaded` and `ServeDownloaded` |
| `Work` | a worker with the next item of the queue |
| `Tick` | time passes |

`visit` is the request under way and `info` its `ServeInfo`; `client` is what
net/http has sent: status and header once, then no more of the body than the header
announced. `refresh` holds the goroutines that are in `CacheExpired`, each before its
`Bump` or before its `Enqueue`; what their visitors get is settled by then, so `visit`
is free for the next one, who may read the old expiry, the bumped one, or that of a new
download. Their number is the constant `Refreshers`. A disk may write a file in part, a placeholder not at all, and a visitor
may leave in the middle of a page: each costs one "fault" of the `Budget`. `good`,
`excused` and `fetched` are history variables: paths that got a good answer, those a
fault, the refusal of a cross-host page or a `Bump` that found no expires line has
touched, and those whose file was last
written by a download, not by `Bump` or as a placeholder.

`Program` reads the command line flag by flag, makes the calls of `FromConfig`
(the listener for all hosts first, then one call of `engine.Mirror` per URL with the
port of the same number), and panics where the code does. The interrupt may come
at any time; before `signal.Notify` it kills the process, later `Exit` waits for the
crawl as `Engine` has it in detail. A process that is over keeps its files only.

### Links and Page

`Links` holds the arithmetic of paths: a path is the sequence of its names, a
relative reference a number of `..` and names. `ReducePath` is `ReduceURL`,
with `CommonParts` for the loop of `LongestCommonPrefix` and `Ups` for the loop over
`basePathParts`. `Resolve` is what net/url and browsers do and is the reference
`Reduce` is measured against; `Location` and `Redirected` say where a listener for one
host and the one for every host show a URL.

`Page` reads one answer: `phase` is the loop that reads (`html`, `css`, the inner
loops `script` and `style`), a token has one attribute, and what the tokenizers
deliver is any sequence of `Tokens`. `WriteProcessed` is `ProcessURL` followed by the
writing of the tag. `body` keeps each token with its new reference and, as
history, the URL the original reference means; `docBase` is HTML's base URL.

## 3. Runs

| run | expected | checks |
| --- | --- | --- |
| `CrawlerStop` | pass | `TypeOK`, `CountersBalance`, `NothingLost`, `BusyCoversWork`, `NoPanic`, `CrawlInScope`, `DrainedBeforeExit` |
| `CrawlerOutput` | pass | `CountersBalance`, `NothingLost`, `DrainedBeforeExit`, `ResultsDelivered`, `ImplementsPool` |
| `CrawlerLive` | pass | `CrawlEnds`, `StopTakesEffect`, `ImplementsFairPool` |
| `CrawlerStopTwice` | violation | `NoPanic` |
| `MirrorServe` | pass | `ServedWhole`, `EmptyMeansWriting` |
| `MirrorLive` | pass | `TypeOK`, `Recovers` |
| `MirrorKeep` | violation | `BadNeverReplacesGood` |
| `EngineStop` | pass | `EngineTypeOK`, `EngineNoPanic`, `WaitsForCrawl`, `StopClosesQueue`, `EngineStops` |
| `PageLinks` | pass | `TypeOK`, `LinksKept`, `LinksFollowed`, `KeptInOrder`, `DownloadReturns` |
| `PageEnds` | violation | `DownloadReturns` |
| `Program` | pass | `TypeOK`, `AnswersWhole`, `GoodKept`, `ListensAsTyped`, `WrittenFresh`, `NoStampede` |
| `ProgramOffline` | violation | `KeptOffline` |

**CrawlerStop** has two workers and two callers, a site of four URLs with an
asset, a cycle of links and a link off the site, callbacks that are set, and
one call each of `Start`, `SetWorkerCount` and `Stop` and two of `Enqueue`, one
forced. Two workers and two callers are what the races need (worker against
worker for an item, enqueuer against stopper); depth limit 2 makes the cycle
unroll and stop. **CrawlerOutput** has no callback at first: receivers and a
poller meet senders, `SetOnDownloaded` comes late, a direct download and two
calls of `Stop` are in play, so panics happen, and the accounts hold up to
them; `ImplementsPool` shows all of this to be a pool. **CrawlerLive** checks the
same kind of crawl under fairness, and that it is a fair pool.
These runs say CHECK_DEADLOCK FALSE because a crawler whose callers have made
their calls, or whose process panicked, really stops.

*CrawlerStopTwice*, a violation: a second `Stop` before the workers have left
panics, although a test says it is a no-op. `NoPanic` holds in CrawlerStop, with
one `Stop` and a callback; `Engine.Stop` keeps to that (`EngineNoPanic`).

Two provisos of the crawler's properties name what the code does not give:

* `BusyCoversWork` holds without direct downloads. `doDownload` takes one off
  `queuingCount` also for them, which nothing had added, so that an item in the
  queue goes unnoticed by `IsBusy`.
* `ResultsDelivered` does not say when: a worker that read the callbacks before
  `SetOnDownloaded` sends its result after the drainer has looked, and waits.

**MirrorServe** interleaves a worker and two visitors over one file with one
failing answer, disconnect, restart and extra item, a page of one write, and
expires lines at different places (`OwnLayout`). The visitors get whole responses, but
for headers that a misplaced bump has damaged, and an empty file is always somebody's
work in progress. The exception is real, and the run reaches it: a visitor who read one
version of a page bumps the next one, and whoever comes after is served the damage. If
the number in `max-age` has one digit more than before, the newline of the bump
(cacher.go:202) ends the header early, `CopyBody` finds no length (serve_info.go:141), and
that visitor gets status 200 with an empty body and no error. **MirrorKeep**: the
engine's check keeps a bad answer from replacing a good one only while nobody else
has the file; with a visitor who downloads too, it fails. **MirrorLive** checks
that a good response comes back after every kind of damage, with responses of two
writes. MaxQueue (2 or 3) bounds the items waiting: an open request reserves a
place, so that the bound delays visitors and never drops an item. Two provisos
name what the code does not give:

* `ServedWhole` is for pages of one write. A longer page (`Parts` 2) that is read
  while it is written is served with a part of one response and a part of another,
  or without its end. And it lets `Damaged` headers pass, as said above.
* `Recovers` is for expires lines at one place. Where they move, a `Bump` that
  read one version of the file may write over another line of the next, and a page
  without a readable expires line is never refreshed.

**Program** has two sites and five URLs: two front pages, a page with two queries
that become one name, and a path that looks like such a query. The sources
give a page whose header `Expires` passes, a cross-host page that lives longer
than times can say, a redirect, an empty answer and none at all. The command
lines are a usual one, one with a site that has no listener of its own, and five
that are wrong in one way each. There are two visits, because a visit must be
able to see what another one left or has yet to do, two `Refreshers`, which is all that
two visits can need (they are interchangeable: SYMMETRY), and one fault. `DefaultTTL`
is 0, so that pages whose source names no time have no expires line. `MaxTime` 3 is the least time in which a page is written, expires, is
bumped, and is refreshed; `MaxQueue` 2 holds both roots; a visit that would enqueue
more waits. Exceptions, by name:

* `mixed`: headers or a body that were sent before the cache turned out to be
  broken stay sent, and those of the download join them;
* `Alike`: URLs that differ in unsafe characters of their queries share a file;
* `excused`: the disk failed, a visitor left in the middle, a page with references
  to other hosts was asked for where one host is served, or a `Bump` came so late that a
  download had meanwhile written the page without an expires line, which the `Bump`
  takes for broken data and replaces by a placeholder;
* `PortsFirst`: a URL without a port before one with a port gets the other's;
* the overflow of lifetimes at `Half`; a default of no time (`DefaultTTL` 0) writes no
  line, and the page is then fresh for good.

An answer without a status reaches the visitor as 200; `IsAnswer` says so.

`NoStampede` is about steps: a visitor goes on to have a page refreshed while a
refresh of its file waits, in the queue or in the hands of a goroutine that has bumped the
file. That happens when Bump's time is over, when a download has written a file that expired
in its turn (`fetched`), or when the visitor had read the header before it was changed, by
that `Bump` as a rule. So it does not say that there is one refresh per expiry: all visitors
who read the old expiry ask for one, as the code has it. It says that the others do not. In the
run both visitors may read the old expiry, and either may bump and enqueue first. A page whose
lifetime wraps has expired when it is written, so that a clock of 3 sees it bumped
and asked for again when Bump's time is over; that a download comes in between takes
more visits than the run has, and is covered by the proof.

**ProgramOffline**: with a listener for one host, one visit to a good page with
cross-host references while its source is down loses the page. The listener
refuses it, the engine takes that for a broken cache and writes a placeholder over
it, and the failed download is then written because only the placeholder is left.
The README promises the mirror for just that case.
Both runs say CHECK_DEADLOCK FALSE because the program ends.

**EngineStop** has one page without links (the crawler's own runs follow links),
one worker, two goroutines that may stop the engine, the ticker and a visitor,
two enqueues in all and one direct download. `Spare` keeps the places of the
roots and refreshes due, so that the bound on `Enqueue` delays and never drops.
Two stoppers are what the race for `SetToIf` needs; each of the other goroutines
matters by being there at all. The engine begins with a page to mirror, or with none,
as `-port` alone has it. Where it only listens, a `Stop` may poll before the item of a
visitor is counted, find nothing to wait for and a crawler that has not started, and
return, while the crawl goes on: there `StopClosesQueue` is about stoppers that saw
something enqueued (`SawWork`). `Stop` waits for everything enqueued when it
polled, and it ends as long as what is enqueued is finite. Direct
downloads distort `queuingCount`; `WaitsForCrawl` and `StopClosesQueue` exclude
them by name, `EngineNoPanic` and `EngineStops` do not.

**PageLinks** has four pages (no path, the root, a directory, a file in one), four
sites (the page's, the same host with another scheme, a host that is rewritten
and a far one), all kinds of references, and documents of three tokens: a base
element and two that it affects, or a script, its text and what follows.
`LinksKept` follows each rewritten reference from every place where the mirror
shows the page. It and `LinksFollowed` make these exceptions, by name:

* `PlainBase`: the code handles a base element only if it closes itself, and
  takes the last one where HTML takes the first;
* `BareHost`: a reference to `https://host` without a slash, from a page of that
  host, is reduced to one `..` too many, which shows below `/https/host`;
* `ShownIn`: a page that was downloaded as `https://host` without a slash is
  stored under a name of its own, and nobody is shown it;
* `HoldsLink`: other tags and attributes are not processed.

**PageEnds**: a page that ends inside an inline script is never returned.
Both runs say CHECK_DEADLOCK FALSE because a download ends.

### Fairness

`Crawler`: weak fairness of every worker, of a caller inside a call, and of
the drainer. The Go scheduler runs every goroutine that can run; downloads end
because the client has a timeout (`-http-timeout`, 10 s). No fairness for the
start of a call: nobody has to use the API, and a blocked receiver or sender is
not helped. `Mirror`: the same for workers and for requests under way. `Recovers`
besides needs visitors that keep coming (WF of `Open`) and time that passes (WF
of `Expire`): it is a promise to them. `Prompt` states that downloads under
way end before the next expiry, as 10 s of timeout against a bump of one
minute makes it; without it every refresh may meet the next bump in the
middle of its write, for ever.

`Engine`: weak fairness of every goroutine inside the crawler or a callback, of
`Main` while it mirrors, of the ticker's round once begun, and of a `Stop` under
way, whose pause has a timer. None for visits, for the tick, or for the call
of `Stop`. `Page`: an answer comes or the client's timeout strikes, raw text is
closed (if `Closed`), the end of the input is delivered, and a loop that looks
for it leaves.

`CrawlerPool`: `FairSpec` of `WorkPool` is weak fairness of each worker's steps in the
pool; it is not assumed but derived from the fairness of `Crawler`, in CrawlerLive.
The `Program` runs check safety only.

## 4. Proofs

All constants are arbitrary in the proofs, under the assumptions named in
`Crawler`: finite sets of workers and callers that are disjoint, at least one
worker, finitely many URLs, typed parameters. Any number of workers, callers,
calls, URLs and any depth is covered.

* `CrawlerProofs`: `TypeCorrect == Spec => []TypeOK`. The invariant is inductive
  as it stands because `LocalsOK` says that a thread at a label where it uses
  an item holds one. It is cut into five groups, and each step proves the
  groups it disturbs.
* `CrawlerCountsProofs`: `CountersCorrect`, `NothingIsLost` and `BusyIsCovered`, from
  the inductive invariant `Accounts`: the types, the two properties themselves
  and `Unstarted`, which says that before `Start` no worker exists; without it
  `Start` could make a worker anew that had been counted. The argument
  is one of accounts: `AtMoves` shows that a thread's move changes the number
  of threads at a set of labels by one at most, `CountsMove` applies it to the
  four sets of labels the properties use, and each action's lemma adds up
  the move, the counter and the queue. `Sums` restates the two properties over
  opaque integers so that the solver sees linear arithmetic only.
  `ResultsAreDelivered` has accounts of its own (`Results`): the results nobody got and
  the callers inside a direct download together are no more than the calls of
  `Download`. A worker never keeps its result because it is counted in
  `workersRunning` while it delivers (`WorkerRuns`, from `CountersBalance`).

* `EngineProofs`: `EngineIsCrawler == EngineSpec => Spec`: a step of the engine is a
  step of the crawler or leaves it alone, so that the theorems above hold
  inside the engine; the proof takes the actions one by one. `EngineTypeCorrect`
  uses it for the crawler's types. `StopWaitsForCrawl` rests on the invariant
  `Marks`: at its second load a stopper knows that what it saw enqueued at the
  first has left `queuingCount`; after a second load of zero, that it was
  downloaded or skipped. It holds because an item is counted in `downloadingCount`
  before it leaves `queuingCount`, and needs `CountersCorrect` and `NothingIsLost`.

* `CrawlerPoolProofs`: `QueueIsDrained`, `CrawlStaysInScope` and `CrawlerIsPool`, from the
  inductive invariant `PoolInv`: the types, `Unstarted`, `Lifecycle` (the output
  channel and `queueOpen` change together with `started` and `Stop`), `Scope`
  (whatever is queued, held or about to be enqueued is in scope) and
  `DrainedBeforeExit`. `Scope` is stronger than `CrawlInScope`: it has the links
  a goroutine is still to enqueue, for one step later they are in the queue. For
  the refinement, `WorkerMoves` says what a move of one worker is in the pool,
  `Quiet` and `QuietMove` when a step is a stutter of it, `StartOpens` that the
  workers which `Start` spawns are those that `Open` admits; each group of
  actions then has its lemma, and `PoolStep` puts them together. `Lifecycle` is
  what makes `Push` an `Accept` of an open pool: the code looks at a flag, the pool
  at the channel.

* `CrawlerStopProofs`: `OneStopNoPanic`, which is `NoPanic` where a callback is set
  before the crawl and `Stop` is called once at most: the conditions the engine
  keeps to, and CrawlerStopTwice shows what happens without them. `CallbackSet`
  says that nobody is at `send` and that whoever is inside `doDownload` has seen
  the callback, `OneStop` that at most one thread is about to close, and that
  nothing is closed until it does; `PanicCauses` that a panic takes one of both,
  the third cause, a push into a closed queue, being excluded by `Lifecycle`.
  `Worked` and `StopFindsRunning` are about the other end of `Stop`: once
  something was downloaded, and not directly, a worker runs until `Stop`.

* `EngineProofs`, second part: here `Stop` may be called by any number of goroutines.
  `EngineDoesNotPanic` rests on `OneWinner`: of all stoppers one is between
  `SetToIf` and its return, the channels are open until it gets there, and the
  critical section of the crawler's `Stop` is entered on its behalf only.
  `StopStopsCrawler` (`StopClosesQueue`) is the theorem that needs most of the
  others. The crawler ignores a `Stop` before its first worker runs. That this
  does not happen to a stopper that saw an item enqueued follows from `Marks` (what
  was seen has been downloaded), `StopFindsRunning` (so a worker runs) and
  `QueueClosed` (the channels are closed or about to be, or a stopper that returned
  had seen nothing). In an engine that mirrors a URL every stopper saw one
  (`Mirrored`): nobody stops before the roots are enqueued. In one that only listens
  (`root = NoRoot`, as with `-port` alone) the theorem has the hypothesis `SawWork`.

* `MirrorProofs`, under the assumptions of `Mirror`: two writes per response at most,
  disjoint sets of workers and requests, any number of both, any layout, any
  budget. `MirrorTypeCorrect` needs that a thread which is not writing has
  position 0 (`LocalsOK`); `FileStep` lists what any step may do to the file.
  `EmptyIsWritten` strengthens `EmptyMeansWriting` to `EmptyInv`: the writer of an
  empty file is one that has yet to write the first block (`Starting`), for
  a thread at its second block only makes the hole before it visible. Every step
  either writes a first block, starts to, or holds what was (`Covered`).
  `ServesWhole` is `ServedWhole` under `OneWrite`, from `ServeInv`: what a request has
  sent, by label, and that the first block of the file is the first of a page. It has
  the exception of the property: a header damaged by a misplaced bump, in any layout.

* `PageProofs`, for any sites, names, host rewrites and documents, under the assumptions
  of `Links` and `Page`: paths consist of names, rewrites lead from site to site, the
  tokenizer gives end tags no attributes, and base elements name pages.
  `ReducedResolves` is the arithmetic of paths: resolving what `ReducePath` writes gives
  the path back, also when both pages are moved below one directory, as the listener
  for all hosts shows them. `ReferencesLead` says it of `Reduce` with its kinds of
  references and of every `Location`. `KeepsOrder` rests on `KeptInv`: while a loop
  reads, what is written is what `Kept` says of what was read; `Kept` of a longer
  document is found by a least element, not by induction. `LinksAreFollowed` and
  `LinksAreKept` rest on `BaseInv` (where the page has one closed base element at
  most, the base of the code is that of HTML) and `LinkInv` (each link that was written is
  what `Reduce` gives for what the original meant, and the crawler's links and the
  cross-host header know of it). The exceptions are those of the run.

* `ProgramProofs`, for any URLs, names of files, answers, sources, lifetimes, budgets and
  command lines, under the assumptions of `CacheFile`, `Serving` and `Program`: the
  roots on a command line are sites, every site has a front page, and no URL has the name
  of a request that is answered without the cache. The first part says
  what the operators on lines give, since no property can be argued without:
  `WrittenIs` lists a written file line by line, `BumpedIs`, `ScanStops` and `ScanNotes`
  do it for Bump and the server. Then:
  * `ProgramTypeCorrect` from `ProgramOK`. It adds to the types that files hold only
    lines whose numbers are natural but for deadlines, that a file starts with its
    status, that items in the queue are not from the future, that the file of a visit
    which is being served stays there (`ReadOK`), and that whoever has an expired page
    refreshed has a file to bump and did so in the past (`RefreshOK`). It does not say
    that the file is still the one that was read: a `Bump` may find any.
  * `NoStampedes`, where times do not wrap (`MaxTime + BumpTTL < Half`), from
    `Refreshing`: a file whose refresh waits (`Waits`: in the queue, or in the hands of a
    goroutine between `Bump` and `Enqueue`), and which no download has written since,
    has no deadline before Bump's time is over. It is about every file, every item of the
    queue and any number of goroutines, also where URLs share a file. `WaitsStep` says
    what a step does to those that wait, `FilesStep` what it does to the files, and
    `StampedeStep` looks at a visitor who asks: if what it read is what the file says, the
    deadline is over, and so is Bump's time. Wrapping is excluded because it breaks the
    property: the bumped deadline would lie in the past.
  * `FilesAreWrittenFresh` needs no invariant beyond `ProgramOK`: a file that changes
    in a step which leaves `refresh` alone, so not in `Bump`, was written by a download, in
    whole or in part, or is a placeholder, which has no "meta" line.
  * `GoodFilesKept` from `GoodInv`. `GoodOK` is the property at every moment, not only
    `AtRest`; it stays because of what a visit knows between its steps: an issue
    means that the file is not good, or is excused, or is refused for its references
    (`IssueOK`), and the body of a good file is passed on whole, so that `CopyBody`
    finds no error in it (`CopyOK`). A `Bump` meets whatever file is there: a good one
    with an expires line stays good (`BumpedGood`), one without is excused.
  * `AnswersAreWhole` from `WholeInv`. `FilesHold`: a file has the beginning of one
    answer to one URL of its name, or of a placeholder, with any deadline (`Holds`); a
    failed write cuts it short, Bump changes the deadline only, and every write begins
    anew. A visit that reads such a file up to its blank line has read the whole header
    of that answer (`ScanFinds`), and a body that is as long as this header says is the
    answer's (`BodyFound`). `VisitWhole` says what was sent and noted, phase by phase: a
    visit with an issue has sent nothing and noted no header, so that the download that
    follows is not mixed with another answer, unless it is `mixed`. An error without a
    body is left for visits whose placeholder could not be written, and costs a fault
    (`BudgetOK`).

  * `ListensWhereTyped` from `Parsed` and `Listened`. The code keeps the urls and the
    ports in two lists and pairs them by position only, and neither says which flag an
    entry came from; `Parsed` has that: some function `at` says where each url was typed,
    and every url but the flag just read is paired with the port that follows it
    (`UrlsAt`). The exception is why the flags read so far are part of the invariant: a
    url has no port until the next flag is read. `PortsFirst` is needed where a flag adds
    a port (`PortRead`), which goes to the first url without one. `Listened` says that the
    listeners are those of the calls of `Mirror` made so far, each on the port it asked
    for; a call that finds its port taken ends the program.

Only model-checked: `DownloadReturns` of `Page`, and with it every liveness property
(`CrawlEnds`, `StopTakesEffect`, `Recovers`, `EngineStops`, `ImplementsFairPool`): fairness
and ENABLED are out of the prover's reach. So is induction over data, which the proofs
above avoid by a least element, and where positions of lines are lemmas about `Position`.

## 5. What is not modelled

* The crawler's setters of options and of the two URL callbacks: constants.
  Changing them during a crawl is not modelled.
* Errors of opening a file and of `Bump`, and of creating directories. Which lines of
  a header a bump that misses its place damages: `Damaged` stands for all of them, with
  the body or without.
* Visitors of `Serving` whose reading and writing overlap with each other or with a worker:
  `Mirror` has these, for one URL. A body whose reading failed is written like any
  other (onDownloaded looks at the status only) and is an answer of its own here,
  whose length is that of what was read.
* Paths with empty names in the middle (`a//b`), which `path.Join` shortens in `ReduceURL`.
* Of cache paths: names of more than 32 characters, which a hash shortens, and
  collisions of the short hash. Of the files: the lines `X-Mirror-Url`,
  `Last-Modified` and `Cache-Control`, which repeat others.
* Of pages: tags with several attributes, queries and fragments, errors of the
  CSS scanner, rewrites that add a path.
* Closers of listeners: `ListenAndServe` returns one, and no code of the program
  keeps it. One that is used late would close the listener that has the host then.
* Of the configuration: options that only set a number or a header, values that
  cannot be parsed, environment variables.
* Logging, and the test helpers.

Seen on the way, without a property of its own: `ServeDownloaded` sends
`X-Mirror-Cross-Host-Ref` to visitors, which `ServeHTTPCache` takes for internal;
`GetHostsWhitelist` never increments its index, so that all but one of the
names it returns are empty; an answer 204 of the source looks like a placeholder to
`CheckCacheExists` and is downloaded again whenever it is met.

## 6. Plan

Every safety property that a passing run checks is a theorem. Left, in the modules there
are: in `Page` a measure that every step lowers, as an action property, which is what
`DownloadReturns` rests on but for fairness.
