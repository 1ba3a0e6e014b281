------------------------------ MODULE Crawler ------------------------------
(***************************************************************************)
(* The crawler of crawler/crawler.go: a pool of worker goroutines that     *)
(* take queue items from a non-blocking channel, download them, hand the   *)
(* result to a callback or to the output channel and enqueue the links     *)
(* found, while any number of callers use the crawler's API.               *)
(*                                                                         *)
(* Every goroutine is a thread with its own program counter.  A step is    *)
(* one atomic operation of the code (an atomic addition, a critical        *)
(* section of the mutex, a channel operation) together with the thread's   *)
(* own work up to it.  What a page contains, whether a download succeeds   *)
(* and what the callbacks answer are chosen by the environment.            *)
(***************************************************************************)
EXTENDS Integers, Sequences, FiniteSets

CONSTANTS
    URLs,              \* the URLs of the crawled site
    AssetLinks,        \* assets a page needs: url -> set of URLs
    PageLinks,         \* other links a page has: url -> set of URLs
    ShouldQueue,       \* the URLs onURLShouldQueue accepts
    MayDownload,       \* the answers onURLShouldDownload may give
    Outcomes,          \* how a download may end: TRUE parsed, FALSE no links
    AutoDownloadDepth, \* links deeper than this are not followed
    Seeds,             \* the items callers pass to Enqueue and Download
    NoItem,            \* what a thread holds when it holds no item
    Workers,           \* the worker goroutines Start may spawn
    Callers,           \* goroutines that call the crawler's API
    Budget,            \* how often each API function is called: name -> Nat
    InitialCallback    \* whether onDownloaded is set before the first call

Item == [url : URLs, depth : Nat, force : BOOLEAN]

APINames == {"Start", "Stop", "Enqueue", "Download", "Downloaded",
             "DownloadedNotBlocking", "SetOnDownloaded", "SetWorkerCount"}

ASSUME LinksAssumption ==
    /\ AssetLinks \in [URLs -> SUBSET URLs]
    /\ PageLinks \in [URLs -> SUBSET URLs]
    /\ IsFiniteSet(URLs)
    /\ ShouldQueue \subseteq URLs

ASSUME ParametersAssumption ==
    /\ MayDownload \subseteq BOOLEAN
    /\ Outcomes \subseteq BOOLEAN
    /\ AutoDownloadDepth \in Nat
    /\ Seeds \subseteq Item
    /\ NoItem \notin Item
    /\ Budget \in [APINames -> Nat]
    /\ InitialCallback \in BOOLEAN

ASSUME ThreadsAssumption ==
    /\ IsFiniteSet(Workers)
    /\ Workers # {}
    /\ IsFiniteSet(Callers)
    /\ Workers \cap Callers = {}

Threads == Workers \cup Callers

VARIABLES
    started,       \* workerStartOnce has run
    workerCount,   \* how many workers Start will spawn
    queueOpen,     \* guarded by the mutex: doEnqueue may send
    output,        \* the output channel: "nil", "open" or "closed"
    onDownloaded,  \* the callback is set
    drainer,       \* goroutine of SetOnDownloaded: "none", "running", "done"
    panicked,      \* a goroutine panicked: the process is gone
    queue,         \* what the queue's non-blocking channel holds
    counts,        \* the atomic counters of the crawler struct
    pc,            \* where each thread is
    item,          \* the item a thread enqueues or downloads
    cb,            \* doDownload's snapshot of onDownloaded
    links,         \* links of the downloaded page, not yet looked at
    todo,          \* links doAutoQueueURLs is enqueueing
    calls,         \* history: calls made, per API function
    dropped,       \* history: items doEnqueue counted but did not send
    skipped,       \* history: items onURLShouldDownload refused
    delivered      \* history: results a callback or a receiver got

lifecycle == <<started, workerCount, queueOpen, output, onDownloaded, drainer,
               panicked>>
locals == <<item, cb, links, todo>>
history == <<calls, dropped, skipped, delivered>>
vars == <<lifecycle, queue, counts, pc, locals, history>>

\* queuingCount is an int64 and may become negative.
Counters == [workersStarted : Nat, workersRunning : Int, enqueued : Nat,
             queuing : Int, downloading : Int, downloaded : Nat,
             linkFound : Nat]

----------------------------------------------------------------------------
(* The predicates callers and workers read, and how threads move.          *)

HasStarted == counts.workersStarted > 0

IsRunning == counts.workersRunning > 0

HasStopped == HasStarted /\ ~IsRunning

IsBusyQueuing == counts.queuing > 0   \* mutant: downloads are forgotten

IsBusy == counts.queuing > 0 \/ counts.downloading > 0

At(labels) == {t \in Threads : pc[t] \in labels}

\* Nobody goes on after a panic.
Ready(t, label) == ~panicked /\ pc[t] = label

Goto(t, label) == pc' = [pc EXCEPT ![t] = label]

\* Where a thread goes on after doEnqueue and after doDownload.
Resume(t) == IF t \in Workers THEN "autoqueue" ELSE "idle"

Panic ==
    /\ panicked' = TRUE
    /\ UNCHANGED <<started, workerCount, queueOpen, output, onDownloaded,
                   drainer, queue, counts, pc, locals, history>>

Init ==
    /\ started = FALSE
    /\ workerCount \in 1 .. Cardinality(Workers)
    /\ queueOpen = FALSE
    /\ output = "nil"
    /\ onDownloaded = InitialCallback
    /\ drainer = "none"
    /\ panicked = FALSE
    /\ queue = <<>>
    /\ counts = [workersStarted |-> 0, workersRunning |-> 0, enqueued |-> 0,
                 queuing |-> 0, downloading |-> 0, downloaded |-> 0,
                 linkFound |-> 0]
    /\ pc = [t \in Threads |-> IF t \in Workers THEN "unborn" ELSE "idle"]
    /\ item = [t \in Threads |-> NoItem]
    /\ cb = [t \in Threads |-> FALSE]
    /\ links = [t \in Threads |-> {}]
    /\ todo = [t \in Threads |-> {}]
    /\ calls = [f \in APINames |-> 0]
    /\ dropped = 0
    /\ skipped = 0
    /\ delivered = 0

----------------------------------------------------------------------------
(* Calls.  A caller that is not inside the API may enter it.               *)

Enter(c, f) ==
    /\ Ready(c, "idle")
    /\ calls[f] < Budget[f]
    /\ calls' = [calls EXCEPT ![f] = @ + 1]
    /\ UNCHANGED <<dropped, skipped, delivered>>

\* Start's body runs once: it makes the channels and spawns the workers.
StartOnce(c, next) ==
    /\ \/ /\ started
          /\ Goto(c, next)
          /\ UNCHANGED <<started, queueOpen, output>>
       \/ /\ ~started
          /\ started' = TRUE
          /\ queueOpen' = TRUE
          /\ output' = "open"
          /\ \E spawned \in SUBSET Workers :
                /\ Cardinality(spawned) = workerCount
                /\ pc' = [t \in Threads |-> IF t = c THEN next
                                            ELSE IF t \in spawned THEN "born"
                                            ELSE pc[t]]
    /\ UNCHANGED <<workerCount, onDownloaded, drainer, panicked>>

Start(c) ==
    /\ Enter(c, "Start")
    /\ StartOnce(c, "idle")
    /\ UNCHANGED <<queue, counts, locals>>

Enqueue(c, i) ==
    /\ Enter(c, "Enqueue")
    /\ StartOnce(c, "count")
    /\ item' = [item EXCEPT ![c] = i]
    /\ UNCHANGED <<queue, counts, cb, links, todo>>

\* A direct download: it neither starts the crawler nor uses its queue.
Download(c, i) ==
    /\ Enter(c, "Download")
    /\ Goto(c, "snapshot")
    /\ item' = [item EXCEPT ![c] = i]
    /\ UNCHANGED <<lifecycle, queue, counts, cb, links, todo>>

Downloaded(c) ==
    /\ Enter(c, "Downloaded")
    /\ StartOnce(c, "receive")
    /\ UNCHANGED <<queue, counts, locals>>

DownloadedNotBlocking(c) ==
    /\ Enter(c, "DownloadedNotBlocking")
    /\ StartOnce(c, "poll")
    /\ UNCHANGED <<queue, counts, locals>>

AcceptsAnyCount(count) == ~HasStarted   \* mutant: zero is accepted

AcceptsCount(count) == count >= 1 /\ ~HasStarted

SetWorkerCount(c, count) ==
    /\ Enter(c, "SetWorkerCount")
    /\ workerCount' = IF AcceptsCount(count) THEN count ELSE workerCount
    /\ UNCHANGED <<started, queueOpen, output, onDownloaded, drainer,
                   panicked, queue, counts, pc, locals>>

\* The critical section of SetOnDownloaded; what follows it is SpawnDrainer.
SetOnDownloaded(c) ==
    /\ Enter(c, "SetOnDownloaded")
    /\ onDownloaded' = TRUE
    /\ Goto(c, IF onDownloaded THEN "idle" ELSE "drain")
    /\ UNCHANGED <<started, workerCount, queueOpen, output, drainer, panicked,
                   queue, counts, locals>>

\* After the unlock: a goroutine to empty the output, if the crawler runs.
SpawnDrainer(c) ==
    /\ Ready(c, "drain")
    /\ drainer' = IF IsRunning THEN "running" ELSE drainer
    /\ Goto(c, "idle")
    /\ UNCHANGED <<started, workerCount, queueOpen, output, onDownloaded,
                   panicked, queue, counts, locals, history>>

\* The checks of Stop, made before it takes the mutex.
Stop(c) ==
    /\ Enter(c, "Stop")
    /\ Goto(c, IF HasStarted /\ ~HasStopped THEN "close" ELSE "idle")
    /\ UNCHANGED <<lifecycle, queue, counts, locals>>

\* The critical section of Stop.  Closing a closed channel panics.
CloseChannels(c) ==
    /\ Ready(c, "close")
    /\ \/ /\ output = "open"
          /\ queueOpen' = FALSE
          /\ output' = "closed"
          /\ Goto(c, "idle")
          /\ UNCHANGED <<started, workerCount, onDownloaded, drainer,
                         panicked, queue, counts, locals, history>>
       \/ output = "closed" /\ Panic

----------------------------------------------------------------------------
(* doEnqueue, run by callers and by workers.                               *)

Count(t) ==
    /\ Ready(t, "count")
    /\ counts' = [counts EXCEPT !.enqueued = @ + 1, !.queuing = @ + 1]
    /\ Goto(t, "push")
    /\ UNCHANGED <<lifecycle, queue, locals, history>>

SendsAlways == TRUE   \* mutant: the queue is not checked under the mutex

MaySend == queueOpen

\* The critical section.  Stop closes queue and output together, so a send on
\* the queue panics exactly when output is closed.
Push(t) ==
    /\ Ready(t, "push")
    /\ \/ /\ MaySend
          /\ queue' = Append(queue, item[t])
          /\ panicked' = (output = "closed")
          /\ UNCHANGED dropped
       \/ /\ ~MaySend
          /\ dropped' = dropped + 1
          /\ UNCHANGED <<queue, panicked>>
    /\ Goto(t, Resume(t))
    /\ item' = [item EXCEPT ![t] = NoItem]
    /\ UNCHANGED <<started, workerCount, queueOpen, output, onDownloaded,
                   drainer, counts, cb, links, todo, calls, skipped, delivered>>

----------------------------------------------------------------------------
(* The body of a worker goroutine.                                         *)

CountStarted(w) ==
    /\ Ready(w, "born")
    /\ counts' = [counts EXCEPT !.workersStarted = @ + 1]
    /\ Goto(w, "started")
    /\ UNCHANGED <<lifecycle, queue, locals, history>>

CountRunning(w) ==
    /\ Ready(w, "started")
    /\ counts' = [counts EXCEPT !.workersRunning = @ + 1]
    /\ Goto(w, "receiving")
    /\ UNCHANGED <<lifecycle, queue, locals, history>>

\* Mutant: the item stays in the queue for another worker.
Peek(w) ==
    /\ Ready(w, "receiving")
    /\ queue # <<>>
    /\ item' = [item EXCEPT ![w] = Head(queue)]
    /\ Goto(w, "snapshot")
    /\ UNCHANGED <<lifecycle, queue, counts, cb, links, todo, history>>

Take(w) ==
    /\ Ready(w, "receiving")
    /\ queue # <<>>
    /\ queue' = Tail(queue)
    /\ item' = [item EXCEPT ![w] = Head(queue)]
    /\ Goto(w, "snapshot")
    /\ UNCHANGED <<lifecycle, counts, cb, links, todo, history>>

EndWithoutDraining == output = "closed"   \* mutant: the rest is abandoned

\* Mutant: workers wait for a crawler that is not busy before they leave.
EndWhenIdle == output = "closed" /\ queue = <<>> /\ ~IsBusy

\* The queue reports its end once it is closed and everything was received.
EndOfQueue == output = "closed" /\ queue = <<>>

Exit(w) ==
    /\ Ready(w, "receiving")
    /\ EndOfQueue
    /\ counts' = [counts EXCEPT !.workersRunning = @ - 1]
    /\ Goto(w, "exited")
    /\ UNCHANGED <<lifecycle, queue, locals, history>>

----------------------------------------------------------------------------
(* doDownload, run by workers and, for a direct download, by callers.      *)

\* The mutex section: later calls of SetOnDownloaded go unnoticed.
Snapshot(t) ==
    /\ Ready(t, "snapshot")
    /\ cb' = [cb EXCEPT ![t] = onDownloaded]
    /\ Goto(t, "enter")
    /\ UNCHANGED <<lifecycle, queue, counts, item, links, todo, history>>

EnterDownloading(t) ==
    /\ Ready(t, "enter")
    /\ counts' = [counts EXCEPT !.downloading = @ + 1]
    /\ Goto(t, "leaveQueue")
    /\ UNCHANGED <<lifecycle, queue, locals, history>>

LeaveQueue(t) ==
    /\ Ready(t, "leaveQueue")
    /\ counts' = [counts EXCEPT !.queuing = @ - 1]
    /\ Goto(t, "decide")
    /\ UNCHANGED <<lifecycle, queue, locals, history>>

\* onURLShouldDownload is not asked when the download is forced.
Decide(t) ==
    /\ Ready(t, "decide")
    /\ \/ /\ item[t].force \/ TRUE \in MayDownload
          /\ Goto(t, "fetch")
          /\ UNCHANGED <<item, skipped>>
       \/ /\ ~item[t].force
          /\ FALSE \in MayDownload
          /\ Goto(t, "skipping")
          /\ item' = [item EXCEPT ![t] = NoItem]
          /\ skipped' = skipped + 1
    /\ UNCHANGED <<lifecycle, queue, counts, cb, links, todo, calls, dropped,
                   delivered>>

AssetItems(i) ==
    {[url |-> u, depth |-> i.depth, force |-> FALSE] : u \in AssetLinks[i.url]}

PageItems(i) ==
    {[url |-> u, depth |-> i.depth + 1, force |-> FALSE] : u \in PageLinks[i.url]}

\* The links of a direct download are not followed.
Fetch(t) ==
    /\ Ready(t, "fetch")
    /\ counts' = [counts EXCEPT !.downloaded = @ + 1]
    /\ \E ok \in Outcomes :
          links' = [links EXCEPT ![t] =
                       IF ok /\ t \in Workers
                       THEN AssetItems(item[t]) \cup PageItems(item[t])
                       ELSE {}]
    /\ item' = [item EXCEPT ![t] = NoItem]
    /\ Goto(t, "fetched")
    /\ UNCHANGED <<lifecycle, queue, cb, todo, history>>

LeaveDownloading(t) ==
    /\ counts' = [counts EXCEPT !.downloading = @ - 1]
    /\ \/ /\ Ready(t, "fetched")
          /\ Goto(t, "deliver")
          /\ UNCHANGED cb
       \/ /\ Ready(t, "skipping")
          /\ Goto(t, Resume(t))
          /\ cb' = [cb EXCEPT ![t] = FALSE]
    /\ UNCHANGED <<lifecycle, queue, item, links, todo, history>>

MustSendAlways(t) == IsRunning   \* mutant: the callback is not looked at

\* Mutant: a result nobody waits for is thrown away.
MustSendIfAwaited(t) == ~cb[t] /\ IsRunning /\ At({"receive"}) # {}

MustSend(t) == ~cb[t] /\ IsRunning

\* The callback takes the result or, without one, a running crawler sends it.
Deliver(t) ==
    /\ Ready(t, "deliver")
    /\ cb' = [cb EXCEPT ![t] = FALSE]
    /\ Goto(t, IF MustSend(t) THEN "send" ELSE Resume(t))
    /\ delivered' = IF cb[t] THEN delivered + 1 ELSE delivered
    /\ UNCHANGED <<lifecycle, queue, counts, item, links, todo, calls, dropped,
                   skipped>>

\* A send on a closed channel, or one being closed, panics.
SendOnClosed(t) ==
    /\ Ready(t, "send")
    /\ output = "closed"
    /\ Panic

----------------------------------------------------------------------------
(* The receiving end of the output channel, which is not buffered.         *)

Senders == At({"send"})

\* Downloaded and DownloadedNotBlocking: a sender that waits and the caller
\* meet.  Without one, only DownloadedNotBlocking returns.
Receive(c) ==
    /\ Ready(c, "receive") \/ Ready(c, "poll")
    /\ \/ /\ output = "open"
          /\ \E s \in Senders :
                pc' = [pc EXCEPT ![s] = Resume(s), ![c] = "idle"]
          /\ delivered' = delivered + 1
       \/ /\ output = "closed" \/ (pc[c] = "poll" /\ Senders = {})
          /\ Goto(c, "idle")
          /\ UNCHANGED delivered
    /\ UNCHANGED <<lifecycle, queue, counts, locals, calls, dropped, skipped>>

\* One turn of the goroutine of SetOnDownloaded: it ends at the first nil.
Drain ==
    /\ drainer = "running" /\ ~panicked
    /\ \/ /\ output = "open"
          /\ \E s \in Senders : Goto(s, Resume(s))
          /\ delivered' = delivered + 1
          /\ UNCHANGED drainer
       \/ /\ output = "closed" \/ Senders = {}
          /\ drainer' = "done"
          /\ UNCHANGED <<pc, delivered>>
    /\ UNCHANGED <<started, workerCount, queueOpen, output, onDownloaded,
                   panicked, queue, counts, locals, calls, dropped, skipped>>

----------------------------------------------------------------------------
(* doAutoQueue: first the assets, at the depth of their page, then the     *)
(* other links, one deeper.                                                *)

NextLinks(w) ==
    {l \in links[w] : \A other \in links[w] : l.depth <= other.depth}

\* Mutant: one level deeper than the limit.
InScopeTooDeep(l) == l.depth <= AutoDownloadDepth + 1 /\ l.url \in ShouldQueue

InScope(l) == l.depth <= AutoDownloadDepth /\ l.url \in ShouldQueue

\* doAutoQueueURLs up to its loop, with the answers of onURLShouldQueue.
FindLinks(w) ==
    /\ Ready(w, "autoqueue")
    /\ todo[w] = {}
    /\ links[w] # {}
    /\ counts' = [counts EXCEPT !.linkFound = @ + Cardinality(NextLinks(w))]
    /\ links' = [links EXCEPT ![w] = @ \ NextLinks(w)]
    /\ todo' = [todo EXCEPT ![w] = {l \in NextLinks(w) : InScope(l)}]
    /\ UNCHANGED <<lifecycle, queue, pc, item, cb, history>>

AutoEnqueue(w) ==
    /\ Ready(w, "autoqueue")
    /\ \E l \in todo[w] :
          /\ todo' = [todo EXCEPT ![w] = @ \ {l}]
          /\ item' = [item EXCEPT ![w] = l]
    /\ Goto(w, "count")
    /\ UNCHANGED <<lifecycle, queue, counts, cb, links, history>>

FinishItem(w) ==
    /\ Ready(w, "autoqueue")
    /\ todo[w] = {} /\ links[w] = {}
    /\ Goto(w, "receiving")
    /\ UNCHANGED <<lifecycle, queue, counts, locals, history>>

----------------------------------------------------------------------------
\* A call of the API begins.
Call(c) ==
    \/ Start(c)
    \/ Stop(c)
    \/ \E i \in Seeds : Enqueue(c, i) \/ Download(c, i)
    \/ Downloaded(c)
    \/ DownloadedNotBlocking(c)
    \/ SetOnDownloaded(c)
    \/ \E count \in 0 .. Cardinality(Workers) : SetWorkerCount(c, count)

\* doEnqueue and doDownload, whichever goroutine runs them.
EnqueueOrDownload(t) ==
    \/ Count(t)
    \/ Push(t)
    \/ Snapshot(t)
    \/ EnterDownloading(t)
    \/ LeaveQueue(t)
    \/ Decide(t)
    \/ Fetch(t)
    \/ LeaveDownloading(t)
    \/ Deliver(t)
    \/ SendOnClosed(t)

\* A caller goes on with a call.
Continue(c) ==
    \/ CloseChannels(c)
    \/ SpawnDrainer(c)
    \/ Receive(c)
    \/ EnqueueOrDownload(c)

Work(w) ==
    \/ CountStarted(w)
    \/ CountRunning(w)
    \/ Take(w)
    \/ Exit(w)
    \/ EnqueueOrDownload(w)
    \/ FindLinks(w)
    \/ AutoEnqueue(w)
    \/ FinishItem(w)

Next ==
    \/ \E c \in Callers : Call(c) \/ Continue(c)
    \/ \E w \in Workers : Work(w)
    \/ Drain

Spec == Init /\ [][Next]_vars

\* Goroutines that can run are scheduled, downloads end (the client has a
\* timeout) and callbacks return.  Nobody has to call the API.
FairSpec ==
    /\ Spec
    /\ \A w \in Workers : WF_vars(Work(w))
    /\ \A c \in Callers : WF_vars(Continue(c))
    /\ WF_vars(Drain)

----------------------------------------------------------------------------
(* Properties.                                                             *)

DownloadLabels == {"snapshot", "enter", "leaveQueue", "decide", "fetch",
                   "fetched", "skipping", "deliver", "send"}

WorkerLabels == DownloadLabels \cup
    {"unborn", "born", "started", "receiving", "autoqueue", "count", "push",
     "exited"}

CallerLabels == DownloadLabels \cup
    {"idle", "count", "push", "close", "drain", "receive", "poll"}

FlagsOK ==
    /\ started \in BOOLEAN
    /\ queueOpen \in BOOLEAN
    /\ onDownloaded \in BOOLEAN
    /\ panicked \in BOOLEAN

CountersOK ==
    /\ counts \in Counters
    /\ workerCount \in 1 .. Cardinality(Workers)
    /\ calls \in [APINames -> Nat]
    /\ dropped \in Nat
    /\ skipped \in Nat
    /\ delivered \in Nat

ChannelsOK ==
    /\ output \in {"nil", "open", "closed"}
    /\ drainer \in {"none", "running", "done"}
    /\ queue \in Seq(Item)

ProgramOK ==
    /\ pc \in [Threads -> WorkerLabels \cup CallerLabels]
    /\ \A w \in Workers : pc[w] \in WorkerLabels
    /\ \A c \in Callers : pc[c] \in CallerLabels

\* Threads that hold an item.
Holding == At({"count", "push", "snapshot", "enter", "leaveQueue", "decide",
               "fetch"})

LocalsOK ==
    /\ item \in [Threads -> Item \cup {NoItem}]
    /\ \A t \in Holding : item[t] \in Item
    /\ cb \in [Threads -> BOOLEAN]
    /\ links \in [Threads -> SUBSET Item]
    /\ \A t \in Threads : IsFiniteSet(links[t])
    /\ todo \in [Threads -> SUBSET Item]

\* Type invariant of crawler.go's crawler struct and of its goroutines.
TypeOK == FlagsOK /\ CountersOK /\ ChannelsOK /\ ProgramOK /\ LocalsOK

\* Threads that hold an item counted in queuingCount but not in the queue.
Queuing == At({"push", "snapshot", "enter", "leaveQueue"})

\* Threads with an item that is counted in enqueuedCount or directly downloaded
\* and that is neither in the queue nor through with its download.
Unfinished == At({"push", "snapshot", "enter", "leaveQueue", "decide", "fetch"})

Downloading == At({"leaveQueue", "decide", "fetch", "fetched", "skipping"})

\* Workers before workersRunning counts them and after.
NotRunning == At({"unborn", "born", "started", "exited"})

\* The atomic counters of crawler.go agree with the queue and the goroutines,
\* although they are updated apart from both.  queuingCount never forgets an
\* item dropped after Stop, and every direct download takes one off it.
CountersBalance ==
    /\ counts.queuing =
          Len(queue) + Cardinality(Queuing) + dropped - calls["Download"]
    /\ counts.downloading = Cardinality(Downloading)
    /\ counts.workersRunning = Cardinality(Workers) - Cardinality(NotRunning)

\* Every item that entered doEnqueue or Download is in the queue, with one
\* thread, downloaded, refused by the callback or dropped after Stop:
\* none is lost and none is worked on twice.
NothingLost ==
    counts.enqueued + calls["Download"] =
        Len(queue) + Cardinality(Unfinished) + counts.downloaded + skipped
        + dropped

\* While an item waits or is being downloaded IsBusy says so, provided nobody
\* downloads directly: what Engine.Stop relies on to wait for the crawl.
BusyCoversWork ==
    (queue # <<>> \/ Queuing # {} \/ Downloading # {}) /\ calls["Download"] = 0
        => IsBusy

\* No goroutine panics on a closed channel: not in doEnqueue, Stop or
\* doDownload.
NoPanic == ~panicked

\* The crawl stays within the seeds and the links that the depth limit and
\* onURLShouldQueue admit, whoever holds the item.
CrawlInScope ==
    LET held == {queue[k] : k \in 1 .. Len(queue)}
                \cup ({item[t] : t \in Threads} \ {NoItem})
    IN  \A i \in held :
            \/ i \in Seeds
            \/ i.depth <= AutoDownloadDepth /\ i.url \in ShouldQueue

\* Workers leave only after the queue was closed and emptied, and nothing is
\* queued behind their back: what was accepted before Stop is worked on.
DrainedBeforeExit ==
    At({"exited"}) # {} => queue = <<>> /\ ~queueOpen /\ output = "closed"

\* A worker's result reaches the callback, a receiver of the output channel
\* or nobody yet: none is lost or delivered twice, whoever changes onDownloaded
\* meanwhile.  Only a direct download may keep its result to itself.
ResultsDelivered ==
    counts.downloaded - delivered - Cardinality(At({"fetched", "deliver", "send"}))
        \in 0 .. calls["Download"]

\* Liveness: the calls being finite, the whole crawl ends, with the queue empty and
\* all workers waiting or gone.
Idle == queue = <<>> /\ \A w \in Workers : pc[w] \in {"unborn", "receiving", "exited"}
CrawlEnds == <>[]Idle

\* Liveness: once Stop closed the channels, every worker leaves its loop and
\* HasStopped becomes and stays true.
StopTakesEffect ==
    (output = "closed") ~> [](HasStopped /\ \A w \in Workers : pc[w] \in {"unborn", "exited"})

============================================================================
