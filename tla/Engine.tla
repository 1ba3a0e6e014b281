------------------------------- MODULE Engine -------------------------------
(***************************************************************************)
(* The engine of engine/engine.go around the crawler of Crawler: Mirror,   *)
(* the automatic refresh, requests of visitors, onDownloaded, and Stop,    *)
(* which polls the crawler until it is not busy.                           *)
(*                                                                         *)
(* A step is one of the crawler or one of the engine; where the engine     *)
(* calls the crawler it is both.  The goroutines of the engine are callers *)
(* of the crawler.                                                         *)
(***************************************************************************)
EXTENDS Crawler

CONSTANTS
    Main,         \* the goroutine that calls Mirror
    Ticker,       \* the goroutine autoEnqueue starts
    Visitors,     \* goroutines of the web server
    Stoppers,     \* goroutines that may call Engine.Stop
    Mirrors,      \* the URLs Main may mirror
    NoRoot,       \* the root of the listener for every host
    EveryHost,    \* Main has called Mirror for every host before
    AutoEnqueues  \* autoEnqueueInterval is not zero

Root(u) == [url |-> u, depth |-> 0, force |-> FALSE]

Refresh(u) == [url |-> u, depth |-> 0, force |-> TRUE]

ASSUME EngineAssumption ==
    /\ {Main, Ticker} \cup Visitors \cup Stoppers \subseteq Callers
    /\ Main # Ticker /\ {Main, Ticker} \cap Visitors = {}
    /\ Main \in Stoppers /\ Stoppers \cap (Visitors \cup {Ticker}) = {}
    /\ NoRoot \notin URLs
    /\ Mirrors \subseteq URLs
    /\ EveryHost \in BOOLEAN
    /\ AutoEnqueues \in BOOLEAN
    /\ \A u \in URLs : {Root(u), Refresh(u)} \subseteq Seeds
    /\ InitialCallback
    /\ Budget["Stop"] > 0

VARIABLES
    toMirror,         \* what Main has not mirrored yet
    root,             \* what it mirrors, or has mirrored last
    autoEnqueueUrls,  \* what the ticker refreshes
    ticking,          \* the ticker: "unborn", "waiting" or "ended"
    pending,          \* what is left of its round
    listeners,        \* the roots the web server listens for
    connected,        \* visitors with a connection, which outlives its listener
    writing,          \* goroutines that write the cache in onDownloaded
    stopped,          \* the flag of the engine
    something,        \* channel downloadedSomething: "open", "closed", "panic"
    at,               \* where Main and the stoppers are
    mark              \* history: enqueuedCount when a stopper last polled

mirroring == <<toMirror, root, autoEnqueueUrls, ticking, pending>>
serving == <<listeners, connected>>
stopping == <<stopped, something, at, mark>>
engine == <<mirroring, serving, writing, stopping>>

EngineInit ==
    /\ Init
    /\ toMirror \in SUBSET Mirrors   \* none: the program only listens
    /\ root = NoRoot
    /\ autoEnqueueUrls = {}
    /\ ticking = "unborn"
    /\ pending = {}
    /\ listeners = IF EveryHost THEN {NoRoot} ELSE {}
    /\ connected = {}
    /\ writing = {}
    /\ stopped = FALSE
    /\ something = "open"
    /\ at = [s \in Stoppers |-> IF s = Main /\ toMirror # {} THEN "mirror" ELSE "running"]
    /\ mark = [s \in Stoppers |-> 0]

MoveTo(s, label) == at' = [at EXCEPT ![s] = label]

\* The bound on calls of Enqueue keeps a place for each root and refresh due.
Due == Cardinality(toMirror) + Cardinality(pending)
          + (IF at[Main] = "enqueue" THEN 1 ELSE 0)

Spare(n) == calls["Enqueue"] + Due + n <= Budget["Enqueue"]

----------------------------------------------------------------------------
(* Mirror, called by Main for one root after the other.                    *)

\* Up to the enqueueing of the root.  autoEnqueue waits for its mutex, which the
\* ticker holds during a round.
Mirror ==
    /\ ~panicked
    /\ at[Main] = "mirror"
    /\ \E r \in toMirror :
          /\ toMirror' = toMirror \ {r}
          /\ root' = r
          /\ \/ ~AutoEnqueues /\ UNCHANGED <<autoEnqueueUrls, ticking>>
             \/ /\ AutoEnqueues /\ pending = {}
                /\ autoEnqueueUrls' = autoEnqueueUrls \cup {r}
                /\ ticking' = IF ticking = "unborn" THEN "waiting" ELSE ticking
    /\ MoveTo(Main, "enqueue")
    /\ UNCHANGED <<vars, pending, serving, writing, stopped, something, mark>>

EnqueueRoot ==
    /\ at[Main] = "enqueue"
    /\ Enqueue(Main, Root(root))
    /\ MoveTo(Main, "listen")
    /\ UNCHANGED <<mirroring, serving, writing, stopped, something, mark>>

\* ListenAndServe, once Enqueue has returned.
Listen ==
    /\ at[Main] = "listen"
    /\ Ready(Main, "idle")
    /\ listeners' = listeners \cup {root}
    /\ MoveTo(Main, IF toMirror = {} THEN "running" ELSE "mirror")
    /\ UNCHANGED <<vars, mirroring, connected, writing, stopped, something, mark>>

\* The ticker wakes up: it ends with the engine or begins a round.
Tick ==
    /\ ticking = "waiting"
    /\ Ready(Ticker, "idle")
    /\ pending = {}
    /\ \/ stopped /\ ticking' = "ended" /\ UNCHANGED pending
       \/ /\ ~stopped
          /\ Spare(Cardinality(autoEnqueueUrls))
          /\ pending' = autoEnqueueUrls
          /\ UNCHANGED ticking
    /\ UNCHANGED <<vars, toMirror, root, autoEnqueueUrls, serving, writing, stopping>>

EnqueuePending ==
    /\ \E u \in pending :
          /\ pending' = pending \ {u}
          /\ Enqueue(Ticker, Refresh(u))
    /\ UNCHANGED <<toMirror, root, autoEnqueueUrls, ticking, serving, writing, stopping>>

----------------------------------------------------------------------------
(* Requests: onServerIssue for a cache that has expired, or is missing.    *)

Connect(v) ==
    /\ v \in connected \/ listeners # {}
    /\ connected' = connected \cup {v}
    /\ UNCHANGED <<mirroring, listeners, writing, stopping>>

VisitExpired(v, u) ==
    /\ Connect(v)
    /\ Spare(1)
    /\ Enqueue(v, Refresh(u))

VisitMissing(v, u) ==
    /\ Connect(v)
    /\ Download(v, Refresh(u))

----------------------------------------------------------------------------
(* onDownloaded, while the crawler delivers.                               *)

KeepHalfWritten(t) ==   \* mutant: also after the write began
    /\ Deliver(t)
    /\ UNCHANGED engine

\* A bad answer does not replace an existing cache.
KeepCache(t) ==
    /\ t \notin writing
    /\ Deliver(t)
    /\ UNCHANGED engine

WriteCache(t) ==
    /\ Ready(t, "deliver")
    /\ t \notin writing
    /\ writing' = writing \cup {t}
    /\ UNCHANGED <<vars, mirroring, serving, stopping>>

Waiting == {s \in Stoppers : at[s] = "pause"}

MayNotify == ~stopped

\* The end of the write and the section under the mutex: a Stop that waits
\* for downloadedSomething is woken, a send on the closed channel panics.
Notify(t) ==
    /\ t \in writing
    /\ writing' = writing \ {t}
    /\ Deliver(t)
    /\ \/ ~MayNotify /\ UNCHANGED <<something, at>>
       \/ /\ MayNotify /\ something = "open"
          /\ \/ Waiting = {} /\ UNCHANGED at
             \/ \E s \in Waiting : MoveTo(s, "poll")
          /\ UNCHANGED something
       \/ /\ MayNotify /\ something # "open"
          /\ something' = "panic"
          /\ UNCHANGED at
    /\ UNCHANGED <<mirroring, serving, stopped, mark>>

----------------------------------------------------------------------------
(* Stop, called once Main has mirrored everything.                         *)

MirrorLabels == {"mirror", "enqueue", "listen"}

Step(s, from, to) ==
    /\ ~panicked
    /\ at[s] = from
    /\ MoveTo(s, to)
    /\ UNCHANGED <<mirroring, writing>>

StopEngine(s) ==
    /\ at[Main] \notin MirrorLabels
    /\ Step(s, "running", IF stopped THEN "returned" ELSE "poll")
    /\ UNCHANGED <<vars, serving, stopped, something, mark>>

LoadSwapped(n) ==   \* mutant: IsBusy looks at the downloads first
    IF n = 1 THEN counts.downloading ELSE counts.queuing

LoadDownloading(n) == counts.downloading   \* mutant: the queue is forgotten

\* The two loads of IsBusy, the second only if the first is not positive.
Load(n) == IF n = 1 THEN counts.queuing ELSE counts.downloading

PollQueuing(s) ==
    /\ Step(s, "poll", IF Load(1) > 0 THEN "pause" ELSE "polled")
    /\ mark' = [mark EXCEPT ![s] = counts.enqueued]
    /\ UNCHANGED <<vars, serving, stopped, something>>

PollDownloading(s) ==
    /\ Step(s, "polled", IF Load(2) > 0 THEN "pause" ELSE "cleanUp")
    /\ UNCHANGED <<vars, serving, stopped, something, mark>>

NoTimeout == FALSE   \* mutant: only a download ends the pause

Timeout == TRUE

\* After 10 ms; a download may end the pause before (Notify).
Pause(s) ==
    /\ Timeout
    /\ Step(s, "pause", "poll")
    /\ UNCHANGED <<vars, serving, stopped, something, mark>>

NeverMind == FALSE   \* mutant: the flag is set whatever it was

AlreadyStopped == stopped

\* SetToIf: one of several calls goes on.
CleanUp(s) ==
    /\ Step(s, "cleanUp", IF AlreadyStopped THEN "returned" ELSE "stopCrawler")
    /\ stopped' = TRUE
    /\ UNCHANGED <<vars, serving, something, mark>>

StopCrawler(s) ==
    /\ Step(s, "stopCrawler", "stopServer")
    /\ Stop(s)
    /\ UNCHANGED <<serving, stopped, something, mark>>

StopServer(s) ==
    /\ pc[s] = "idle"
    /\ Step(s, "stopServer", "close")
    /\ listeners' = {}
    /\ UNCHANGED <<vars, connected, stopped, something, mark>>

CloseSomething(s) ==
    /\ Step(s, "close", "returned")
    /\ something' = IF something = "open" THEN "closed" ELSE "panic"
    /\ UNCHANGED <<vars, serving, stopped, mark>>

----------------------------------------------------------------------------
\* A thread goes on inside the crawler.
InCrawler(t) ==
    /\ pc[t] # "deliver"
    /\ \/ t \in Workers /\ Work(t)
       \/ t \in Callers /\ Continue(t)
    /\ UNCHANGED engine

OnDownloaded(t) == KeepCache(t) \/ WriteCache(t) \/ Notify(t)

Mirroring == Mirror \/ EnqueueRoot \/ Listen

Stopping(s) ==
    \/ PollQueuing(s)
    \/ PollDownloading(s)
    \/ Pause(s)
    \/ CleanUp(s)
    \/ StopCrawler(s)
    \/ StopServer(s)
    \/ CloseSomething(s)

EngineNext ==
    \/ \E t \in Threads : InCrawler(t) \/ OnDownloaded(t)
    \/ Mirroring
    \/ Tick
    \/ EnqueuePending
    \/ \E v \in Visitors, u \in URLs : VisitExpired(v, u) \/ VisitMissing(v, u)
    \/ \E s \in Stoppers : StopEngine(s) \/ Stopping(s)

EngineSpec == EngineInit /\ [][EngineNext]_<<vars, engine>>

\* Every goroutine that can go on does, but nobody has to visit or to stop.
FairEngineSpec ==
    /\ EngineSpec
    /\ \A t \in Threads : WF_<<vars, engine>>(InCrawler(t) \/ OnDownloaded(t))
    /\ WF_<<vars, engine>>(Mirroring)
    /\ WF_<<vars, engine>>(EnqueuePending)
    /\ \A s \in Stoppers : WF_<<vars, engine>>(Stopping(s))

----------------------------------------------------------------------------
(* Properties.                                                             *)

StopLabels == {"poll", "polled", "pause", "cleanUp", "stopCrawler", "stopServer",
               "close", "returned"}

MirrorOK ==
    /\ toMirror \subseteq URLs
    /\ at[Main] = "enqueue" => root \in URLs
    /\ root \in URLs \cup {NoRoot}
    /\ autoEnqueueUrls \subseteq URLs
    /\ ticking \in {"unborn", "waiting", "ended"}
    /\ pending \subseteq URLs

ServeOK ==
    /\ listeners \subseteq URLs \cup {NoRoot}
    /\ connected \subseteq Visitors

StopOK ==
    /\ stopped \in BOOLEAN
    /\ something \in {"open", "closed", "panic"}
    /\ at \in [Stoppers -> StopLabels \cup MirrorLabels \cup {"running"}]
    /\ mark \in [Stoppers -> Nat]

\* A write belongs to a download that is being delivered.
WritingOK == \A t \in writing : t \in Threads /\ pc[t] = "deliver"

\* Type invariant of engine.go's engine struct and of its goroutines.
EngineTypeOK == MirrorOK /\ ServeOK /\ StopOK /\ WritingOK

\* However many goroutines call Engine.Stop, and however late a download or a
\* refresh comes: no channel is closed twice and nothing is sent on a closed one.
EngineNoPanic == ~panicked /\ something # "panic"

\* When Engine.Stop goes on to clean up, everything that had been enqueued when
\* it polled has been downloaded or refused, although IsBusy reads two counters
\* one after the other.  Direct downloads distort the first of them.
WaitsForCrawl ==
    \A s \in Stoppers :
        at[s] \in {"cleanUp", "stopCrawler", "stopServer", "close"}
            /\ calls["Download"] = 0
        => counts.downloaded + skipped >= mark[s]

\* No stopper that returned found a crawler nothing had been enqueued at.
SawWork == \A s \in Stoppers : at[s] = "returned" => mark[s] > 0

\* Engine.Stop closes the queue of the crawler, which ignores a Stop before its
\* first worker runs (crawler.go:302-306): always in an engine that mirrors a URL;
\* in one that only listens, if an item had been counted when the stoppers polled.
\* If none had, Stop goes through and what a visitor enqueues then is crawled on.
StopClosesQueue ==
    /\ something = "closed"
    /\ calls["Download"] = 0
    /\ root # NoRoot \/ SawWork
    => started /\ ~queueOpen

\* Liveness: a call of Engine.Stop makes the engine stop, as long as what is
\* enqueued meanwhile is finite.
EngineStops ==
    (\E s \in Stoppers : at[s] \in StopLabels) ~> (something = "closed")

============================================================================
