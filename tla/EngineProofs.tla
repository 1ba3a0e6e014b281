---------------------------- MODULE EngineProofs ----------------------------
(* The engine uses the crawler as the crawler allows, and Engine.Stop waits *)
(* for the crawl: theorems for every value of the constants.  However often *)
(* Engine.Stop is called, one call cleans up: no channel is closed twice,   *)
(* and the crawler's queue is closed before Stop returns.                   *)
EXTENDS Engine, CrawlerCountsProofs, CrawlerStopProofs

engineVars == <<vars, engine>>

LEMMA EngineThreads ==
  /\ Main \in Callers /\ Ticker \in Callers
  /\ Visitors \subseteq Callers /\ Stoppers \subseteq Callers
  /\ Main \in Stoppers
  BY EngineAssumption

LEMMA EngineItems ==
  ASSUME NEW u \in URLs
  PROVE  Root(u) \in Seeds /\ Refresh(u) \in Seeds
  BY EngineAssumption

(***************************************************************************)
(* A step of the engine is a step of the crawler or none.                  *)
(***************************************************************************)

Known == MirrorOK /\ StopOK

LEMMA StepOfCrawler ==
  ASSUME Known, [EngineNext]_engineVars
  PROVE  [Next]_vars
<1>d. ASSUME NEW t \in Threads, Deliver(t) PROVE Next
  BY <1>d DEF Next, Work, Continue, EnqueueOrDownload, Threads
<1>1. ASSUME NEW t \in Threads, InCrawler(t) PROVE Next
  BY <1>1 DEF InCrawler, Next
<1>2. ASSUME NEW t \in Threads, OnDownloaded(t) PROVE [Next]_vars
  <2>1. CASE KeepCache(t)
    BY <1>d, <2>1 DEF KeepCache
  <2>2. CASE WriteCache(t)
    BY <2>2 DEF WriteCache
  <2>3. CASE Notify(t)
    BY <1>d, <2>3 DEF Notify
  <2> QED BY <1>2, <2>1, <2>2, <2>3 DEF OnDownloaded
<1>3. CASE Mirroring
  <2>1. CASE Mirror
    BY <2>1 DEF Mirror
  <2>2. CASE EnqueueRoot
    BY <2>2, EngineThreads, EngineItems DEF EnqueueRoot, Known, MirrorOK, Next, Call
  <2>3. CASE Listen
    BY <2>3 DEF Listen
  <2> QED BY <1>3, <2>1, <2>2, <2>3 DEF Mirroring
<1>4. CASE Tick
  BY <1>4 DEF Tick
<1>5. CASE EnqueuePending
  BY <1>5, EngineThreads, EngineItems DEF EnqueuePending, Known, MirrorOK, Next, Call
<1>6. ASSUME NEW v \in Visitors, NEW u \in URLs, VisitExpired(v, u) \/ VisitMissing(v, u)
      PROVE  Next
  BY <1>6, EngineThreads, EngineItems DEF VisitExpired, VisitMissing, Next, Call
<1>7. ASSUME NEW s \in Stoppers, StopEngine(s) \/ Stopping(s) PROVE [Next]_vars
  <2>1. CASE StopCrawler(s)
    BY <2>1, EngineThreads DEF StopCrawler, Next, Call
  <2>2. CASE ~StopCrawler(s)
    BY <1>7, <2>2 DEF StopEngine, Stopping, PollQueuing, PollDownloading, Pause,
                      CleanUp, StopServer, CloseSomething
  <2> QED BY <2>1, <2>2
<1>8. CASE UNCHANGED engineVars
  BY <1>8 DEF engineVars
<1> QED BY <1>1, <1>2, <1>3, <1>4, <1>5, <1>6, <1>7, <1>8 DEF EngineNext

LEMMA MirrorInit == EngineInit => MirrorOK /\ ServeOK /\ StopOK /\ WritingOK
<1> SUFFICES ASSUME EngineInit PROVE MirrorOK /\ ServeOK /\ StopOK /\ WritingOK
  OBVIOUS
<1> USE EngineAssumption DEF EngineInit
<1>1. MirrorOK
  BY DEF MirrorOK
<1>2. ServeOK
  BY DEF ServeOK
<1>3. StopOK
  BY DEF StopOK, MirrorLabels
<1>4. WritingOK
  BY DEF WritingOK
<1> QED BY <1>1, <1>2, <1>3, <1>4

\* A stopper's step leaves the mirrored urls alone and never leads back to Mirror.
LEMMA StopperTypes ==
  ASSUME TypeOK, MirrorOK, ServeOK, StopOK, NEW s \in Stoppers,
         StopEngine(s) \/ Stopping(s)
  PROVE  MirrorOK' /\ ServeOK' /\ StopOK'
<1>0. counts.enqueued \in Nat
  BY DEF TypeOK, CountersOK, Counters
<1>1. ASSUME NEW from, NEW to \in StopLabels, Step(s, from, to)
      PROVE  /\ MirrorOK'
             /\ at' \in [Stoppers -> StopLabels \cup MirrorLabels \cup {"running"}]
  <2>1. at' \in [Stoppers -> StopLabels \cup MirrorLabels \cup {"running"}]
    BY <1>1 DEF StopOK, Step, MoveTo
  <2>2. at'[Main] = at[Main] \/ at'[Main] \in StopLabels
    BY <1>1, EngineThreads DEF StopOK, Step, MoveTo
  <2> QED BY <1>1, <2>1, <2>2 DEF MirrorOK, Step, mirroring, StopLabels
<1> USE DEF StopLabels
<1>2. CASE StopEngine(s)
  BY <1>1, <1>2 DEF StopEngine, StopOK, ServeOK, serving
<1>3. CASE PollQueuing(s)
  BY <1>0, <1>1, <1>3 DEF PollQueuing, StopOK, ServeOK, serving
<1>4. CASE PollDownloading(s)
  BY <1>1, <1>4 DEF PollDownloading, StopOK, ServeOK, serving
<1>5. CASE Pause(s)
  BY <1>1, <1>5 DEF Pause, StopOK, ServeOK, serving
<1>6. CASE CleanUp(s)
  BY <1>1, <1>6 DEF CleanUp, StopOK, ServeOK, serving
<1>7. CASE StopCrawler(s)
  BY <1>1, <1>7 DEF StopCrawler, StopOK, ServeOK, serving
<1>8. CASE StopServer(s)
  BY <1>1, <1>8 DEF StopServer, StopOK, ServeOK
<1>9. CASE CloseSomething(s)
  BY <1>1, <1>9 DEF CloseSomething, StopOK, ServeOK, serving
<1> QED BY <1>2, <1>3, <1>4, <1>5, <1>6, <1>7, <1>8, <1>9 DEF Stopping

LEMMA EngineTypes ==
  ASSUME TypeOK, MirrorOK, ServeOK, StopOK, [EngineNext]_engineVars
  PROVE  MirrorOK' /\ ServeOK' /\ StopOK'
<1> USE DEF engine, mirroring, serving, stopping
<1>u. ASSUME UNCHANGED <<mirroring, serving, stopping>>
      PROVE  MirrorOK' /\ ServeOK' /\ StopOK'
  BY <1>u DEF MirrorOK, ServeOK, StopOK
<1>m. ASSUME NEW s \in Stoppers, NEW to, MoveTo(s, to),
             to \in StopLabels \cup MirrorLabels \cup {"running"}
      PROVE  /\ at' \in [Stoppers -> StopLabels \cup MirrorLabels \cup {"running"}]
             /\ at'[Main] = IF s = Main THEN to ELSE at[Main]
  BY <1>m, EngineThreads DEF MoveTo, StopOK
<1>1. ASSUME NEW t \in Threads, InCrawler(t) PROVE MirrorOK' /\ ServeOK' /\ StopOK'
  BY <1>1, <1>u DEF InCrawler
<1>2. ASSUME NEW t \in Threads, OnDownloaded(t) PROVE MirrorOK' /\ ServeOK' /\ StopOK'
  <2>1. CASE KeepCache(t) \/ WriteCache(t)
    BY <2>1, <1>u DEF KeepCache, WriteCache
  <2>2. CASE Notify(t)
    <3>1. UNCHANGED <<mirroring, serving, stopped, mark>>
      BY <2>2 DEF Notify
    <3>2. something' \in {"open", "closed", "panic"}
      BY <2>2 DEF Notify, StopOK
    <3>3. at' = at \/ \E s \in Stoppers : MoveTo(s, "poll")
      BY <2>2 DEF Notify, Waiting
    <3>4. CASE at' = at
      BY <3>1, <3>2, <3>4 DEF MirrorOK, ServeOK, StopOK
    <3>5. ASSUME NEW s \in Stoppers, MoveTo(s, "poll")
          PROVE  MirrorOK' /\ ServeOK' /\ StopOK'
      BY <1>m, <3>1, <3>2, <3>5 DEF MirrorOK, ServeOK, StopOK, StopLabels
    <3> QED BY <3>3, <3>4, <3>5
  <2> QED BY <1>2, <2>1, <2>2 DEF OnDownloaded
<1>3. CASE Mirroring
  <2>1. CASE Mirror
    <3>1. MoveTo(Main, "enqueue") /\ UNCHANGED <<pending, serving, stopped, something, mark>>
      BY <2>1 DEF Mirror
    <3>2. /\ toMirror' \subseteq URLs /\ root' \in URLs
          /\ autoEnqueueUrls' \subseteq URLs
          /\ ticking' \in {"unborn", "waiting", "ended"}
      BY <2>1 DEF Mirror, MirrorOK
    <3> QED BY <1>m, <3>1, <3>2, EngineThreads DEF MirrorLabels, MirrorOK, ServeOK, StopOK
  <2>2. CASE EnqueueRoot
    <3>1. MoveTo(Main, "listen") /\ UNCHANGED <<mirroring, serving, stopped, something, mark>>
      BY <2>2 DEF EnqueueRoot
    <3> QED BY <1>m, <3>1, EngineThreads DEF MirrorLabels, MirrorOK, ServeOK, StopOK
  <2>3. CASE Listen
    <3>1. /\ \E to \in {"running", "mirror"} : MoveTo(Main, to)
          /\ UNCHANGED <<mirroring, connected, stopped, something, mark>>
          /\ listeners' = listeners \cup {root}
      BY <2>3 DEF Listen
    <3> QED BY <1>m, <3>1, EngineThreads DEF MirrorLabels, MirrorOK, ServeOK, StopOK
  <2> QED BY <1>3, <2>1, <2>2, <2>3 DEF Mirroring
<1>4. CASE Tick
  BY <1>4 DEF Tick, MirrorOK, ServeOK, StopOK
<1>5. CASE EnqueuePending
  BY <1>5 DEF EnqueuePending, MirrorOK, ServeOK, StopOK
<1>6. ASSUME NEW v \in Visitors, NEW u \in URLs, VisitExpired(v, u) \/ VisitMissing(v, u)
      PROVE  MirrorOK' /\ ServeOK' /\ StopOK'
  BY <1>6 DEF VisitExpired, VisitMissing, Connect, MirrorOK, ServeOK, StopOK
<1>7. ASSUME NEW s \in Stoppers, StopEngine(s) \/ Stopping(s)
      PROVE  MirrorOK' /\ ServeOK' /\ StopOK'
  BY <1>7, StopperTypes
<1>8. CASE UNCHANGED engineVars
  BY <1>8, <1>u DEF engineVars
<1> QED BY <1>1, <1>2, <1>3, <1>4, <1>5, <1>6, <1>7, <1>8 DEF EngineNext

\* The engine's goroutines call the crawler as its API allows: every behaviour of
\* the engine is one of the crawler, and what is proved of crawler.go holds in it.
THEOREM EngineIsCrawler == EngineSpec => Spec
<1> DEFINE IKnown == TypeOK /\ MirrorOK /\ ServeOK /\ StopOK
<1>1. EngineInit => Init
  BY DEF EngineInit
<1>2. EngineInit => IKnown
  BY TypeInit, MirrorInit DEF EngineInit
<1>3. IKnown /\ [EngineNext]_engineVars => [Next]_vars
  BY StepOfCrawler DEF Known
<1>4. IKnown /\ [EngineNext]_engineVars => IKnown'
  BY StepOfCrawler, EngineTypes, TypeNext DEF Known
<1> QED BY <1>1, <1>2, <1>3, <1>4, PTL DEF EngineSpec, Spec, engineVars

(***************************************************************************)
(* The types.                                                              *)
(***************************************************************************)

\* What delivers goes on delivering while another thread moves.
LEMMA MoveLeavesDelivering ==
  ASSUME TypeOK, NEW t \in Threads, NEW to, Goto(t, to),
         NEW u \in Threads, u # t, pc[u] = "deliver"
  PROVE  pc'[u] = "deliver"
  BY DEF TypeOK, ProgramOK, Goto

LEMMA CallLeavesDelivering ==
  ASSUME Accounts, NEW c \in Callers, NEW u \in Threads, pc[u] = "deliver",
         \/ \E i \in Item : Enqueue(c, i) \/ Download(c, i)
         \/ Stop(c)
  PROVE  pc'[u] = "deliver"
<1>1. Ready(c, "idle") /\ c \in Threads /\ u # c
  BY DEF Enqueue, Download, Stop, Enter, Ready, Threads
<1>2. CASE \E i \in Item : Download(c, i)
  BY <1>1, <1>2, MoveLeavesDelivering DEF Download, Accounts
<1>3. CASE Stop(c)
  BY <1>1, <1>3, MoveLeavesDelivering DEF Stop, Accounts
<1>4. CASE \E i \in Item : Enqueue(c, i)
  <2>1. StartOnce(c, "count")
    BY <1>4 DEF Enqueue
  <2>2. CASE Goto(c, "count")
    BY <1>1, <2>2, MoveLeavesDelivering DEF Accounts
  <2>3. CASE ~Goto(c, "count")
    <3>1. u \notin Workers
      BY <2>1, <2>3 DEF StartOnce, Accounts, Unstarted
    <3>2. \E spawned \in SUBSET Workers :
             pc' = [t \in Threads |-> IF t = c THEN "count"
                                      ELSE IF t \in spawned THEN "born" ELSE pc[t]]
      BY <2>1, <2>3 DEF StartOnce
    <3> QED BY <1>1, <3>1, <3>2
  <2> QED BY <2>2, <2>3
<1> QED BY <1>2, <1>3, <1>4

LEMMA InsideLeavesDelivering ==
  ASSUME TypeOK, NEW t \in Threads, InCrawler(t), NEW u \in Threads, pc[u] = "deliver"
  PROVE  pc'[u] = "deliver"
<1>0. u # t
  BY DEF InCrawler
<1>m. ASSUME NEW to, Goto(t, to) PROVE pc'[u] = "deliver"
  BY <1>0, <1>m, MoveLeavesDelivering
<1>p. ASSUME UNCHANGED pc PROVE pc'[u] = "deliver"
  BY <1>p
<1>1. CASE EnqueueOrDownload(t)
  BY <1>1, <1>m, <1>p DEF EnqueueOrDownload, Count, Push, Snapshot, EnterDownloading,
      LeaveQueue, Decide, Fetch, LeaveDownloading, Deliver, SendOnClosed, Panic
<1>2. CASE t \in Workers /\ Work(t)
  BY <1>1, <1>2, <1>m, <1>p DEF Work, CountStarted, CountRunning, Take, Exit, FindLinks,
      AutoEnqueue, FinishItem
<1>3. CASE t \in Callers /\ Continue(t)
  <2>1. CASE CloseChannels(t) \/ SpawnDrainer(t)
    BY <2>1, <1>m, <1>p DEF CloseChannels, SpawnDrainer, Panic
  <2>2. CASE Receive(t)
    <3>1. CASE Goto(t, "idle")
      BY <3>1, <1>m
    <3>2. CASE \E s \in Senders : pc' = [pc EXCEPT ![s] = Resume(s), ![t] = "idle"]
      BY <1>0, <3>2 DEF Senders, At, TypeOK, ProgramOK
    <3> QED BY <2>2, <3>1, <3>2 DEF Receive
  <2> QED BY <1>1, <1>3, <2>1, <2>2 DEF Continue
<1> QED BY <1>2, <1>3 DEF InCrawler

LEMMA WritingNext ==
  ASSUME Accounts, MirrorOK, StopOK, WritingOK, [EngineNext]_engineVars
  PROVE  WritingOK'
<1> USE DEF engine, Accounts
<1>c. ASSUME NEW c \in Callers, UNCHANGED writing,
             \/ \E i \in Item : Enqueue(c, i) \/ Download(c, i)
             \/ Stop(c)
      PROVE  WritingOK'
  BY <1>c, CallLeavesDelivering DEF WritingOK
<1>s. \A u \in URLs : Root(u) \in Item /\ Refresh(u) \in Item
  BY DEF Root, Refresh, Item
<1>u. ASSUME UNCHANGED <<pc, writing>> PROVE WritingOK'
  BY <1>u DEF WritingOK
<1>1. ASSUME NEW t \in Threads, InCrawler(t) PROVE WritingOK'
  BY <1>1, InsideLeavesDelivering DEF InCrawler, WritingOK
<1>2. ASSUME NEW t \in Threads, OnDownloaded(t) PROVE WritingOK'
  <2>1. CASE WriteCache(t)
    BY <2>1 DEF WriteCache, WritingOK, Ready, vars
  <2>2. CASE KeepCache(t) \/ Notify(t)
    <3>1. \E to : Goto(t, to)
      BY <2>2 DEF KeepCache, Notify, Deliver
    <3>2. writing' = writing \ {t}
      BY <2>2 DEF KeepCache, Notify
    <3> QED BY <3>1, <3>2, MoveLeavesDelivering DEF WritingOK
  <2> QED BY <1>2, <2>1, <2>2 DEF OnDownloaded
<1>3. CASE Mirroring
  BY <1>3, <1>c, <1>s, <1>u, EngineThreads
     DEF Mirroring, Mirror, EnqueueRoot, Listen, MirrorOK, vars
<1>4. CASE Tick
  BY <1>4, <1>u DEF Tick, vars
<1>5. CASE EnqueuePending
  BY <1>5, <1>c, <1>s, EngineThreads DEF EnqueuePending, MirrorOK
<1>6. ASSUME NEW v \in Visitors, NEW u \in URLs, VisitExpired(v, u) \/ VisitMissing(v, u)
      PROVE  WritingOK'
  BY <1>6, <1>c, <1>s, EngineThreads DEF VisitExpired, VisitMissing, Connect
<1>7. ASSUME NEW s \in Stoppers, StopEngine(s) \/ Stopping(s) PROVE WritingOK'
  BY <1>7, <1>c, <1>u, EngineThreads
     DEF StopEngine, Stopping, PollQueuing, PollDownloading, Pause, CleanUp,
         StopCrawler, StopServer, CloseSomething, Step, vars
<1>8. CASE UNCHANGED engineVars
  BY <1>8, <1>u DEF engineVars, vars
<1> QED BY <1>1, <1>2, <1>3, <1>4, <1>5, <1>6, <1>7, <1>8 DEF EngineNext

\* Type correctness of engine.go's engine struct and of its goroutines, writes of the
\* cache included.
THEOREM EngineTypeCorrect == EngineSpec => []EngineTypeOK
<1> DEFINE ITypes == Accounts /\ EngineTypeOK
<1>1. EngineInit => ITypes
  BY AccountsInit, MirrorInit DEF EngineInit, EngineTypeOK
<1>2. ITypes /\ [EngineNext]_engineVars => ITypes'
  <2> SUFFICES ASSUME ITypes, [EngineNext]_engineVars PROVE ITypes'
    OBVIOUS
  <2>1. TypeOK /\ MirrorOK /\ ServeOK /\ StopOK /\ WritingOK
    BY DEF Accounts, EngineTypeOK
  <2>2. Accounts'
    BY <2>1, StepOfCrawler, AccountsNext DEF Known
  <2>3. MirrorOK' /\ ServeOK' /\ StopOK'
    BY <2>1, EngineTypes
  <2>4. WritingOK'
    BY <2>1, WritingNext
  <2> QED BY <2>2, <2>3, <2>4 DEF EngineTypeOK
<1> QED BY <1>1, <1>2, PTL DEF EngineSpec, engineVars

(***************************************************************************)
(* Stop waits for the crawl.                                               *)
(***************************************************************************)

\* enqueuedCount less queuingCount counts the items that left the queue.  Neither it
\* nor what came of these items ever becomes less.
LEMMA CrawlProceeds ==
  ASSUME TypeOK, [Next]_vars
  PROVE  /\ counts.enqueued - counts.queuing <= counts'.enqueued - counts'.queuing
         /\ counts.downloaded + skipped <= counts'.downloaded + skipped'
<1>t. counts \in Counters /\ skipped \in Nat
  BY DEF TypeOK, CountersOK
<1> USE DEF lifecycle, locals, history
<1>k. ASSUME UNCHANGED <<counts, skipped>>
      PROVE  /\ counts.enqueued - counts.queuing <= counts'.enqueued - counts'.queuing
             /\ counts.downloaded + skipped <= counts'.downloaded + skipped'
  BY <1>k, <1>t DEF Counters
<1>1. ASSUME NEW c \in Callers, Call(c) PROVE UNCHANGED <<counts, skipped>>
  BY <1>1 DEF Call, Start, Stop, Enqueue, Download, Downloaded, DownloadedNotBlocking,
      SetOnDownloaded, SetWorkerCount, Enter
<1>2. ASSUME NEW t \in Threads, EnqueueOrDownload(t)
      PROVE  /\ counts.enqueued - counts.queuing <= counts'.enqueued - counts'.queuing
             /\ counts.downloaded + skipped <= counts'.downloaded + skipped'
  <2>1. CASE Count(t)
    BY <2>1, <1>t DEF Count, Counters
  <2>2. CASE EnterDownloading(t)
    BY <2>2, <1>t DEF EnterDownloading, Counters
  <2>3. CASE LeaveQueue(t)
    BY <2>3, <1>t DEF LeaveQueue, Counters
  <2>4. CASE Decide(t)
    <3>1. counts' = counts /\ (skipped' = skipped \/ skipped' = skipped + 1)
      BY <2>4 DEF Decide
    <3> QED BY <3>1, <1>t DEF Counters
  <2>5. CASE Fetch(t)
    <3>1. counts' = [counts EXCEPT !.downloaded = @ + 1] /\ skipped' = skipped
      BY <2>5 DEF Fetch
    <3> QED BY <3>1, <1>t DEF Counters
  <2>6. CASE LeaveDownloading(t)
    BY <2>6, <1>t DEF LeaveDownloading, Counters
  <2>7. CASE Push(t) \/ Snapshot(t) \/ Deliver(t) \/ SendOnClosed(t)
    BY <2>7, <1>k DEF Push, Snapshot, Deliver, SendOnClosed, Panic
  <2> QED BY <1>2, <2>1, <2>2, <2>3, <2>4, <2>5, <2>6, <2>7 DEF EnqueueOrDownload
<1>3. ASSUME NEW c \in Callers, CloseChannels(c) \/ SpawnDrainer(c) \/ Receive(c)
      PROVE  UNCHANGED <<counts, skipped>>
  BY <1>3 DEF CloseChannels, SpawnDrainer, Receive, Panic
<1>4. ASSUME NEW w \in Workers, Work(w)
      PROVE  /\ counts.enqueued - counts.queuing <= counts'.enqueued - counts'.queuing
             /\ counts.downloaded + skipped <= counts'.downloaded + skipped'
  <2>1. CASE CountStarted(w)
    BY <2>1, <1>t DEF CountStarted, Counters
  <2>2. CASE CountRunning(w)
    BY <2>2, <1>t DEF CountRunning, Counters
  <2>3. CASE Exit(w)
    BY <2>3, <1>t DEF Exit, Counters
  <2>4. CASE FindLinks(w)
    BY <2>4, <1>t DEF FindLinks, Counters
  <2>5. CASE Take(w) \/ AutoEnqueue(w) \/ FinishItem(w)
    BY <2>5, <1>k DEF Take, AutoEnqueue, FinishItem
  <2>6. CASE EnqueueOrDownload(w)
    BY <2>6, <1>2 DEF Threads
  <2> QED BY <1>4, <2>1, <2>2, <2>3, <2>4, <2>5, <2>6 DEF Work
<1>5. CASE Drain
  BY <1>5, <1>k DEF Drain
<1>6. CASE UNCHANGED vars
  BY <1>6, <1>k DEF vars
<1>7. ASSUME NEW c \in Callers, Call(c) \/ Continue(c)
      PROVE  /\ counts.enqueued - counts.queuing <= counts'.enqueued - counts'.queuing
             /\ counts.downloaded + skipped <= counts'.downloaded + skipped'
  <2>1. CASE EnqueueOrDownload(c)
    BY <2>1, <1>2 DEF Threads
  <2>2. CASE ~EnqueueOrDownload(c)
    <3>1. UNCHANGED <<counts, skipped>>
      BY <1>1, <1>3, <1>7, <2>2 DEF Continue
    <3> QED BY <3>1, <1>k
  <2> QED BY <2>1, <2>2
<1>8. CASE Next
  BY <1>4, <1>5, <1>7, <1>8 DEF Next
<1> QED BY <1>6, <1>8

\* With nothing in downloadingCount, what left the queue is finished.
LEMMA NoneDownloading ==
  ASSUME Accounts, counts.downloading <= 0
  PROVE  counts.enqueued - counts.queuing <= counts.downloaded + skipped
<1>1. Sums
  BY SumsDefinition DEF Accounts
<1>2. /\ nQueue \in Nat /\ nQueuing \in Nat /\ nUnfinished \in Nat
      /\ nDownloading \in Nat /\ nDirect \in Nat /\ dropped \in Nat /\ skipped \in Nat
      /\ cEnqueued \in Nat /\ cQueuing \in Int /\ cDownloaded \in Nat
  BY SumTypes DEF Accounts
<1>3. nDownloading = 0
  BY <1>1, <1>2 DEF Sums, cDownloading
<1>4. Downloading = {}
  BY <1>3, AtFinite, FS_EmptySet DEF nDownloading, Downloading
<1>5. Unfinished \subseteq Queuing
  BY <1>4 DEF Unfinished, Queuing, Downloading, At
<1>6. nUnfinished <= nQueuing
  BY <1>5, AtFinite, FS_Subset DEF nUnfinished, nQueuing, Queuing
<1>7. cEnqueued - cQueuing <= cDownloaded + skipped
  BY <1>1, <1>2, <1>6 DEF Sums
<1> QED BY <1>7 DEF cEnqueued, cQueuing, cDownloaded

\* After its first load a stopper knows that what was enqueued left the queue, after
\* the second that it is finished.
Marks ==
    \A s \in Stoppers :
        /\ at[s] = "polled" => mark[s] <= counts.enqueued - counts.queuing
        /\ at[s] \in {"cleanUp", "stopCrawler", "stopServer", "close"}
               => mark[s] <= counts.downloaded + skipped

\* A stopper that stays where it is, or leaves the last load behind, keeps its mark.
LEMMA MarkKept ==
  ASSUME TypeOK, TypeOK', StopOK, Marks, [Next]_vars, NEW s \in Stoppers, mark'[s] = mark[s],
         \/ at'[s] = at[s]
         \/ /\ at[s] \in {"cleanUp", "stopCrawler", "stopServer", "close"}
            /\ at'[s] \in {"stopCrawler", "stopServer", "close"}
         \/ at'[s] \notin {"polled", "cleanUp", "stopCrawler", "stopServer", "close"}
  PROVE  /\ at'[s] = "polled" => mark'[s] <= counts'.enqueued - counts'.queuing
         /\ at'[s] \in {"cleanUp", "stopCrawler", "stopServer", "close"}
               => mark'[s] <= counts'.downloaded + skipped'
<1>1. /\ counts \in Counters /\ skipped \in Nat /\ mark[s] \in Nat
      /\ counts' \in Counters /\ skipped' \in Nat
  BY DEF TypeOK, CountersOK, StopOK
<1>2. /\ counts.enqueued - counts.queuing <= counts'.enqueued - counts'.queuing
      /\ counts.downloaded + skipped <= counts'.downloaded + skipped'
  BY CrawlProceeds
<1> QED BY <1>1, <1>2 DEF Marks, Counters

LEMMA MarksNext ==
  ASSUME Accounts, Accounts', MirrorOK, StopOK, Marks, [EngineNext]_engineVars
  PROVE  Marks'
<1>n. [Next]_vars
  BY StepOfCrawler DEF Known, Accounts
<1>t. TypeOK /\ TypeOK' /\ at \in [Stoppers -> StopLabels \cup MirrorLabels \cup {"running"}]
  BY DEF Accounts, StopOK
<1>k. ASSUME \A s \in Stoppers :
                /\ mark'[s] = mark[s]
                /\ \/ at'[s] = at[s]
                   \/ /\ at[s] \in {"cleanUp", "stopCrawler", "stopServer", "close"}
                      /\ at'[s] \in {"stopCrawler", "stopServer", "close"}
                   \/ at'[s] \notin {"polled", "cleanUp", "stopCrawler", "stopServer", "close"}
      PROVE  Marks'
  <2> SUFFICES ASSUME NEW s \in Stoppers
               PROVE  /\ at'[s] = "polled" => mark'[s] <= counts'.enqueued - counts'.queuing
                      /\ at'[s] \in {"cleanUp", "stopCrawler", "stopServer", "close"}
                            => mark'[s] <= counts'.downloaded + skipped'
    BY DEF Marks
  <2> QED BY <1>k, <1>n, <1>t, MarkKept
<1> USE DEF engine, stopping
<1>u. ASSUME UNCHANGED <<at, mark>> PROVE Marks'
  BY <1>k, <1>u
<1>m. ASSUME NEW s \in Stoppers, NEW to, MoveTo(s, to), UNCHANGED mark,
             to \notin {"polled", "cleanUp", "stopCrawler", "stopServer", "close"}
      PROVE  Marks'
  BY <1>k, <1>m, <1>t DEF MoveTo
<1>1. ASSUME NEW t \in Threads, InCrawler(t) PROVE Marks'
  BY <1>1, <1>u DEF InCrawler
<1>2. ASSUME NEW t \in Threads, OnDownloaded(t) PROVE Marks'
  BY <1>2, <1>u, <1>m DEF OnDownloaded, KeepCache, WriteCache, Notify, Waiting
<1>3. CASE Mirroring
  BY <1>3, <1>m, EngineThreads DEF Mirroring, Mirror, EnqueueRoot, Listen
<1>4. CASE Tick \/ EnqueuePending
  BY <1>4, <1>u DEF Tick, EnqueuePending
<1>5. ASSUME NEW v \in Visitors, NEW u \in URLs, VisitExpired(v, u) \/ VisitMissing(v, u)
      PROVE  Marks'
  BY <1>5, <1>u DEF VisitExpired, VisitMissing, Connect
<1>6. ASSUME NEW s \in Stoppers, StopEngine(s) \/ Stopping(s) PROVE Marks'
  <2>1. CASE StopEngine(s) \/ Pause(s) \/ CloseSomething(s)
    BY <2>1, <1>m DEF StopEngine, Pause, CloseSomething, Step
  <2>2. CASE PollQueuing(s)
    <3>1. /\ at' = [at EXCEPT ![s] = IF counts.queuing > 0 THEN "pause" ELSE "polled"]
          /\ mark' = [mark EXCEPT ![s] = counts.enqueued]
          /\ UNCHANGED vars
      BY <2>2 DEF PollQueuing, Step, MoveTo, Load
    <3>2. counts \in Counters /\ counts' = counts /\ skipped' = skipped
      BY <1>t, <3>1 DEF TypeOK, CountersOK, vars, history
    <3>3. mark \in [Stoppers -> Nat]
      BY DEF StopOK
    <3> QED BY <3>1, <3>2, <3>3, <1>t DEF Marks, Counters
  <2>3. CASE PollDownloading(s)
    <3>1. /\ at[s] = "polled"
          /\ at' = [at EXCEPT ![s] = IF counts.downloading > 0 THEN "pause" ELSE "cleanUp"]
          /\ UNCHANGED <<vars, mark>>
      BY <2>3 DEF PollDownloading, Step, MoveTo, Load
    <3>2. counts \in Counters /\ skipped \in Nat /\ counts' = counts /\ skipped' = skipped
      BY <1>t, <3>1 DEF TypeOK, CountersOK, vars, history
    <3>3. mark[s] <= counts.enqueued - counts.queuing /\ mark[s] \in Nat
      BY <3>1 DEF Marks, StopOK
    <3>4. CASE counts.downloading > 0
      BY <3>1, <3>4, <1>k, <1>t
    <3>5. CASE ~(counts.downloading > 0)
      <4>1. counts.enqueued - counts.queuing <= counts.downloaded + skipped
        BY <3>2, <3>5, NoneDownloading DEF Counters
      <4>2. mark[s] <= counts.downloaded + skipped
        BY <3>2, <3>3, <4>1 DEF Counters
      <4> QED BY <3>1, <3>2, <3>5, <4>2, <1>t DEF Marks
    <3> QED BY <3>4, <3>5
  <2>4. CASE CleanUp(s) \/ StopCrawler(s) \/ StopServer(s)
    <3>1. /\ at[s] \in {"cleanUp", "stopCrawler", "stopServer"}
          /\ \E to \in {"returned", "stopCrawler", "stopServer", "close"} :
                at' = [at EXCEPT ![s] = to]
          /\ mark' = mark
      BY <2>4 DEF CleanUp, StopCrawler, StopServer, Step, MoveTo
    <3> QED BY <3>1, <1>k, <1>t
  <2> QED BY <1>6, <2>1, <2>2, <2>3, <2>4 DEF Stopping
<1>7. CASE UNCHANGED engineVars
  BY <1>7, <1>u DEF engineVars
<1> QED BY <1>1, <1>2, <1>3, <1>4, <1>5, <1>6, <1>7 DEF EngineNext

\* The inductive invariant of a Stop that waits.
Waits == Accounts /\ MirrorOK /\ ServeOK /\ StopOK /\ Marks

LEMMA WaitsInvariant == EngineSpec => []Waits
<1>1. EngineInit => Waits
  <2> SUFFICES ASSUME EngineInit PROVE Waits
    OBVIOUS
  <2>1. Marks
    BY DEF EngineInit, Marks
  <2> QED BY <2>1, AccountsInit, MirrorInit DEF EngineInit, Waits
<1>2. Waits /\ [EngineNext]_engineVars => Waits'
  <2> SUFFICES ASSUME Waits, [EngineNext]_engineVars PROVE Waits'
    OBVIOUS
  <2>1. Accounts'
    BY StepOfCrawler, AccountsNext DEF Known, Waits, Accounts
  <2>2. MirrorOK' /\ ServeOK' /\ StopOK'
    BY EngineTypes DEF Accounts, Waits
  <2>3. Marks'
    BY <2>1, MarksNext DEF Waits
  <2> QED BY <2>1, <2>2, <2>3 DEF Waits
<1> QED BY <1>1, <1>2, PTL DEF EngineSpec, engineVars

\* When Engine.Stop goes on to clean up, what was enqueued when it polled has been
\* downloaded or refused, for any number of workers, visitors and calls:
\* WaitsForCrawl.
THEOREM StopWaitsForCrawl == EngineSpec => []WaitsForCrawl
<1>1. Waits => WaitsForCrawl
  <2> SUFFICES ASSUME Waits, NEW s \in Stoppers,
                      at[s] \in {"cleanUp", "stopCrawler", "stopServer", "close"}
               PROVE  counts.downloaded + skipped >= mark[s]
    BY DEF WaitsForCrawl
  <2>1. counts.downloaded \in Nat /\ skipped \in Nat /\ mark[s] \in Nat
    BY DEF Accounts, TypeOK, CountersOK, Counters, StopOK, Waits
  <2> QED BY <2>1 DEF Marks, Waits
<1> QED BY <1>1, WaitsInvariant, PTL

----------------------------------------------------------------------------
(* One of the stoppers cleans up.                                          *)

CleaningUp == {"stopCrawler", "stopServer", "close"}

Winners == {s \in Stoppers : at[s] \in CleaningUp}

\* The crawler's Stop is inside the winner's.
ClosesAtStop ==
    \A t \in Threads : pc[t] = "close" =>
        t \in Stoppers /\ at[t] = "stopServer" /\ output # "closed"

OneWinner ==
    /\ something # "panic"
    /\ \A s, u \in Winners : s = u
    /\ Winners # {} => stopped /\ something = "open"
    /\ ~stopped => something = "open" /\ output # "closed"
    /\ \A s \in Stoppers : at[s] = "stopCrawler" => output # "closed"
    /\ ClosesAtStop

\* What the engine knows of the crawler and of itself.
Context == PoolInv /\ CallbackSet /\ Known

LEMMA QuietStep ==
  ASSUME OneWinner, NoStop, UNCHANGED <<at, stopped, something>>
  PROVE  OneWinner'
BY DEF OneWinner, NoStop, ClosesAtStop, Winners

\* A stopper moves that does not clean up.
LEMMA QuietMoveTo ==
  ASSUME Known, OneWinner, NoStop, UNCHANGED <<stopped, something>>,
         NEW s \in Stoppers, NEW to, MoveTo(s, to), at[s] \notin CleaningUp, to \notin CleaningUp
  PROVE  OneWinner'
<1>1. \A u \in Stoppers : at'[u] \in CleaningUp => u # s /\ at'[u] = at[u]
  BY DEF Known, StopOK, MoveTo
<1>2. \A u \in Stoppers : at[u] \in CleaningUp => at'[u] = at[u]
  BY DEF Known, StopOK, MoveTo
<1>3. Winners' = Winners
  BY <1>1, <1>2 DEF Winners
<1>4. ClosesAtStop'
  BY <1>2 DEF OneWinner, ClosesAtStop, NoStop, CleaningUp
<1>5. \A u \in Stoppers : at'[u] = "stopCrawler" => at[u] = "stopCrawler"
  BY <1>1 DEF CleaningUp
<1> QED BY <1>3, <1>4, <1>5 DEF OneWinner, NoStop

\* vars do not change, so neither does anything of the crawler.
LEMMA QuietVars == ASSUME UNCHANGED vars PROVE NoStop
BY DEF vars, lifecycle, history, NoStop

LEMMA QuietCalls ==
  ASSUME Context, NEW c \in Callers, NEW i \in Seeds, Enqueue(c, i) \/ Download(c, i)
  PROVE  NoStop
<1>1. ~Stop(c)
  BY OtherCall DEF Context, PoolInv, Enqueue, Download, APINames
<1>2. Call(c)
  BY DEF Call
<1> QED BY <1>1, <1>2, NoStopCall DEF Context

LEMMA WinnerInCrawler ==
  ASSUME Context, OneWinner, NEW t \in Threads, InCrawler(t)
  PROVE  OneWinner'
<1> USE DEF engine, stopping
<1>1. CASE t \in Callers /\ CloseChannels(t)
  <2>1. pc[t] = "close" /\ t \in Stoppers /\ at[t] = "stopServer" /\ output # "closed"
    BY <1>1 DEF CloseChannels, Ready, OneWinner, ClosesAtStop
  <2>2. Goto(t, "idle") /\ output' = "closed"
    BY <1>1, <2>1 DEF CloseChannels
  <2>3. UNCHANGED <<at, stopped, something>>
    BY DEF InCrawler
  <2>4. t \in Winners /\ \A u \in Winners : u = t
    BY <2>1 DEF Winners, CleaningUp, OneWinner
  <2>5. \A u \in Threads : pc'[u] # "close"
    <3>1. pc \in [Threads -> WorkerLabels \cup CallerLabels]
      BY DEF Context, PoolInv, TypeOK, ProgramOK
    <3>2. \A u \in Threads : pc[u] = "close" => u \in Winners
      BY DEF OneWinner, ClosesAtStop, Winners, CleaningUp
    <3> QED BY <2>2, <2>4, <3>1, <3>2 DEF Goto
  <2>6. \A u \in Stoppers : at[u] # "stopCrawler"
    BY <2>1, <2>4 DEF Winners, CleaningUp
  <2>7. Winners' = Winners
    BY <2>3 DEF Winners
  <2> QED BY <2>3, <2>4, <2>5, <2>6, <2>7 DEF OneWinner, ClosesAtStop
<1>2. CASE ~(t \in Callers /\ CloseChannels(t))
  <2>1. NoStop
    BY <1>2, NoStopWork, NoStopContinue DEF InCrawler, Context, PoolInv
  <2> QED BY <2>1, QuietStep DEF InCrawler
<1> QED BY <1>1, <1>2

LEMMA WinnerDownloaded ==
  ASSUME Context, OneWinner, NEW t \in Threads, OnDownloaded(t)
  PROVE  OneWinner'
<1> USE DEF engine, stopping
<1>1. NoStop
  <2>1. CASE Deliver(t)
    BY <2>1, NoStopDownload DEF Context, PoolInv, EnqueueOrDownload
  <2> QED BY <2>1, QuietVars DEF OnDownloaded, KeepCache, WriteCache, Notify
<1>2. CASE KeepCache(t) \/ WriteCache(t)
  BY <1>1, <1>2, QuietStep DEF KeepCache, WriteCache
<1>3. CASE Notify(t)
  <2>1. UNCHANGED <<stopped, something>>
    BY <1>3 DEF Notify, MayNotify, OneWinner
  <2>2. UNCHANGED at \/ \E s \in Waiting : MoveTo(s, "poll")
    BY <1>3 DEF Notify
  <2>3. ASSUME NEW s \in Waiting, MoveTo(s, "poll") PROVE OneWinner'
    BY <1>1, <2>1, <2>3, QuietMoveTo DEF Waiting, CleaningUp, Context
  <2> QED BY <1>1, <2>1, <2>2, <2>3, QuietStep
<1> QED BY <1>2, <1>3 DEF OnDownloaded

LEMMA WinnerStops ==
  ASSUME Context, OneWinner, NEW s \in Stoppers, StopEngine(s) \/ Stopping(s)
  PROVE  OneWinner'
<1>t. /\ at \in [Stoppers -> StopLabels \cup MirrorLabels \cup {"running"}]
      /\ pc \in [Threads -> WorkerLabels \cup CallerLabels] /\ s \in Threads /\ s \in Callers
  BY EngineThreads DEF Context, Known, StopOK, PoolInv, TypeOK, ProgramOK, Threads
<1>w. ASSUME NEW to, MoveTo(s, to), s \in Winners
      PROVE  \A u \in Stoppers : (u # s => at[u] \notin CleaningUp) /\ at'[u] = IF u = s THEN to ELSE at[u]
  BY <1>t, <1>w DEF MoveTo, OneWinner, Winners
<1>1. CASE StopEngine(s) \/ PollQueuing(s) \/ PollDownloading(s) \/ Pause(s)
  <2>1. UNCHANGED <<vars, stopped, something>>
    BY <1>1 DEF StopEngine, PollQueuing, PollDownloading, Pause
  <2>2. at[s] \notin CleaningUp /\ \E to : MoveTo(s, to) /\ to \notin CleaningUp
    BY <1>1 DEF StopEngine, PollQueuing, PollDownloading, Pause, Step, CleaningUp
  <2> QED BY <2>1, <2>2, QuietVars, QuietMoveTo DEF Context
<1>2. CASE CleanUp(s)
  <2>1. UNCHANGED <<vars, something>> /\ stopped' /\ at[s] = "cleanUp" /\ NoStop
    BY <1>2, QuietVars DEF CleanUp, Step
  <2>2. CASE stopped
    <3>1. MoveTo(s, "returned") /\ UNCHANGED stopped
      BY <1>2, <2>1, <2>2 DEF CleanUp, Step, AlreadyStopped, Context, Known, StopOK
    <3> QED BY <2>1, <3>1, QuietMoveTo DEF CleaningUp, Context
  <2>3. CASE ~stopped
    <3>1. MoveTo(s, "stopCrawler")
      BY <1>2, <2>3 DEF CleanUp, Step, AlreadyStopped
    <3>2. Winners = {} /\ something = "open" /\ output # "closed"
      BY <2>3 DEF OneWinner
    <3>3. \A u \in Stoppers : u # s => at'[u] = at[u]
      BY <1>t, <3>1 DEF MoveTo
    <3>4. \A u \in Winners' : u = s
      BY <3>2, <3>3 DEF Winners
    <3>5. \A t \in Threads : pc[t] # "close"
      BY <3>2 DEF OneWinner, ClosesAtStop, Winners, CleaningUp
    <3>6. output' = output /\ pc' = pc /\ something' = something
      BY <2>1 DEF vars, lifecycle
    <3> QED BY <2>1, <3>2, <3>4, <3>5, <3>6 DEF OneWinner, ClosesAtStop
  <2> QED BY <2>2, <2>3
<1>3. CASE StopCrawler(s)
  <2>1. /\ MoveTo(s, "stopServer") /\ UNCHANGED <<stopped, something, output>>
        /\ at[s] = "stopCrawler" /\ \E label \in {"close", "idle"} : Goto(s, label)
    BY <1>3 DEF StopCrawler, Step, Stop, lifecycle
  <2>2. s \in Winners /\ output # "closed"
    BY <2>1 DEF Winners, CleaningUp, OneWinner
  <2>3. \A u \in Stoppers : (u # s => at[u] \notin CleaningUp) /\ at'[u] = IF u = s THEN "stopServer" ELSE at[u]
    BY <2>1, <2>2, <1>w
  <2>4. \A t \in Threads : pc'[t] = "close" => t = s
    <3>1. \A t \in Threads : t # s => pc[t] # "close"
      BY <2>3 DEF OneWinner, ClosesAtStop, CleaningUp
    <3> QED BY <1>t, <2>1, <3>1 DEF Goto
  <2>5. Winners' = {s}
    BY <2>3 DEF Winners, CleaningUp
  <2>6. stopped /\ something = "open"
    BY <2>2 DEF OneWinner
  <2> QED BY <2>1, <2>2, <2>3, <2>4, <2>5, <2>6 DEF OneWinner, ClosesAtStop, CleaningUp
<1>4. CASE StopServer(s)
  <2>1. /\ MoveTo(s, "close") /\ UNCHANGED <<vars, stopped, something>>
        /\ at[s] = "stopServer" /\ pc[s] = "idle"
    BY <1>4 DEF StopServer, Step
  <2>2. s \in Winners
    BY <2>1 DEF Winners, CleaningUp
  <2>3. \A u \in Stoppers : (u # s => at[u] \notin CleaningUp) /\ at'[u] = IF u = s THEN "close" ELSE at[u]
    BY <2>1, <2>2, <1>w
  <2>4. \A t \in Threads : pc[t] # "close"
    BY <2>1, <2>3 DEF OneWinner, ClosesAtStop, CleaningUp
  <2>5. Winners' = {s} /\ pc' = pc
    BY <2>1, <2>3 DEF Winners, CleaningUp, vars
  <2>6. stopped /\ something = "open"
    BY <2>2 DEF OneWinner
  <2> QED BY <2>1, <2>3, <2>4, <2>5, <2>6 DEF OneWinner, ClosesAtStop, CleaningUp
<1>5. CASE CloseSomething(s)
  <2>1. /\ MoveTo(s, "returned") /\ UNCHANGED <<vars, stopped>>
        /\ at[s] = "close"
    BY <1>5 DEF CloseSomething, Step
  <2>2. s \in Winners
    BY <2>1 DEF Winners, CleaningUp
  <2>3. \A u \in Stoppers : (u # s => at[u] \notin CleaningUp) /\ at'[u] = IF u = s THEN "returned" ELSE at[u]
    BY <2>1, <2>2, <1>w
  <2>4. \A t \in Threads : pc[t] # "close"
    BY <2>1, <2>3 DEF OneWinner, ClosesAtStop, CleaningUp
  <2>5. Winners' = {} /\ pc' = pc
    BY <2>1, <2>3 DEF Winners, CleaningUp, vars
  <2>6. stopped /\ something' = "closed"
    BY <1>5, <2>2 DEF CloseSomething, OneWinner
  <2> QED BY <2>1, <2>3, <2>4, <2>5, <2>6 DEF OneWinner, ClosesAtStop, CleaningUp
<1> QED BY <1>1, <1>2, <1>3, <1>4, <1>5 DEF Stopping

LEMMA OneWinnerNext ==
  ASSUME Context, OneWinner, [EngineNext]_engineVars
  PROVE  OneWinner'
<1> USE DEF engine, stopping
<1>1. CASE Mirroring
  <2>1. NoStop
    <3>1. CASE EnqueueRoot
      BY <3>1, QuietCalls, EngineThreads, EngineItems DEF EnqueueRoot, Context, Known, MirrorOK
    <3> QED BY <1>1, <3>1, QuietVars DEF Mirroring, Mirror, Listen
  <2>2. /\ UNCHANGED <<stopped, something>> /\ at[Main] \notin CleaningUp
        /\ \E to : MoveTo(Main, to) /\ to \notin CleaningUp
    BY <1>1 DEF Mirroring, Mirror, EnqueueRoot, Listen, CleaningUp
  <2> QED BY <2>1, <2>2, QuietMoveTo, EngineThreads DEF Context
<1>2. CASE Tick
  BY <1>2, QuietVars, QuietStep DEF Tick
<1>3. CASE EnqueuePending
  <2>1. NoStop
    BY <1>3, QuietCalls, EngineThreads, EngineItems DEF EnqueuePending, Context, Known, MirrorOK
  <2> QED BY <1>3, <2>1, QuietStep DEF EnqueuePending
<1>4. ASSUME NEW v \in Visitors, NEW u \in URLs, VisitExpired(v, u) \/ VisitMissing(v, u)
      PROVE  OneWinner'
  <2>1. NoStop
    BY <1>4, QuietCalls, EngineThreads, EngineItems DEF VisitExpired, VisitMissing
  <2> QED BY <1>4, <2>1, QuietStep DEF VisitExpired, VisitMissing, Connect
<1>5. CASE UNCHANGED engineVars
  BY <1>5, QuietVars, QuietStep DEF engineVars
<1> QED BY <1>1, <1>2, <1>3, <1>4, <1>5, WinnerInCrawler, WinnerDownloaded, WinnerStops
        DEF EngineNext

LEMMA EngineContext == EngineSpec => []Context
<1>1. EngineInit => TypeOK /\ MirrorOK /\ ServeOK /\ StopOK
  BY TypeInit, MirrorInit DEF EngineInit
<1>2. /\ TypeOK /\ MirrorOK /\ ServeOK /\ StopOK /\ [EngineNext]_engineVars
      => (TypeOK /\ MirrorOK /\ ServeOK /\ StopOK)'
  BY EngineTypes, StepOfCrawler, TypeNext DEF Known
<1>3. EngineSpec => [](MirrorOK /\ StopOK)
  BY <1>1, <1>2, PTL DEF EngineSpec, engineVars
<1>4. InitialCallback
  BY EngineAssumption
<1> QED BY <1>3, <1>4, EngineIsCrawler, PoolInvariant, CallbackInvariant, PTL DEF Context, Known

LEMMA WinnerInvariant == EngineSpec => [](OneWinner /\ NoPanic)
<1> DEFINE IStops == OneWinner /\ NoPanic
<1>1. EngineInit => IStops
  <2> SUFFICES ASSUME EngineInit PROVE IStops
    OBVIOUS
  <2>1. Winners = {}
    BY DEF EngineInit, Winners, CleaningUp
  <2>2. ClosesAtStop
    BY ThreadsAssumption DEF EngineInit, Init, ClosesAtStop, Threads
  <2> QED BY <2>1, <2>2 DEF EngineInit, Init, OneWinner, NoPanic
<1>2. Context /\ IStops /\ [EngineNext]_engineVars => IStops'
  <2> SUFFICES ASSUME Context, IStops, [EngineNext]_engineVars PROVE IStops'
    OBVIOUS
  <2>1. [Next]_vars
    BY StepOfCrawler DEF Context, PoolInv
  <2>2. NoPanic'
    BY <2>1, PanicCauses DEF Context, NoPanic, OneWinner, ClosesAtStop, CallbackSet
  <2> QED BY <2>2, OneWinnerNext
<1> QED BY <1>1, <1>2, EngineContext, PTL DEF EngineSpec, engineVars

\* However many goroutines call Engine.Stop, however late a download ends: no channel
\* of engine.go or crawler.go is closed twice and nothing is sent on a closed one.
THEOREM EngineDoesNotPanic == EngineSpec => []EngineNoPanic
<1>1. OneWinner /\ NoPanic => EngineNoPanic
  BY DEF OneWinner, NoPanic, EngineNoPanic
<1> QED BY <1>1, WinnerInvariant, PTL

----------------------------------------------------------------------------
(* Stop closes the queue of the crawler.                                   *)

\* Nobody calls Stop before Main has enqueued its roots, so every stopper that polled
\* saw one enqueued, if there was one.
Mirrored ==
    /\ at[Main] \in MirrorLabels => \A s \in Stoppers : at[s] \notin StopLabels
    /\ at[Main] = "listen" => pc[Main] = "count" \/ counts.enqueued > 0
    /\ root # NoRoot =>
          /\ at[Main] \notin MirrorLabels => counts.enqueued > 0
          /\ \A s \in Stoppers : at[s] \in {"polled", "cleanUp"} \cup CleaningUp => mark[s] > 0

\* From the crawler's Stop on its queue is closed or about to be, unless the stopper
\* had seen nothing enqueued.
QueueClosed ==
    calls["Download"] = 0 =>
        /\ \A s \in Stoppers : at[s] = "stopServer" /\ mark[s] > 0
                               => pc[s] = "close" \/ output = "closed"
        /\ \A s \in Stoppers : at[s] = "close" /\ mark[s] > 0 => output = "closed"
        /\ something = "closed" =>
              output = "closed" \/ (root = NoRoot /\ ~SawWork)

LEMMA MirroredKept ==
  ASSUME Context, Mirrored, [Next]_vars, UNCHANGED <<at, mark, root>>
  PROVE  Mirrored'
<1>1. counts.enqueued > 0 => counts'.enqueued > 0
  BY EnqueuedKept DEF Context, PoolInv
<1>2. pc[Main] = "count" => pc'[Main] = "count" \/ counts'.enqueued > 0
  BY CountStays, EngineThreads DEF Context, PoolInv
<1> QED BY <1>1, <1>2 DEF Mirrored

\* A stopper inside Stop moves.
LEMMA MirroredMove ==
  ASSUME Context, Mirrored, [Next]_vars, UNCHANGED <<mark, root>>,
         NEW s \in Stoppers, NEW to \in StopLabels, MoveTo(s, to), at[s] \in StopLabels,
         to \in {"polled", "cleanUp"} \cup CleaningUp
             => at[s] \in {"polled", "cleanUp"} \cup CleaningUp
  PROVE  Mirrored'
<1>1. \A u \in Stoppers : at'[u] = IF u = s THEN to ELSE at[u]
  BY DEF Context, Known, StopOK, MoveTo
<1>2. at[Main] \notin MirrorLabels /\ at'[Main] \notin MirrorLabels
  BY <1>1, EngineThreads DEF Mirrored, MirrorLabels, StopLabels
<1>3. root # NoRoot => counts'.enqueued > 0
  BY <1>2, EnqueuedKept DEF Context, PoolInv, Mirrored
<1> QED BY <1>1, <1>2, <1>3 DEF Mirrored, MirrorLabels

LEMMA MirroredStops ==
  ASSUME Context, Mirrored, [Next]_vars, NEW s \in Stoppers, StopEngine(s) \/ Stopping(s)
  PROVE  Mirrored'
<1>t. at \in [Stoppers -> StopLabels \cup MirrorLabels \cup {"running"}]
      /\ mark \in [Stoppers -> Nat]
  BY DEF Context, Known, StopOK
<1>r. root' = root
  BY DEF StopEngine, Stopping, PollQueuing, PollDownloading, Pause, CleanUp, StopCrawler,
         StopServer, CloseSomething, Step, mirroring
<1>1. CASE StopEngine(s)
  <2>1. /\ \E to \in {"poll", "returned"} : MoveTo(s, to)
        /\ at[Main] \notin MirrorLabels /\ UNCHANGED mark
    BY <1>1 DEF StopEngine, Step
  <2>2. root # NoRoot => counts'.enqueued > 0
    BY <2>1, EnqueuedKept DEF Context, PoolInv, Mirrored
  <2>3. \A u \in Stoppers : at'[u] = at[u] \/ at'[u] \in {"poll", "returned"}
    BY <1>t, <2>1 DEF MoveTo
  <2>4. at'[Main] \notin MirrorLabels
    BY <2>1, <2>3, EngineThreads DEF MirrorLabels
  <2> QED BY <1>r, <2>1, <2>2, <2>3, <2>4 DEF Mirrored, CleaningUp, MirrorLabels
<1>2. CASE PollQueuing(s)
  <2>1. /\ at[s] = "poll" /\ \E to \in {"pause", "polled"} : MoveTo(s, to)
        /\ mark' = [mark EXCEPT ![s] = counts.enqueued] /\ counts' = counts
    BY <1>2 DEF PollQueuing, Step, vars
  <2>2. at[Main] \notin MirrorLabels /\ (root # NoRoot => counts.enqueued > 0)
    BY <2>1 DEF Mirrored, StopLabels
  <2>3. \A u \in Stoppers : u # s => at'[u] = at[u] /\ mark'[u] = mark[u]
    BY <1>t, <2>1 DEF MoveTo
  <2>4. root # NoRoot => mark'[s] > 0
    BY <1>t, <2>1, <2>2
  <2>5. at'[Main] \notin MirrorLabels
    BY <1>t, <2>1, <2>2, <2>3, EngineThreads DEF MoveTo, MirrorLabels
  <2> QED BY <1>r, <2>1, <2>2, <2>3, <2>4, <2>5 DEF Mirrored, MirrorLabels
<1>3. CASE \E from, to \in StopLabels :
             /\ Step(s, from, to) /\ UNCHANGED mark
             /\ to \in {"polled", "cleanUp"} \cup CleaningUp
                    => from \in {"polled", "cleanUp"} \cup CleaningUp
  BY <1>3, <1>r, MirroredMove DEF Step
<1> QED BY <1>1, <1>2, <1>3 DEF Stopping, PollDownloading, Pause, CleanUp, StopCrawler,
        StopServer, CloseSomething, StopLabels, CleaningUp

LEMMA MirroredMirroring ==
  ASSUME Context, Mirrored, [Next]_vars, Mirroring
  PROVE  Mirrored'
<1>t. /\ at \in [Stoppers -> StopLabels \cup MirrorLabels \cup {"running"}]
      /\ pc \in [Threads -> WorkerLabels \cup CallerLabels] /\ Main \in Stoppers /\ Main \in Threads
  BY EngineThreads DEF Context, Known, StopOK, PoolInv, TypeOK, ProgramOK, Threads
<1>1. counts.enqueued > 0 => counts'.enqueued > 0
  BY EnqueuedKept DEF Context, PoolInv
<1>2. at[Main] \in MirrorLabels
  BY DEF Mirroring, Mirror, EnqueueRoot, Listen, MirrorLabels
<1>m. ASSUME NEW to \in MirrorLabels \cup {"running"}, MoveTo(Main, to),
             to = "listen" => pc'[Main] = "count",
             to = "running" => counts.enqueued > 0
      PROVE  Mirrored'
  <2>1. \A u \in Stoppers : at'[u] = IF u = Main THEN to ELSE at[u]
    BY <1>m, <1>t DEF MoveTo
  <2>2. \A u \in Stoppers : at'[u] \notin StopLabels
    BY <1>2, <1>m, <2>1 DEF Mirrored, StopLabels, MirrorLabels
  <2>3. at'[Main] = to
    BY <1>t, <2>1
  <2> QED BY <1>1, <1>m, <2>2, <2>3 DEF Mirrored, StopLabels, MirrorLabels, CleaningUp
<1>3. CASE Mirror
  BY <1>3, <1>m DEF Mirror, MirrorLabels
<1>4. CASE EnqueueRoot
  <2>1. StartOnce(Main, "count")
    BY <1>4 DEF EnqueueRoot, Enqueue
  <2>2. pc'[Main] = "count"
    BY <1>t, <2>1 DEF StartOnce, Goto
  <2> QED BY <1>4, <1>m, <2>2 DEF EnqueueRoot, MirrorLabels
<1>5. CASE Listen
  <2>1. counts.enqueued > 0
    BY <1>5 DEF Listen, Ready, Mirrored
  <2> QED BY <1>5, <1>m, <2>1 DEF Listen, MirrorLabels
<1> QED BY <1>3, <1>4, <1>5 DEF Mirroring

LEMMA MirroredNext ==
  ASSUME Context, Mirrored, [EngineNext]_engineVars
  PROVE  Mirrored'
<1>n. [Next]_vars
  BY StepOfCrawler DEF Context, PoolInv
<1>u. ASSUME UNCHANGED <<at, mark, root>> PROVE Mirrored'
  BY <1>n, <1>u, MirroredKept
<1> USE DEF engine, stopping, mirroring
<1>1. ASSUME NEW t \in Threads, InCrawler(t) \/ OnDownloaded(t) PROVE Mirrored'
  <2>1. CASE UNCHANGED <<at, mark, root>>
    BY <1>u, <2>1
  <2>2. ASSUME NEW s \in Waiting, MoveTo(s, "poll"), UNCHANGED <<mark, root>> PROVE Mirrored'
    BY <1>n, <2>2, MirroredMove DEF Waiting, StopLabels, CleaningUp
  <2> QED BY <1>1, <2>1, <2>2 DEF InCrawler, OnDownloaded, KeepCache, WriteCache, Notify
<1>2. CASE Tick \/ EnqueuePending
  BY <1>2, <1>u DEF Tick, EnqueuePending
<1>3. ASSUME NEW v \in Visitors, NEW u \in URLs, VisitExpired(v, u) \/ VisitMissing(v, u)
      PROVE  Mirrored'
  BY <1>3, <1>u DEF VisitExpired, VisitMissing, Connect
<1>4. CASE UNCHANGED engineVars
  BY <1>4, <1>u DEF engineVars
<1> QED BY <1>n, <1>1, <1>2, <1>3, <1>4, MirroredStops, MirroredMirroring DEF EngineNext

\* All there is to know.
StopContext == Context /\ Waits /\ Worked /\ OneWinner /\ Mirrored

\* A stopper that stays, or goes to a place that QueueClosed does not speak of.
LEMMA QueueClosedKept ==
  ASSUME StopContext, QueueClosed, [Next]_vars, UNCHANGED something,
         root' = root \/ at[Main] \in MirrorLabels,
         \A s \in Stoppers :
            \/ at'[s] = at[s] /\ mark'[s] = mark[s]
            \/ at[s] # "returned" /\ at'[s] \notin {"stopServer", "close"}
  PROVE  QueueClosed'
<1>1. output = "closed" => output' = "closed"
  BY ChannelSteps DEF StopContext, Context, PoolInv, Lifecycle, Opens, Closes
<1>2. \A s \in Stoppers : pc[s] = "close" => pc'[s] = "close" \/ output' = "closed"
  BY CloseStays, EngineThreads DEF StopContext, Context, PoolInv
<1>3. calls'["Download"] = 0 => calls["Download"] = 0
  BY ProceedsNext DEF StopContext, Context, Proceeds
<1>4. ~SawWork => ~SawWork' /\ root' = root
  <2>1. SUFFICES ASSUME NEW s \in Stoppers, at[s] = "returned", ~(mark[s] > 0)
                 PROVE  ~SawWork' /\ root' = root
    BY DEF SawWork
  <2>2. at[Main] \notin MirrorLabels
    BY <2>1 DEF StopContext, Mirrored, StopLabels
  <2> QED BY <2>1, <2>2 DEF SawWork
<1> QED BY <1>1, <1>2, <1>3, <1>4 DEF QueueClosed

LEMMA QueueClosedStops ==
  ASSUME StopContext, QueueClosed, [Next]_vars, NEW s \in Stoppers,
         StopCrawler(s) \/ StopServer(s) \/ CloseSomething(s)
  PROVE  QueueClosed'
<1>t. /\ at \in [Stoppers -> StopLabels \cup MirrorLabels \cup {"running"}]
      /\ pc \in [Threads -> WorkerLabels \cup CallerLabels] /\ s \in Threads
  BY EngineThreads DEF StopContext, Context, Known, StopOK, PoolInv, TypeOK, ProgramOK, Threads
<1>d. calls'["Download"] = 0 => calls["Download"] = 0
  BY ProceedsNext DEF StopContext, Context, Proceeds
<1>r. root' = root
  BY DEF StopCrawler, StopServer, CloseSomething, Step, mirroring
<1>s. \A u \in Stoppers : u # s => at[u] \notin CleaningUp
  <2>1. s \in Winners
    BY DEF StopCrawler, StopServer, CloseSomething, Step, Winners, CleaningUp
  <2> QED BY <2>1 DEF StopContext, OneWinner, Winners
<1>m. ASSUME NEW to, MoveTo(s, to) PROVE \A u \in Stoppers : at'[u] = IF u = s THEN to ELSE at[u]
  BY <1>m, <1>t DEF MoveTo
<1> SUFFICES ASSUME calls'["Download"] = 0 PROVE QueueClosed'
  BY DEF QueueClosed
<1>c. output = "closed" => output' = "closed"
  BY ChannelSteps DEF StopContext, Context, PoolInv, Lifecycle, Opens, Closes
<1>1. CASE StopCrawler(s)
  <2>1. /\ at[s] = "stopCrawler" /\ MoveTo(s, "stopServer") /\ Stop(s)
        /\ UNCHANGED <<something, mark>>
    BY <1>1 DEF StopCrawler, Step
  <2>2. something = "open" /\ output # "closed"
    BY <2>1 DEF StopContext, OneWinner, Winners, CleaningUp
  <2>3. ASSUME mark[s] > 0 PROVE counts.downloaded + skipped > 0
    <3>1. mark[s] > 0 /\ mark[s] <= counts.downloaded + skipped
      BY <2>1, <2>3 DEF StopContext, CleaningUp, Waits, Marks
    <3>2. mark[s] \in Nat /\ counts.downloaded \in Nat /\ skipped \in Nat
      BY DEF StopContext, Waits, StopOK, Accounts, TypeOK, CountersOK, Counters
    <3> QED BY <3>1, <3>2
  <2>4. ASSUME mark[s] > 0 PROVE pc'[s] = "close"
    <3>1. HasStarted /\ IsRunning
      BY <1>d, <2>2, <2>3, <2>4, StopFindsRunning DEF StopContext, Waits, Context, PoolInv
    <3> QED BY <1>t, <2>1, <3>1 DEF Stop, HasStopped, Goto
  <2> QED BY <1>m, <1>r, <1>s, <2>1, <2>2, <2>4 DEF QueueClosed, CleaningUp
<1>2. CASE StopServer(s)
  <2>1. /\ at[s] = "stopServer" /\ pc[s] = "idle" /\ MoveTo(s, "close")
        /\ UNCHANGED <<vars, something, mark>>
    BY <1>2 DEF StopServer, Step
  <2>2. mark[s] > 0 => output' = "closed"
    BY <1>d, <2>1 DEF QueueClosed, vars, lifecycle
  <2>3. something # "closed"
    BY <2>1 DEF StopContext, OneWinner, Winners, CleaningUp
  <2> QED BY <1>m, <1>r, <1>s, <2>1, <2>2, <2>3 DEF QueueClosed, CleaningUp
<1>3. CASE CloseSomething(s)
  <2>1. at[s] = "close" /\ MoveTo(s, "returned") /\ UNCHANGED <<vars, mark>>
    BY <1>3 DEF CloseSomething, Step
  <2>2. mark[s] > 0 => output' = "closed"
    BY <1>d, <2>1 DEF QueueClosed, vars, lifecycle
  <2>3. root # NoRoot => mark[s] > 0
    BY <2>1 DEF StopContext, Mirrored, CleaningUp
  <2>4. mark[s] > 0 \/ ~SawWork'
    BY <1>m, <2>1 DEF SawWork
  <2> QED BY <1>m, <1>r, <1>s, <2>1, <2>2, <2>3, <2>4 DEF QueueClosed, CleaningUp
<1> QED BY <1>1, <1>2, <1>3

LEMMA QueueClosedNext ==
  ASSUME StopContext, QueueClosed, [EngineNext]_engineVars
  PROVE  QueueClosed'
<1>n. [Next]_vars
  BY StepOfCrawler DEF StopContext, Context, PoolInv
<1>t. at \in [Stoppers -> StopLabels \cup MirrorLabels \cup {"running"}]
  BY DEF StopContext, Context, Known, StopOK
<1>u. ASSUME UNCHANGED <<at, something, mark, root>> PROVE QueueClosed'
  BY <1>n, <1>u, QueueClosedKept
<1>m. ASSUME NEW s \in Stoppers, NEW to, MoveTo(s, to), to \notin {"stopServer", "close"},
             at[s] # "returned", UNCHANGED something,
             root' = root \/ at[Main] \in MirrorLabels,
             \A u \in Stoppers : u # s => mark'[u] = mark[u]
      PROVE  QueueClosed'
  <2>1. \A u \in Stoppers :
           \/ at'[u] = at[u] /\ mark'[u] = mark[u]
           \/ at[u] # "returned" /\ at'[u] \notin {"stopServer", "close"}
    BY <1>m, <1>t DEF MoveTo
  <2> QED BY <1>m, <1>n, <2>1, QueueClosedKept
<1> USE DEF engine, stopping, mirroring
<1>1. ASSUME NEW t \in Threads, InCrawler(t) \/ OnDownloaded(t) PROVE QueueClosed'
  <2>1. UNCHANGED something
    BY <1>1 DEF InCrawler, OnDownloaded, KeepCache, WriteCache, Notify, MayNotify,
                StopContext, OneWinner
  <2>2. /\ UNCHANGED <<mark, root>>
        /\ UNCHANGED at \/ \E s \in Stoppers : at[s] = "pause" /\ MoveTo(s, "poll")
    BY <1>1 DEF InCrawler, OnDownloaded, KeepCache, WriteCache, Notify, Waiting
  <2> QED BY <1>m, <1>u, <2>1, <2>2
<1>2. CASE Mirroring
  BY <1>2, <1>m, EngineThreads DEF Mirroring, Mirror, EnqueueRoot, Listen, MirrorLabels
<1>3. CASE Tick \/ EnqueuePending
  BY <1>3, <1>u DEF Tick, EnqueuePending
<1>4. ASSUME NEW v \in Visitors, NEW u \in URLs, VisitExpired(v, u) \/ VisitMissing(v, u)
      PROVE  QueueClosed'
  BY <1>4, <1>u DEF VisitExpired, VisitMissing, Connect
<1>5. ASSUME NEW s \in Stoppers, StopEngine(s) \/ Stopping(s) PROVE QueueClosed'
  <2>1. CASE StopCrawler(s) \/ StopServer(s) \/ CloseSomething(s)
    BY <1>n, <2>1, QueueClosedStops
  <2>2. CASE StopEngine(s) \/ PollQueuing(s) \/ PollDownloading(s) \/ Pause(s) \/ CleanUp(s)
    <3>1. /\ UNCHANGED <<something, root>> /\ at[s] # "returned"
          /\ \E to : MoveTo(s, to) /\ to \notin {"stopServer", "close"}
      BY <2>2 DEF StopEngine, PollQueuing, PollDownloading, Pause, CleanUp, Step
    <3>2. \A u \in Stoppers : u # s => mark'[u] = mark[u]
      BY <2>2 DEF StopEngine, PollQueuing, PollDownloading, Pause, CleanUp,
                  StopContext, Context, Known, StopOK
    <3> QED BY <1>m, <3>1, <3>2
  <2> QED BY <1>5, <2>1, <2>2 DEF Stopping
<1>6. CASE UNCHANGED engineVars
  BY <1>6, <1>u DEF engineVars
<1> QED BY <1>1, <1>2, <1>3, <1>4, <1>5, <1>6 DEF EngineNext

\* Engine.Stop closes the queue of the crawler, although the crawler ignores a Stop
\* that finds no worker running: every Stop that saw an item enqueued waits for a
\* download first.  Every one does in an engine that mirrors a URL; one that only
\* listens may stop before a visitor's item is counted, and then this says nothing.
THEOREM StopStopsCrawler == EngineSpec => []StopClosesQueue
<1>1. EngineInit => Mirrored /\ QueueClosed
  <2> SUFFICES ASSUME EngineInit PROVE Mirrored /\ QueueClosed
    OBVIOUS
  <2>1. /\ \A s \in Stoppers : at[s] \in {"mirror", "running"}
        /\ something = "open" /\ root = NoRoot
    BY DEF EngineInit
  <2> QED BY <2>1, EngineThreads DEF Mirrored, QueueClosed, StopLabels, CleaningUp
<1>2. Context /\ Mirrored /\ [EngineNext]_engineVars => Mirrored'
  BY MirroredNext
<1>3. StopContext /\ QueueClosed /\ [EngineNext]_engineVars => QueueClosed'
  BY QueueClosedNext
<1>4. StopContext /\ QueueClosed => StopClosesQueue
  BY DEF StopContext, Context, PoolInv, Lifecycle, QueueClosed, StopClosesQueue
<1> QED BY <1>1, <1>2, <1>3, <1>4, EngineContext, WaitsInvariant, EngineIsCrawler,
           WorkedInvariant, WinnerInvariant, PTL DEF EngineSpec, engineVars, StopContext

=============================================================================
