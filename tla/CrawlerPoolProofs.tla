------------------------- MODULE CrawlerPoolProofs -------------------------
(* The crawler implements the pool of WorkPool, for every value of the     *)
(* constants.  On the way: a crawl stays in scope, and the queue is        *)
(* drained before workers leave.                                           *)
EXTENDS CrawlerPool, CrawlerCountsProofs

----------------------------------------------------------------------------
(* The inductive invariant.                                                *)

\* Start makes the channels, and Stop closes both.
Lifecycle ==
    /\ started <=> output # "nil"
    /\ queueOpen <=> output = "open"

\* What is queued, held or about to be enqueued; links are never forced.
Scope ==
    /\ queue \in Seq(InScopeItems)
    /\ \A t \in Threads : item[t] \in InScopeItems \cup {NoItem}
    /\ \A t \in Threads : \A l \in links[t] : l.force = FALSE
    /\ \A t \in Threads : todo[t] \subseteq InScopeItems

PoolInv ==
    /\ TypeOK /\ Unstarted
    /\ Lifecycle
    /\ Scope
    /\ DrainedBeforeExit

LEMMA PoolInvInit == Init => PoolInv
<1> SUFFICES ASSUME Init PROVE PoolInv
  OBVIOUS
<1>1. TypeOK
  BY TypeInit
<1>2. Unstarted
  BY ThreadsAssumption DEF Init, Unstarted, Threads
<1>3. Lifecycle
  BY DEF Init, Lifecycle
<1>4. Scope
  BY DEF Init, Scope
<1>5. DrainedBeforeExit
  BY ThreadsAssumption DEF Init, DrainedBeforeExit, At, Threads
<1> QED BY <1>1, <1>2, <1>3, <1>4, <1>5 DEF PoolInv

----------------------------------------------------------------------------
(* What the actions do to the channels.                                    *)

\* Start, Stop, or none of both.
Opens ==
    ~started /\ started' /\ queueOpen' /\ output' = "open"

Closes ==
    output = "open" /\ ~queueOpen' /\ output' = "closed" /\ UNCHANGED started

LEMMA ChannelSteps ==
  ASSUME [Next]_vars, TypeOK
  PROVE  Opens \/ Closes \/ UNCHANGED <<started, queueOpen, output>>
<1> USE DEF lifecycle, Opens, Closes
<1>1. ASSUME NEW c \in Callers, Call(c)
      PROVE  Opens \/ UNCHANGED <<started, queueOpen, output>>
  BY <1>1 DEF Call, Start, Stop, Enqueue, Download, Downloaded, DownloadedNotBlocking,
              SetOnDownloaded, SetWorkerCount, StartOnce, TypeOK, FlagsOK
<1>2. ASSUME NEW t \in Threads, EnqueueOrDownload(t)
      PROVE  UNCHANGED <<started, queueOpen, output>>
  BY <1>2 DEF EnqueueOrDownload, Count, Push, Snapshot, EnterDownloading, LeaveQueue, Decide,
              Fetch, LeaveDownloading, Deliver, SendOnClosed, Panic
<1>3. ASSUME NEW c \in Callers, Continue(c)
      PROVE  Closes \/ UNCHANGED <<started, queueOpen, output>>
  BY <1>2, <1>3 DEF Continue, CloseChannels, SpawnDrainer, Receive, Panic, Threads, TypeOK, FlagsOK
<1>4. ASSUME NEW w \in Workers, Work(w)
      PROVE  UNCHANGED <<started, queueOpen, output>>
  BY <1>2, <1>4 DEF Work, CountStarted, CountRunning, Take, Exit, FindLinks, AutoEnqueue,
                    FinishItem, Threads
<1>5. CASE Drain
  BY <1>5 DEF Drain
<1>6. CASE UNCHANGED vars
  BY <1>6 DEF vars
<1> QED BY <1>1, <1>3, <1>4, <1>5, <1>6 DEF Next

LEMMA LifecycleNext == PoolInv /\ [Next]_vars => Lifecycle'
<1> SUFFICES ASSUME PoolInv, [Next]_vars PROVE Lifecycle'
  OBVIOUS
<1>1. Opens \/ Closes \/ UNCHANGED <<started, queueOpen, output>>
  BY ChannelSteps DEF PoolInv
<1> QED BY <1>1 DEF PoolInv, Lifecycle, Opens, Closes

----------------------------------------------------------------------------
(* Scope.                                                                  *)

LEMMA FoundInScope ==
  ASSUME NEW l \in Item, l.force = FALSE, InScope(l)
  PROVE  l \in InScopeItems
<1>1. l.depth \in 0 .. AutoDownloadDepth
  BY ParametersAssumption DEF Item, InScope
<1>2. l \in [url : ShouldQueue, depth : 0 .. AutoDownloadDepth, force : {FALSE}]
  BY <1>1 DEF Item, InScope
<1> QED BY <1>2 DEF InScopeItems

LEMMA LinksNotForced ==
  ASSUME NEW i, NEW l \in AssetItems(i) \cup PageItems(i)
  PROVE  l.force = FALSE
BY DEF AssetItems, PageItems

LEMMA ScopeEnqueueOrDownload ==
  ASSUME PoolInv, NEW t \in Threads, EnqueueOrDownload(t)
  PROVE  Scope'
<1> USE DEF locals
<1>t. LocalsOK /\ Scope
  BY DEF PoolInv, TypeOK
<1>1. CASE Push(t)
  <2>1. item[t] \in InScopeItems
    BY <1>1, <1>t, ParametersAssumption DEF Push, Ready, LocalsOK, Holding, At, Scope
  <2>2. queue' \in Seq(InScopeItems)
    BY <1>1, <1>t, <2>1 DEF Push, Scope
  <2> QED BY <1>1, <1>t, <2>2 DEF Push, Scope, LocalsOK
<1>2. CASE Decide(t)
  BY <1>2, <1>t DEF Decide, Scope, LocalsOK
<1>3. CASE Fetch(t)
  <2>1. \A l \in links'[t] : l.force = FALSE
    <3>1. links'[t] \subseteq AssetItems(item[t]) \cup PageItems(item[t])
      BY <1>3, <1>t DEF Fetch, LocalsOK
    <3> QED BY <3>1, LinksNotForced
  <2>2. \A s \in Threads : s # t => links'[s] = links[s]
    BY <1>3, <1>t DEF Fetch, LocalsOK
  <2> QED BY <1>3, <1>t, <2>1, <2>2 DEF Fetch, Scope, LocalsOK
<1>4. CASE UNCHANGED <<queue, item, links, todo>>
  BY <1>4, <1>t DEF Scope
<1>5. Push(t) \/ Decide(t) \/ Fetch(t) \/ UNCHANGED <<queue, item, links, todo>>
  BY DEF EnqueueOrDownload, Count, Snapshot, EnterDownloading, LeaveQueue, LeaveDownloading,
         Deliver, SendOnClosed, Panic
<1> QED BY <1>1, <1>2, <1>3, <1>4, <1>5

LEMMA ScopeWork ==
  ASSUME PoolInv, NEW w \in Workers, Work(w)
  PROVE  Scope'
<1> USE DEF locals
<1>t. LocalsOK /\ ChannelsOK /\ Scope /\ w \in Threads
  BY DEF PoolInv, TypeOK, Threads
<1>1. CASE Take(w)
  <2>1. Head(queue) \in InScopeItems /\ queue' \in Seq(InScopeItems)
    BY <1>1, <1>t DEF Take, Scope
  <2> QED BY <1>1, <1>t, <2>1 DEF Take, Scope, LocalsOK
<1>2. CASE FindLinks(w)
  <2>1. NextLinks(w) \subseteq links[w] /\ links[w] \subseteq Item
    BY <1>t DEF NextLinks, LocalsOK
  <2>2. todo'[w] \subseteq InScopeItems
    <3>1. todo'[w] = {l \in NextLinks(w) : InScope(l)}
      BY <1>2, <1>t DEF FindLinks, LocalsOK
    <3> QED BY <1>t, <2>1, <3>1, FoundInScope DEF Scope
  <2>3. links'[w] \subseteq links[w]
    BY <1>2, <1>t DEF FindLinks, LocalsOK
  <2> QED BY <1>2, <1>t, <2>2, <2>3 DEF FindLinks, Scope, LocalsOK
<1>3. CASE AutoEnqueue(w)
  BY <1>3, <1>t DEF AutoEnqueue, Scope, LocalsOK
<1>4. CASE EnqueueOrDownload(w)
  BY <1>4, <1>t, ScopeEnqueueOrDownload
<1>5. CASE UNCHANGED <<queue, item, links, todo>>
  BY <1>5, <1>t DEF Scope
<1> QED BY <1>1, <1>2, <1>3, <1>4, <1>5
        DEF Work, CountStarted, CountRunning, Exit, FinishItem

LEMMA ScopeNext == PoolInv /\ [Next]_vars => Scope'
<1> SUFFICES ASSUME PoolInv, [Next]_vars PROVE Scope'
  OBVIOUS
<1> USE DEF locals
<1>t. LocalsOK /\ Scope
  BY DEF PoolInv, TypeOK
<1>0. ASSUME UNCHANGED <<queue, item, links, todo>> PROVE Scope'
  BY <1>0, <1>t DEF Scope
<1>1. ASSUME NEW c \in Callers, Call(c) PROVE Scope'
  <2>1. ASSUME NEW i \in Seeds, Enqueue(c, i) \/ Download(c, i) PROVE Scope'
    BY <1>t, <2>1 DEF Enqueue, Download, Scope, LocalsOK, InScopeItems, Threads
  <2> QED BY <1>0, <1>1, <2>1 DEF Call, Start, Stop, Downloaded, DownloadedNotBlocking,
                                  SetOnDownloaded, SetWorkerCount
<1>2. ASSUME NEW c \in Callers, Continue(c) PROVE Scope'
  <2>1. EnqueueOrDownload(c) \/ UNCHANGED <<queue, item, links, todo>>
    BY <1>2 DEF Continue, CloseChannels, SpawnDrainer, Receive, Panic
  <2> QED BY <1>0, <2>1, ScopeEnqueueOrDownload DEF Threads
<1>3. ASSUME NEW w \in Workers, Work(w) PROVE Scope'
  BY <1>3, ScopeWork
<1>4. CASE Drain
  BY <1>0, <1>4 DEF Drain
<1>5. CASE UNCHANGED vars
  BY <1>0, <1>5 DEF vars
<1> QED BY <1>1, <1>2, <1>3, <1>4, <1>5 DEF Next

----------------------------------------------------------------------------
(* The end of the queue.                                                   *)

LEMMA DrainedNext == PoolInv /\ [Next]_vars => DrainedBeforeExit'
<1> SUFFICES ASSUME PoolInv, [Next]_vars PROVE DrainedBeforeExit'
  OBVIOUS
<1>t. ProgramOK /\ ChannelsOK /\ Lifecycle /\ DrainedBeforeExit
  BY DEF PoolInv, TypeOK
<1> DEFINE Gone == \E t \in Threads : pc[t] = "exited"
           Empty == queue = <<>> /\ ~queueOpen /\ output = "closed"
<1>d. DrainedBeforeExit <=> (Gone => Empty)
  BY DEF DrainedBeforeExit, At
<1>p. DrainedBeforeExit' <=> (Gone => Empty)'
  BY DEF DrainedBeforeExit, At
<1>g. ASSUME NEW t \in Threads, NEW label, label # "exited", Goto(t, label)
      PROVE  Gone' => Gone
  BY <1>t, <1>g DEF Goto, ProgramOK
<1>c. ASSUME Empty, queue' = queue PROVE Empty'
  <2>1. Opens \/ Closes \/ UNCHANGED <<started, queueOpen, output>>
    BY ChannelSteps DEF PoolInv
  <2> QED BY <1>c, <1>t, <2>1 DEF Opens, Closes, Lifecycle
<1>k. ASSUME Gone' => Gone, queue' = queue PROVE DrainedBeforeExit'
  BY <1>k, <1>t, <1>d, <1>p, <1>c
<1> HIDE DEF Gone, Empty
<1>1. ASSUME NEW c \in Callers, Call(c) PROVE DrainedBeforeExit'
  <2>1. queue' = queue
    BY <1>1 DEF Call, Start, Stop, Enqueue, Download, Downloaded, DownloadedNotBlocking,
                SetOnDownloaded, SetWorkerCount, lifecycle
  <2>2. ASSUME NEW next, next # "exited", StartOnce(c, next) PROVE Gone' => Gone
    BY <1>t, <2>2 DEF StartOnce, Goto, ProgramOK, Gone, Threads
  <2>3. Gone' => Gone
    BY <1>1, <1>g, <2>2 DEF Call, Start, Stop, Enqueue, Download, Downloaded,
         DownloadedNotBlocking, SetOnDownloaded, SetWorkerCount, Threads, Gone
  <2> QED BY <1>k, <2>1, <2>3
<1>2. ASSUME NEW t \in Threads, EnqueueOrDownload(t) PROVE DrainedBeforeExit'
  <2>1. Gone' => Gone
    <3>1. UNCHANGED pc \/ \E label : label # "exited" /\ Goto(t, label)
      BY <1>2 DEF EnqueueOrDownload, Count, Push, Snapshot, EnterDownloading, LeaveQueue,
           Decide, Fetch, LeaveDownloading, Deliver, SendOnClosed, Panic, Resume
    <3> QED BY <1>g, <3>1 DEF Gone
  <2>2. CASE queue' = queue
    BY <1>k, <2>1, <2>2
  <2>3. CASE queue' # queue
    <3>1. queueOpen
      BY <1>2, <2>3 DEF EnqueueOrDownload, Count, Push, Snapshot, EnterDownloading,
           LeaveQueue, Decide, Fetch, LeaveDownloading, Deliver, SendOnClosed, Panic, MaySend
    <3> QED BY <1>t, <1>d, <1>p, <2>1, <3>1 DEF Empty
  <2> QED BY <2>2, <2>3
<1>3. ASSUME NEW c \in Callers, Continue(c) PROVE DrainedBeforeExit'
  <2>1. CASE EnqueueOrDownload(c)
    BY <1>2, <2>1 DEF Threads
  <2>2. CASE CloseChannels(c) \/ SpawnDrainer(c)
    BY <1>g, <1>k, <2>2 DEF CloseChannels, SpawnDrainer, Panic, Threads, Gone
  <2>3. CASE Receive(c)
    <3>1. Gone' => Gone
      BY <1>t, <2>3 DEF Receive, Goto, Resume, Senders, At, ProgramOK, Gone, Threads
    <3> QED BY <1>k, <2>3, <3>1 DEF Receive
  <2> QED BY <1>3, <2>1, <2>2, <2>3 DEF Continue
<1>4. ASSUME NEW w \in Workers, Work(w) PROVE DrainedBeforeExit'
  <2>w. w \in Threads
    BY DEF Threads
  <2>1. CASE EnqueueOrDownload(w)
    BY <1>2, <2>1, <2>w
  <2>2. CASE CountStarted(w) \/ CountRunning(w) \/ FindLinks(w) \/ AutoEnqueue(w) \/ FinishItem(w)
    BY <1>g, <1>k, <2>2, <2>w DEF CountStarted, CountRunning, FindLinks, AutoEnqueue, FinishItem, Gone
  <2>3. CASE Take(w)
    <3>1. ~Gone /\ ~Gone'
      BY <1>t, <1>d, <1>g, <2>3, <2>w DEF Take, Empty
    <3> QED BY <1>p, <3>1
  <2>4. CASE Exit(w)
    <3>1. Empty'
      BY <1>t, <2>4 DEF Exit, EndOfQueue, Lifecycle, lifecycle, Empty
    <3> QED BY <1>p, <3>1
  <2> QED BY <1>4, <2>1, <2>2, <2>3, <2>4 DEF Work
<1>5. CASE Drain
  <2>1. Gone' => Gone
    BY <1>t, <1>5 DEF Drain, Goto, Resume, Senders, At, ProgramOK, Gone
  <2> QED BY <1>5, <1>k, <2>1 DEF Drain
<1>6. CASE UNCHANGED vars
  BY <1>6, <1>k DEF vars, Gone
<1> QED BY <1>1, <1>3, <1>4, <1>5, <1>6 DEF Next

LEMMA PoolInvNext == PoolInv /\ [Next]_vars => PoolInv'
BY TypeNext, UnstartedNext, LifecycleNext, ScopeNext, DrainedNext DEF PoolInv

LEMMA PoolInvariant == Spec => []PoolInv
BY PoolInvInit, PoolInvNext, PTL DEF Spec

\* Workers leave an empty, closed queue behind: see DrainedBeforeExit in Crawler.
THEOREM QueueIsDrained == Spec => []DrainedBeforeExit
<1>1. PoolInv => DrainedBeforeExit
  BY DEF PoolInv
<1> QED BY <1>1, PoolInvariant, PTL

\* Whatever a goroutine holds and whatever is queued is a seed or within the depth
\* limit and what onURLShouldQueue accepts: see CrawlInScope in Crawler.
THEOREM CrawlStaysInScope == Spec => []CrawlInScope
<1>1. PoolInv => CrawlInScope
  <2> SUFFICES ASSUME PoolInv PROVE CrawlInScope
    OBVIOUS
  <2>s. Scope
    BY DEF PoolInv
  <2>1. ASSUME NEW i \in InScopeItems, i \notin Seeds
        PROVE  i.depth <= AutoDownloadDepth /\ i.url \in ShouldQueue
    <3>1. i \in [url : ShouldQueue, depth : 0 .. AutoDownloadDepth, force : {FALSE}]
      BY <2>1 DEF InScopeItems
    <3>2. i.depth \in 0 .. AutoDownloadDepth /\ i.url \in ShouldQueue
      BY <3>1
    <3> QED BY <3>2, ParametersAssumption
  <2>2. \A k \in 1 .. Len(queue) : queue[k] \in InScopeItems
    BY <2>s DEF Scope
  <2>3. \A t \in Threads : item[t] # NoItem => item[t] \in InScopeItems
    BY <2>s DEF Scope
  <2> QED BY <2>1, <2>2, <2>3 DEF CrawlInScope
<1> QED BY <1>1, PoolInvariant, PTL

----------------------------------------------------------------------------
(* The refinement: how moves of goroutines look in the pool.               *)

LEMMA StateIs ==
  ASSUME ChannelsOK
  PROVE  /\ PoolState = "broken" <=> panicked
         /\ PoolState = "new" <=> ~panicked /\ output = "nil"
         /\ PoolState = "open" <=> ~panicked /\ output = "open"
         /\ PoolState = "closed" <=> ~panicked /\ output = "closed"
BY DEF ChannelsOK, PoolState

\* A worker moves, the others and what they hold stay.
LEMMA WorkerMoves ==
  ASSUME ProgramOK, NEW w \in Workers, NEW label, Goto(w, label),
         \A v \in Workers : v # w => item'[v] = item[v]
  PROVE  /\ PoolStage' = [PoolStage EXCEPT ![w] = StageAt(label)]
         /\ PoolHold' = [PoolHold EXCEPT ![w] = IF StageAt(label) = "working"
                                                 THEN item'[w] ELSE NoItem]
<1>1. \A v \in Workers : pc'[v] = IF v = w THEN label ELSE pc[v]
  BY DEF ProgramOK, Goto, Threads
<1>2. PoolStage' = [v \in Workers |-> IF v = w THEN StageAt(label) ELSE StageAt(pc[v])]
  BY <1>1 DEF PoolStage
<1>3. PoolStage' = [PoolStage EXCEPT ![w] = StageAt(label)]
  BY <1>2 DEF PoolStage
<1>4. PoolHold' = [v \in Workers |-> IF PoolStage'[v] = "working" THEN item'[v] ELSE NoItem]
  BY DEF PoolHold
<1>5. \A v \in Workers : PoolHold'[v] =
         IF v = w THEN IF StageAt(label) = "working" THEN item'[w] ELSE NoItem
         ELSE IF PoolStage[v] = "working" THEN item[v] ELSE NoItem
  BY <1>2, <1>4 DEF PoolStage
<1>6. PoolHold' = [PoolHold EXCEPT ![w] = IF StageAt(label) = "working"
                                          THEN item'[w] ELSE NoItem]
  BY <1>4, <1>5 DEF PoolHold
<1> QED BY <1>3, <1>6

\* Workers stay at their stages with what they hold.
LEMMA Quiet ==
  ASSUME \A v \in Workers : StageAt(pc'[v]) = StageAt(pc[v]),
         \A v \in Workers : StageAt(pc[v]) = "working" => item'[v] = item[v]
  PROVE  UNCHANGED <<PoolStage, PoolHold>>
<1>1. PoolStage' = PoolStage
  BY DEF PoolStage
<1>2. PoolHold' = PoolHold
  BY <1>1 DEF PoolHold, PoolStage
<1> QED BY <1>1, <1>2

\* A worker moves within its stage, or a caller moves.
LEMMA QuietMove ==
  ASSUME ProgramOK, NEW t \in Threads, NEW label, Goto(t, label),
         t \in Workers => StageAt(label) = StageAt(pc[t]),
         \A v \in Workers : v = t \/ item'[v] = item[v],
         t \in Workers /\ StageAt(pc[t]) = "working" => item'[t] = item[t]
  PROVE  UNCHANGED <<PoolStage, PoolHold>>
<1>1. \A v \in Workers : pc'[v] = IF v = t THEN label ELSE pc[v]
  BY DEF ProgramOK, Goto, Threads
<1>2. \A v \in Workers : StageAt(pc'[v]) = StageAt(pc[v])
  BY <1>1
<1>3. \A v \in Workers : StageAt(pc[v]) = "working" => item'[v] = item[v]
  OBVIOUS
<1> QED BY <1>2, <1>3, Quiet

LEMMA StateStays == UNCHANGED <<output, panicked>> => UNCHANGED PoolState
BY DEF PoolState

LEMMA PanicBreaks ==
  ASSUME ChannelsOK, ~panicked, Panic
  PROVE  Pool!Break
<1>1. PoolState # "broken"
  BY StateIs
<1>2. PoolState' = "broken"
  BY DEF Panic, PoolState
<1>3. UNCHANGED <<queue, pc, item>>
  BY DEF Panic, locals
<1>4. UNCHANGED <<PoolStage, PoolHold>>
  BY <1>3 DEF PoolStage, PoolHold
<1> QED BY <1>1, <1>2, <1>3, <1>4 DEF Pool!Break

----------------------------------------------------------------------------
(* Every step is one of the pool or leaves the pool as it is.              *)

LEMMA StartOpens ==
  ASSUME PoolInv, ~panicked, NEW c \in Callers, NEW next, StartOnce(c, next),
         pc[c] = "idle", queue' = queue, \A w \in Workers : item'[w] = item[w]
  PROVE  [Pool!Next]_(Pool!vars)
<1>t. ProgramOK /\ ChannelsOK /\ CountersOK /\ Unstarted /\ Lifecycle /\ c \notin Workers
  BY ThreadsAssumption DEF PoolInv, TypeOK
<1>1. CASE started
  <2>1. Goto(c, next) /\ UNCHANGED <<output, panicked>>
    BY <1>1 DEF StartOnce
  <2>2. UNCHANGED <<PoolStage, PoolHold>>
    BY <1>t, <2>1, QuietMove DEF Threads
  <2> QED BY <2>1, <2>2, StateStays DEF Pool!vars
<1>2. CASE ~started
  <2>1. PICK spawned \in SUBSET Workers :
          /\ Cardinality(spawned) = workerCount
          /\ pc' = [t \in Threads |-> IF t = c THEN next
                                       ELSE IF t \in spawned THEN "born" ELSE pc[t]]
    BY <1>2 DEF StartOnce
  <2>2. spawned # {}
    <3>1. workerCount \in 1 .. Cardinality(Workers) /\ Cardinality(Workers) \in Nat
      BY <1>t, ThreadsAssumption, FS_CardinalityType DEF CountersOK
    <3>2. workerCount # 0
      BY <3>1
    <3>3. Cardinality({}) = 0
      BY FS_EmptySet
    <3> QED BY <2>1, <3>2, <3>3
  <2>3. \A w \in Workers : pc'[w] = IF w \in spawned THEN "born" ELSE pc[w]
    BY <1>t, <2>1 DEF Threads
  <2>4. PoolState = "new" /\ PoolState' = "open"
    BY <1>2, <1>t DEF StartOnce, Lifecycle, PoolState
  <2>5. PoolStage' = [w \in Workers |-> IF w \in spawned THEN "idle" ELSE PoolStage[w]]
    BY <2>3 DEF PoolStage, StageAt
  <2>6. \A w \in Workers : pc[w] = "unborn"
    BY <1>2, <1>t DEF Unstarted
  <2>7. \A w \in Workers : PoolStage[w] # "working" /\ PoolStage'[w] # "working"
    BY <2>5, <2>6 DEF PoolStage, StageAt
  <2>8. PoolHold' = PoolHold
    BY <2>7 DEF PoolHold
  <2>9. Pool!Open(spawned)
    BY <2>2, <2>4, <2>5, <2>8 DEF Pool!Open
  <2> QED BY <2>9 DEF Pool!Next
<1> QED BY <1>1, <1>2

LEMMA CallStep ==
  ASSUME PoolInv, NEW c \in Callers, Call(c)
  PROVE  [Pool!Next]_(Pool!vars)
<1>t. ProgramOK /\ LocalsOK /\ c \notin Workers /\ c \in Threads
  BY ThreadsAssumption DEF PoolInv, TypeOK, Threads
<1>1. ~panicked /\ pc[c] = "idle" /\ queue' = queue
  BY DEF Call, Start, Stop, Enqueue, Download, Downloaded, DownloadedNotBlocking,
         SetOnDownloaded, SetWorkerCount, Enter, Ready, lifecycle
<1>2. \A w \in Workers : item'[w] = item[w]
  <2>1. CASE \E i \in Seeds : Enqueue(c, i) \/ Download(c, i)
    <3>1. PICK i : item' = [item EXCEPT ![c] = i]
      BY <2>1 DEF Enqueue, Download
    <3> QED BY <1>t, <3>1 DEF LocalsOK
  <2>2. CASE item' = item
    BY <2>2
  <2> QED BY <2>1, <2>2 DEF Call, Start, Stop, Downloaded, DownloadedNotBlocking,
             SetOnDownloaded, SetWorkerCount, locals
<1>3. \/ \E next : StartOnce(c, next)
      \/ UNCHANGED <<output, panicked>> /\ \E label : Goto(c, label)
      \/ UNCHANGED <<output, panicked, pc>>
  <2>1. CASE Start(c) \/ Downloaded(c) \/ \E i \in Seeds : Enqueue(c, i)
    BY <2>1 DEF Start, Downloaded, Enqueue
  <2>2. CASE Stop(c) \/ DownloadedNotBlocking(c) \/ \E i \in Seeds : Download(c, i)
    BY <2>2 DEF Stop, DownloadedNotBlocking, Download, lifecycle
  <2>3. CASE SetOnDownloaded(c) \/ \E count \in 0 .. Cardinality(Workers) : SetWorkerCount(c, count)
    BY <2>3 DEF SetOnDownloaded, SetWorkerCount
  <2> QED BY <2>1, <2>2, <2>3 DEF Call
<1>4. CASE \E next : StartOnce(c, next)
  BY <1>1, <1>2, <1>4, StartOpens
<1>5. CASE UNCHANGED <<output, panicked>> /\ \E label : Goto(c, label)
  <2>1. PICK label : Goto(c, label)
    BY <1>5
  <2>2. UNCHANGED <<PoolStage, PoolHold>>
    BY <1>2, <1>t, <2>1, QuietMove
  <2> QED BY <1>1, <1>5, <2>2, StateStays DEF Pool!vars
<1>6. CASE UNCHANGED <<output, panicked, pc>>
  <2>1. UNCHANGED <<PoolStage, PoolHold>>
    BY <1>2, <1>6, Quiet
  <2> QED BY <1>1, <1>6, <2>1, StateStays DEF Pool!vars
<1> QED BY <1>3, <1>4, <1>5, <1>6

LEMMA PushStep ==
  ASSUME PoolInv, NEW t \in Threads, Push(t)
  PROVE  [Pool!Next]_(Pool!vars)
<1>t. ProgramOK /\ ChannelsOK /\ LocalsOK /\ Lifecycle /\ Scope
  BY DEF PoolInv, TypeOK
<1>1. UNCHANGED <<PoolStage, PoolHold>>
  <2>1. Goto(t, Resume(t)) /\ pc[t] = "push"
    BY DEF Push, Ready
  <2>2. t \in Workers => StageAt(Resume(t)) = StageAt(pc[t]) /\ StageAt(pc[t]) # "working"
    BY <2>1 DEF Resume, StageAt
  <2>3. \A v \in Workers : v = t \/ item'[v] = item[v]
    BY <1>t DEF Push, LocalsOK, Threads
  <2> QED BY <1>t, <2>1, <2>2, <2>3, QuietMove
<1>2. CASE MaySend
  <2>1. PoolState = "open" /\ PoolState' = "open"
    BY <1>2, <1>t DEF Push, Ready, MaySend, Lifecycle, PoolState
  <2>2. item[t] \in InScopeItems /\ queue' = Append(queue, item[t])
    BY <1>2, <1>t, ParametersAssumption DEF Push, Ready, LocalsOK, Holding, At, Scope
  <2>3. Pool!Accept(item[t])
    BY <1>1, <2>1, <2>2 DEF Pool!Accept
  <2> QED BY <2>2, <2>3 DEF Pool!Next
<1>3. CASE ~MaySend
  BY <1>1, <1>3, StateStays DEF Push, Pool!vars
<1> QED BY <1>2, <1>3

LEMMA EnqueueOrDownloadStep ==
  ASSUME PoolInv, NEW t \in Threads, EnqueueOrDownload(t)
  PROVE  [Pool!Next]_(Pool!vars)
<1> USE DEF locals, lifecycle, Ready
<1>t. ProgramOK /\ ChannelsOK /\ LocalsOK
  BY DEF PoolInv, TypeOK
<1>q. ASSUME UNCHANGED <<output, panicked, queue>>, UNCHANGED <<PoolStage, PoolHold>>
      PROVE  [Pool!Next]_(Pool!vars)
  BY <1>q, StateStays DEF Pool!vars
<1>1. CASE Push(t)
  BY <1>1, PushStep
<1>2. CASE \/ Count(t) \/ Snapshot(t) \/ EnterDownloading(t) \/ LeaveQueue(t)
           \/ LeaveDownloading(t) \/ Deliver(t)
  <2>1. UNCHANGED <<output, panicked, queue, item>>
    BY <1>2 DEF Count, Snapshot, EnterDownloading, LeaveQueue, LeaveDownloading, Deliver
  <2>2. PICK label : Goto(t, label) /\ (t \in Workers => StageAt(label) = StageAt(pc[t]))
    BY <1>2 DEF Count, Snapshot, EnterDownloading, LeaveQueue, LeaveDownloading, Deliver,
                Resume, StageAt
  <2> QED BY <1>q, <1>t, <2>1, <2>2, QuietMove
<1>3. CASE Decide(t) \/ Fetch(t)
  <2>1. UNCHANGED <<output, panicked, queue>> /\ ~panicked
    BY <1>3 DEF Decide, Fetch
  <2>2. \A v \in Workers : v # t => item'[v] = item[v]
    BY <1>3, <1>t DEF Decide, Fetch, LocalsOK, Threads
  <2>3. CASE t \in Workers /\ ~(Decide(t) /\ Goto(t, "fetch") /\ UNCHANGED item)
    <3>1. pc[t] \in {"decide", "fetch"}
      BY <1>3 DEF Decide, Fetch
    <3>2. PICK label \in {"skipping", "fetched"} : Goto(t, label)
      BY <1>3, <2>3 DEF Decide, Fetch
    <3>3. StageAt(label) = "following" /\ PoolStage[t] = "working"
      BY <2>3, <3>1 DEF StageAt, PoolStage
    <3>4. /\ PoolStage' = [PoolStage EXCEPT ![t] = "following"]
          /\ PoolHold' = [PoolHold EXCEPT ![t] = NoItem]
      BY <1>t, <2>2, <2>3, <3>2, <3>3, WorkerMoves
    <3>5. PoolState # "broken" /\ UNCHANGED PoolState
      BY <1>t, <2>1, StateIs, StateStays
    <3>6. Pool!Complete(t)
      BY <2>1, <3>3, <3>4, <3>5 DEF Pool!Complete, Pool!Step
    <3> QED BY <2>3, <3>6 DEF Pool!Next, Pool!Work
  <2>4. CASE Decide(t) /\ Goto(t, "fetch") /\ UNCHANGED item
    <3>1. StageAt("fetch") = StageAt(pc[t])
      BY <2>4 DEF Decide, StageAt
    <3> QED BY <1>q, <1>t, <2>1, <2>4, <3>1, QuietMove
  <2>5. CASE t \notin Workers
    <3>1. \E label : Goto(t, label)
      BY <1>3 DEF Decide, Fetch
    <3> QED BY <1>q, <1>t, <2>1, <2>2, <2>5, <3>1, QuietMove
  <2> QED BY <2>3, <2>4, <2>5
<1>4. CASE SendOnClosed(t)
  <2>1. Pool!Break
    BY <1>4, <1>t, PanicBreaks DEF SendOnClosed
  <2> QED BY <2>1 DEF Pool!Next
<1> QED BY <1>1, <1>2, <1>3, <1>4 DEF EnqueueOrDownload

LEMMA ContinueStep ==
  ASSUME PoolInv, NEW c \in Callers, Continue(c)
  PROVE  [Pool!Next]_(Pool!vars)
<1> USE DEF locals, lifecycle, Ready
<1>t. ProgramOK /\ ChannelsOK /\ LocalsOK /\ c \notin Workers /\ c \in Threads
  BY ThreadsAssumption DEF PoolInv, TypeOK, Threads
<1>1. CASE CloseChannels(c)
  <2>1. CASE output = "open" /\ ~Panic
    <3>1. output' = "closed" /\ Goto(c, "idle") /\ UNCHANGED <<panicked, queue, item>>
      BY <1>1, <2>1 DEF CloseChannels
    <3>2. PoolState = "open" /\ PoolState' = "closed"
      BY <1>1, <2>1, <3>1 DEF CloseChannels, PoolState
    <3>3. UNCHANGED <<PoolStage, PoolHold>>
      BY <1>t, <3>1, QuietMove
    <3>4. Pool!Close
      BY <3>1, <3>2, <3>3 DEF Pool!Close
    <3> QED BY <3>4 DEF Pool!Next
  <2>2. CASE Panic
    <3>1. Pool!Break
      BY <1>1, <1>t, <2>2, PanicBreaks DEF CloseChannels
    <3> QED BY <3>1 DEF Pool!Next
  <2> QED BY <1>1, <2>1, <2>2 DEF CloseChannels
<1>2. CASE SpawnDrainer(c)
  <2>1. Goto(c, "idle") /\ UNCHANGED <<output, panicked, queue, item>>
    BY <1>2 DEF SpawnDrainer
  <2>2. UNCHANGED <<PoolStage, PoolHold>>
    BY <1>t, <2>1, QuietMove
  <2> QED BY <2>1, <2>2, StateStays DEF Pool!vars
<1>3. CASE Receive(c)
  <2>1. UNCHANGED <<output, panicked, queue, item>>
    BY <1>3 DEF Receive
  <2>2. \A v \in Workers : pc'[v] = pc[v] \/ (pc[v] = "send" /\ pc'[v] = "autoqueue")
    BY <1>3, <1>t DEF Receive, Goto, Senders, At, Resume, ProgramOK, Threads
  <2>3. \A v \in Workers : StageAt(pc'[v]) = StageAt(pc[v])
    BY <2>2 DEF StageAt
  <2>4. UNCHANGED <<PoolStage, PoolHold>>
    BY <2>1, <2>3, Quiet
  <2> QED BY <2>1, <2>4, StateStays DEF Pool!vars
<1>4. CASE EnqueueOrDownload(c)
  BY <1>4, <1>t, EnqueueOrDownloadStep
<1> QED BY <1>1, <1>2, <1>3, <1>4 DEF Continue

LEMMA DrainStep ==
  ASSUME PoolInv, Drain
  PROVE  UNCHANGED Pool!vars
<1>1. UNCHANGED <<output, panicked, queue, item>>
  BY DEF Drain, locals
<1>2. \A v \in Workers : pc'[v] = pc[v] \/ (pc[v] = "send" /\ pc'[v] = "autoqueue")
  BY DEF Drain, Goto, Senders, At, Resume, PoolInv, TypeOK, ProgramOK, Threads
<1>3. \A v \in Workers : StageAt(pc'[v]) = StageAt(pc[v])
  BY <1>2 DEF StageAt
<1>4. UNCHANGED <<PoolStage, PoolHold>>
  BY <1>1, <1>3, Quiet
<1> QED BY <1>1, <1>4, StateStays DEF Pool!vars

LEMMA WorkStep ==
  ASSUME PoolInv, NEW w \in Workers, Work(w)
  PROVE  [Pool!Next]_(Pool!vars)
<1> USE DEF locals, lifecycle, Ready
<1>t. ProgramOK /\ ChannelsOK /\ LocalsOK /\ w \in Threads
  BY DEF PoolInv, TypeOK, Threads
<1>1. CASE CountStarted(w) \/ CountRunning(w) \/ FindLinks(w) \/ AutoEnqueue(w)
  <2>1. UNCHANGED <<output, panicked, queue>>
    BY <1>1 DEF CountStarted, CountRunning, FindLinks, AutoEnqueue
  <2>2. \A v \in Workers : v = w \/ item'[v] = item[v]
    BY <1>1, <1>t DEF CountStarted, CountRunning, FindLinks, AutoEnqueue, LocalsOK, Threads
  <2>3. StageAt(pc[w]) # "working"
    BY <1>1 DEF CountStarted, CountRunning, FindLinks, AutoEnqueue, StageAt
  <2>4. CASE FindLinks(w)
    BY <2>1, <2>2, <2>3, <2>4, Quiet, StateStays DEF FindLinks, Pool!vars
  <2>5. CASE ~FindLinks(w)
    <3>1. PICK label : Goto(w, label) /\ StageAt(label) = StageAt(pc[w])
      BY <1>1, <2>5 DEF CountStarted, CountRunning, AutoEnqueue, StageAt
    <3>2. UNCHANGED <<PoolStage, PoolHold>>
      BY <1>t, <2>2, <2>3, <3>1, QuietMove
    <3> QED BY <2>1, <3>2, StateStays DEF Pool!vars
  <2> QED BY <2>4, <2>5
<1>s. ASSUME ~panicked, UNCHANGED <<output, panicked>>
      PROVE  PoolState # "broken" /\ UNCHANGED PoolState
  BY <1>s, <1>t, StateIs, StateStays
<1>2. CASE Take(w)
  <2>1. /\ ~panicked /\ UNCHANGED <<output, panicked>> /\ Goto(w, "snapshot")
        /\ pc[w] = "receiving" /\ queue # <<>> /\ queue' = Tail(queue)
    BY <1>2 DEF Take
  <2>2. item'[w] = Head(queue) /\ \A v \in Workers : v # w => item'[v] = item[v]
    BY <1>2, <1>t DEF Take, LocalsOK, Threads
  <2>3. StageAt("snapshot") = "working" /\ PoolStage[w] = "idle"
    BY <2>1 DEF StageAt, PoolStage
  <2>4. /\ PoolStage' = [PoolStage EXCEPT ![w] = "working"]
        /\ PoolHold' = [PoolHold EXCEPT ![w] = Head(queue)]
    BY <1>t, <2>1, <2>2, <2>3, WorkerMoves
  <2>5. Pool!Take(w)
    BY <1>s, <2>1, <2>3, <2>4 DEF Pool!Take, Pool!Step
  <2> QED BY <2>5 DEF Pool!Next, Pool!Work
<1>n. ASSUME NEW label, Goto(w, label), StageAt(label) # "working", UNCHANGED item,
             PoolStage[w] # "working"
      PROVE  PoolStage' = [PoolStage EXCEPT ![w] = StageAt(label)] /\ PoolHold' = PoolHold
  <2>1. /\ PoolStage' = [PoolStage EXCEPT ![w] = StageAt(label)]
        /\ PoolHold' = [PoolHold EXCEPT ![w] = NoItem]
    BY <1>n, <1>t, WorkerMoves
  <2>2. PoolHold[w] = NoItem
    BY <1>n DEF PoolHold
  <2> QED BY <2>1, <2>2 DEF PoolHold
<1>3. CASE Exit(w)
  <2>1. /\ ~panicked /\ UNCHANGED <<output, panicked, queue, item>> /\ Goto(w, "exited")
        /\ pc[w] = "receiving" /\ queue = <<>> /\ output = "closed"
    BY <1>3 DEF Exit, EndOfQueue
  <2>2. StageAt("exited") = "gone" /\ PoolStage[w] = "idle"
    BY <2>1 DEF StageAt, PoolStage
  <2>3. PoolStage' = [PoolStage EXCEPT ![w] = "gone"] /\ PoolHold' = PoolHold
    BY <1>n, <2>1, <2>2
  <2>4. PoolState = "closed"
    BY <1>t, <2>1, StateIs
  <2>5. Pool!Leave(w)
    BY <1>s, <2>1, <2>2, <2>3, <2>4 DEF Pool!Leave, Pool!Step
  <2> QED BY <2>5 DEF Pool!Next, Pool!Work
<1>4. CASE FinishItem(w)
  <2>1. /\ ~panicked /\ UNCHANGED <<output, panicked, queue, item>> /\ Goto(w, "receiving")
        /\ pc[w] = "autoqueue"
    BY <1>4 DEF FinishItem
  <2>2. StageAt("receiving") = "idle" /\ PoolStage[w] = "following"
    BY <2>1 DEF StageAt, PoolStage
  <2>3. PoolStage' = [PoolStage EXCEPT ![w] = "idle"] /\ PoolHold' = PoolHold
    BY <1>n, <2>1, <2>2
  <2>4. Pool!Return(w)
    BY <1>s, <2>1, <2>2, <2>3 DEF Pool!Return, Pool!Step
  <2> QED BY <2>4 DEF Pool!Next, Pool!Work
<1>5. CASE EnqueueOrDownload(w)
  BY <1>5, <1>t, EnqueueOrDownloadStep
<1> QED BY <1>1, <1>2, <1>3, <1>4, <1>5 DEF Work

LEMMA PoolInit == Init => Pool!Init
<1> SUFFICES ASSUME Init PROVE Pool!Init
  OBVIOUS
<1>1. PoolState = "new" /\ queue = <<>>
  BY DEF Init, PoolState
<1>2. \A w \in Workers : pc[w] = "unborn"
  BY ThreadsAssumption DEF Init, Threads
<1>3. PoolStage = [w \in Workers |-> "absent"]
  BY <1>2 DEF PoolStage, StageAt
<1>4. PoolHold = [w \in Workers |-> NoItem]
  BY <1>3 DEF PoolHold
<1> QED BY <1>1, <1>3, <1>4 DEF Pool!Init

LEMMA PoolStep == PoolInv /\ [Next]_vars => [Pool!Next]_(Pool!vars)
<1> SUFFICES ASSUME PoolInv, [Next]_vars PROVE [Pool!Next]_(Pool!vars)
  OBVIOUS
<1>1. CASE UNCHANGED vars
  <2>1. UNCHANGED <<output, panicked, queue, pc, item>>
    BY <1>1 DEF vars, lifecycle, locals
  <2>2. UNCHANGED <<PoolStage, PoolHold>>
    BY <2>1, Quiet
  <2> QED BY <2>1, <2>2, StateStays DEF Pool!vars
<1> QED BY <1>1, CallStep, ContinueStep, WorkStep, DrainStep DEF Next

\* The crawler of crawler.go, with all its counters, callbacks and channels, is the
\* pool of WorkPool: see ImplementsPool in CrawlerPool.
THEOREM CrawlerIsPool == Spec => ImplementsPool
<1>1. Spec => Pool!Init /\ [][Pool!Next]_(Pool!vars)
  BY PoolInit, PoolStep, PoolInvariant, PTL DEF Spec
<1> QED BY <1>1 DEF ImplementsPool, Pool!Spec

=============================================================================
