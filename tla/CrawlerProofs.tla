--------------------------- MODULE CrawlerProofs ---------------------------
(* Theorems about Crawler, for every value of its constants that meets the *)
(* assumptions of that module.                                             *)
EXTENDS Crawler, FiniteSetTheorems, TLAPS

----------------------------------------------------------------------------
(* Type correctness.                                                       *)

LEMMA LinksAreItems ==
  ASSUME NEW i \in Item
  PROVE  AssetItems(i) \cup PageItems(i) \in SUBSET Item
<1>1. i.url \in URLs /\ i.depth \in Nat /\ i.depth + 1 \in Nat
  BY DEF Item
<1>2. AssetLinks[i.url] \subseteq URLs /\ PageLinks[i.url] \subseteq URLs
  BY <1>1, LinksAssumption
<1>3. \A u \in URLs, d \in Nat :
        [url |-> u, depth |-> d, force |-> FALSE] \in Item
  BY DEF Item
<1>4. AssetItems(i) \subseteq Item
  BY <1>1, <1>2, <1>3 DEF AssetItems
<1>5. PageItems(i) \subseteq Item
  BY <1>1, <1>2, <1>3 DEF PageItems
<1> QED BY <1>4, <1>5

LEMMA LinksFinite ==
  ASSUME NEW i \in Item
  PROVE  IsFiniteSet(AssetItems(i) \cup PageItems(i))
<1>1. IsFiniteSet(AssetLinks[i.url]) /\ IsFiniteSet(PageLinks[i.url])
  BY LinksAssumption, FS_Subset DEF Item
<1> DEFINE asset == [u \in AssetLinks[i.url] |->
                       [url |-> u, depth |-> i.depth, force |-> FALSE]]
           page == [u \in PageLinks[i.url] |->
                      [url |-> u, depth |-> i.depth + 1, force |-> FALSE]]
<1>2. asset \in Surjection(AssetLinks[i.url], AssetItems(i))
  BY DEF Surjection, AssetItems
<1>3. page \in Surjection(PageLinks[i.url], PageItems(i))
  BY DEF Surjection, PageItems
<1>4. IsFiniteSet(AssetItems(i)) /\ IsFiniteSet(PageItems(i))
  BY <1>1, <1>2, <1>3, FS_Surjection
<1> QED BY <1>4, FS_Union

LEMMA TypeInit == Init => TypeOK
<1> SUFFICES ASSUME Init PROVE TypeOK
  OBVIOUS
<1> USE DEF Init
<1>1. FlagsOK
  BY ParametersAssumption DEF FlagsOK
<1>2. CountersOK
  BY DEF CountersOK, Counters
<1>3. ChannelsOK
  BY DEF ChannelsOK
<1>4. ProgramOK
  BY ThreadsAssumption
  DEF ProgramOK, Threads, WorkerLabels, CallerLabels, DownloadLabels
<1>5. LocalsOK
  BY ThreadsAssumption, FS_EmptySet DEF LocalsOK, Holding, At, Threads
<1> QED BY <1>1, <1>2, <1>3, <1>4, <1>5 DEF TypeOK

LEMMA TypeCall ==
  ASSUME TypeOK, NEW c \in Callers, Call(c)
  PROVE  TypeOK'
<1>t. FlagsOK /\ CountersOK /\ ChannelsOK /\ ProgramOK /\ LocalsOK
  BY DEF TypeOK
<1> USE DEF lifecycle, locals, history, Goto, Ready, Enter, StartOnce
<1>1. CASE Start(c)
  <2>1. FlagsOK'
    BY <1>1, <1>t DEF FlagsOK, Start
  <2>2. CountersOK'
    BY <1>1, <1>t DEF CountersOK, Counters, APINames, Start
  <2>3. ChannelsOK'
    BY <1>1, <1>t DEF ChannelsOK, Start
  <2>4. ProgramOK'
    BY <1>1, <1>t, ThreadsAssumption
    DEF ProgramOK, Threads, WorkerLabels, CallerLabels, DownloadLabels,
        Start
  <2>5. LocalsOK'
    BY <1>1, <1>t, ThreadsAssumption
    DEF ProgramOK, LocalsOK, Threads, Holding, At, Start
  <2> QED BY <2>1, <2>2, <2>3, <2>4, <2>5 DEF TypeOK
<1>2. CASE Stop(c)
  <2>1. FlagsOK'
    BY <1>2, <1>t DEF FlagsOK, Stop
  <2>2. CountersOK'
    BY <1>2, <1>t DEF CountersOK, Counters, APINames, Stop
  <2>3. ChannelsOK'
    BY <1>2, <1>t DEF ChannelsOK, Stop
  <2>4. ProgramOK'
    BY <1>2, <1>t, ThreadsAssumption
    DEF ProgramOK, Threads, WorkerLabels, CallerLabels, DownloadLabels,
        Stop
  <2>5. LocalsOK'
    BY <1>2, <1>t, ThreadsAssumption
    DEF ProgramOK, LocalsOK, Threads, Holding, At, Stop
  <2> QED BY <2>1, <2>2, <2>3, <2>4, <2>5 DEF TypeOK
<1>3. ASSUME NEW i \in Seeds, Enqueue(c, i) PROVE TypeOK'
  <2>1. FlagsOK'
    BY <1>3, <1>t DEF FlagsOK, Enqueue, Item
  <2>2. CountersOK'
    BY <1>3, <1>t DEF CountersOK, Counters, APINames, Enqueue, Item
  <2>3. ChannelsOK'
    BY <1>3, <1>t DEF ChannelsOK, Enqueue, Item
  <2>4. ProgramOK'
    BY <1>3, <1>t, ThreadsAssumption
    DEF ProgramOK, Threads, WorkerLabels, CallerLabels, DownloadLabels,
        Enqueue, Item
  <2>5. LocalsOK'
    BY <1>3, <1>t, ThreadsAssumption, ParametersAssumption
    DEF ProgramOK, LocalsOK, Threads, Holding, At, Enqueue, Item
  <2> QED BY <2>1, <2>2, <2>3, <2>4, <2>5 DEF TypeOK
<1>4. ASSUME NEW i \in Seeds, Download(c, i) PROVE TypeOK'
  <2>1. FlagsOK'
    BY <1>4, <1>t DEF FlagsOK, Download
  <2>2. CountersOK'
    BY <1>4, <1>t DEF CountersOK, Counters, APINames, Download
  <2>3. ChannelsOK'
    BY <1>4, <1>t DEF ChannelsOK, Download
  <2>4. ProgramOK'
    BY <1>4, <1>t, ThreadsAssumption
    DEF ProgramOK, Threads, WorkerLabels, CallerLabels, DownloadLabels,
        Download
  <2>5. LocalsOK'
    BY <1>4, <1>t, ThreadsAssumption, ParametersAssumption
    DEF ProgramOK, LocalsOK, Threads, Holding, At, Download
  <2> QED BY <2>1, <2>2, <2>3, <2>4, <2>5 DEF TypeOK
<1>5. CASE Downloaded(c)
  <2>1. FlagsOK'
    BY <1>5, <1>t DEF FlagsOK, Downloaded
  <2>2. CountersOK'
    BY <1>5, <1>t DEF CountersOK, Counters, APINames, Downloaded
  <2>3. ChannelsOK'
    BY <1>5, <1>t DEF ChannelsOK, Downloaded
  <2>4. ProgramOK'
    BY <1>5, <1>t, ThreadsAssumption
    DEF ProgramOK, Threads, WorkerLabels, CallerLabels, DownloadLabels,
        Downloaded
  <2>5. LocalsOK'
    BY <1>5, <1>t, ThreadsAssumption
    DEF ProgramOK, LocalsOK, Threads, Holding, At, Downloaded
  <2> QED BY <2>1, <2>2, <2>3, <2>4, <2>5 DEF TypeOK
<1>6. CASE DownloadedNotBlocking(c)
  <2>1. FlagsOK'
    BY <1>6, <1>t DEF FlagsOK, DownloadedNotBlocking
  <2>2. CountersOK'
    BY <1>6, <1>t DEF CountersOK, Counters, APINames, DownloadedNotBlocking
  <2>3. ChannelsOK'
    BY <1>6, <1>t DEF ChannelsOK, DownloadedNotBlocking
  <2>4. ProgramOK'
    BY <1>6, <1>t, ThreadsAssumption
    DEF ProgramOK, Threads, WorkerLabels, CallerLabels, DownloadLabels,
        DownloadedNotBlocking
  <2>5. LocalsOK'
    BY <1>6, <1>t, ThreadsAssumption
    DEF ProgramOK, LocalsOK, Threads, Holding, At, DownloadedNotBlocking
  <2> QED BY <2>1, <2>2, <2>3, <2>4, <2>5 DEF TypeOK
<1>7. CASE SetOnDownloaded(c)
  <2>1. FlagsOK'
    BY <1>7, <1>t DEF FlagsOK, SetOnDownloaded
  <2>2. CountersOK'
    BY <1>7, <1>t DEF CountersOK, Counters, APINames, SetOnDownloaded
  <2>3. ChannelsOK'
    BY <1>7, <1>t DEF ChannelsOK, SetOnDownloaded
  <2>4. ProgramOK'
    BY <1>7, <1>t, ThreadsAssumption
    DEF ProgramOK, Threads, WorkerLabels, CallerLabels, DownloadLabels,
        SetOnDownloaded
  <2>5. LocalsOK'
    BY <1>7, <1>t, ThreadsAssumption
    DEF ProgramOK, LocalsOK, Threads, Holding, At, SetOnDownloaded
  <2> QED BY <2>1, <2>2, <2>3, <2>4, <2>5 DEF TypeOK
<1>8. ASSUME NEW count \in 0 .. Cardinality(Workers), SetWorkerCount(c, count)
       PROVE  TypeOK'
  <2>1. FlagsOK'
    BY <1>8, <1>t DEF FlagsOK, SetWorkerCount, AcceptsCount
  <2>2. CountersOK'
    <3>1. workerCount' \in 1 .. Cardinality(Workers)
      BY <1>8, <1>t, FS_CardinalityType
      DEF CountersOK, SetWorkerCount, AcceptsCount
    <3>2. calls' \in [APINames -> Nat]
      BY <1>8, <1>t DEF CountersOK, APINames, SetWorkerCount
    <3> QED BY <1>8, <1>t, <3>1, <3>2 DEF CountersOK, SetWorkerCount
  <2>3. ChannelsOK'
    BY <1>8, <1>t DEF ChannelsOK, SetWorkerCount, AcceptsCount
  <2>4. ProgramOK'
    BY <1>8, <1>t, ThreadsAssumption
    DEF ProgramOK, Threads, WorkerLabels, CallerLabels, DownloadLabels,
        SetWorkerCount, AcceptsCount
  <2>5. LocalsOK'
    BY <1>8, <1>t, ThreadsAssumption
    DEF ProgramOK, LocalsOK, Threads, Holding, At, SetWorkerCount, AcceptsCount
  <2> QED BY <2>1, <2>2, <2>3, <2>4, <2>5 DEF TypeOK
<1> QED BY <1>1, <1>2, <1>3, <1>4, <1>5, <1>6, <1>7, <1>8 DEF Call

LEMMA TypeEnqueueOrDownload ==
  ASSUME TypeOK, NEW t \in Threads, EnqueueOrDownload(t)
  PROVE  TypeOK'
<1>t. FlagsOK /\ CountersOK /\ ChannelsOK /\ ProgramOK /\ LocalsOK
  BY DEF TypeOK
<1> USE DEF lifecycle, locals, history, Goto, Ready
<1>1. CASE Count(t)
  <2>1. FlagsOK'
    BY <1>1, <1>t DEF FlagsOK, Count
  <2>2. CountersOK'
    <3>1. counts \in Counters
      BY <1>t DEF CountersOK
    <3> DEFINE counted == [counts EXCEPT !.enqueued = counts.enqueued + 1]
    <3>2. counted \in Counters /\ counted.queuing \in Int
      BY <3>1 DEF Counters
    <3>3. counts' \in Counters
      <4>1. counts' = [counted EXCEPT !.queuing = counted.queuing + 1]
        BY <1>1 DEF Count
      <4> HIDE DEF counted
      <4> QED BY <3>2, <4>1 DEF Counters
    <3> QED BY <1>1, <1>t, <3>3 DEF CountersOK, Count
  <2>3. ChannelsOK'
    BY <1>1, <1>t DEF ChannelsOK, Count
  <2>4. ProgramOK'
    BY <1>1, <1>t, ThreadsAssumption
    DEF ProgramOK, Threads, WorkerLabels, CallerLabels, DownloadLabels,
        Count
  <2>5. LocalsOK'
    BY <1>1, <1>t, ThreadsAssumption
    DEF ProgramOK, LocalsOK, Threads, Holding, At, Count
  <2> QED BY <2>1, <2>2, <2>3, <2>4, <2>5 DEF TypeOK
<1>2. CASE Push(t)
  <2>1. FlagsOK'
    BY <1>2, <1>t DEF FlagsOK, Push, Resume
  <2>2. CountersOK'
    BY <1>2, <1>t DEF CountersOK, Counters, Push, Resume
  <2>3. ChannelsOK'
    <3>1. item[t] \in Item
      BY <1>2, <1>t DEF LocalsOK, Holding, At, Push
    <3>2. queue' = queue \/ queue' = Append(queue, item[t])
      BY <1>2 DEF Push
    <3>3. queue' \in Seq(Item)
      BY <1>t, <3>1, <3>2 DEF ChannelsOK
    <3> QED BY <1>2, <1>t, <3>3 DEF ChannelsOK, Push
  <2>4. ProgramOK'
    BY <1>2, <1>t, ThreadsAssumption
    DEF ProgramOK, Threads, WorkerLabels, CallerLabels, DownloadLabels,
        Push, Resume
  <2>5. LocalsOK'
    BY <1>2, <1>t, ThreadsAssumption
    DEF ProgramOK, LocalsOK, Threads, Holding, At, Push, Resume
  <2> QED BY <2>1, <2>2, <2>3, <2>4, <2>5 DEF TypeOK
<1>3. CASE Snapshot(t)
  <2>1. FlagsOK'
    BY <1>3, <1>t DEF FlagsOK, Snapshot
  <2>2. CountersOK'
    BY <1>3, <1>t DEF CountersOK, Counters, Snapshot
  <2>3. ChannelsOK'
    BY <1>3, <1>t DEF ChannelsOK, Snapshot
  <2>4. ProgramOK'
    BY <1>3, <1>t, ThreadsAssumption
    DEF ProgramOK, Threads, WorkerLabels, CallerLabels, DownloadLabels,
        Snapshot
  <2>5. LocalsOK'
    BY <1>3, <1>t, ThreadsAssumption
    DEF ProgramOK, LocalsOK, Threads, Holding, At, FlagsOK, Snapshot
  <2> QED BY <2>1, <2>2, <2>3, <2>4, <2>5 DEF TypeOK
<1>4. CASE EnterDownloading(t)
  <2>1. FlagsOK'
    BY <1>4, <1>t DEF FlagsOK, EnterDownloading
  <2>2. CountersOK'
    BY <1>4, <1>t DEF CountersOK, Counters, EnterDownloading
  <2>3. ChannelsOK'
    BY <1>4, <1>t DEF ChannelsOK, EnterDownloading
  <2>4. ProgramOK'
    BY <1>4, <1>t, ThreadsAssumption
    DEF ProgramOK, Threads, WorkerLabels, CallerLabels, DownloadLabels,
        EnterDownloading
  <2>5. LocalsOK'
    BY <1>4, <1>t, ThreadsAssumption
    DEF ProgramOK, LocalsOK, Threads, Holding, At, EnterDownloading
  <2> QED BY <2>1, <2>2, <2>3, <2>4, <2>5 DEF TypeOK
<1>5. CASE LeaveQueue(t)
  <2>1. FlagsOK'
    BY <1>5, <1>t DEF FlagsOK, LeaveQueue
  <2>2. CountersOK'
    BY <1>5, <1>t DEF CountersOK, Counters, LeaveQueue
  <2>3. ChannelsOK'
    BY <1>5, <1>t DEF ChannelsOK, LeaveQueue
  <2>4. ProgramOK'
    BY <1>5, <1>t, ThreadsAssumption
    DEF ProgramOK, Threads, WorkerLabels, CallerLabels, DownloadLabels,
        LeaveQueue
  <2>5. LocalsOK'
    BY <1>5, <1>t, ThreadsAssumption
    DEF ProgramOK, LocalsOK, Threads, Holding, At, LeaveQueue
  <2> QED BY <2>1, <2>2, <2>3, <2>4, <2>5 DEF TypeOK
<1>6. CASE Decide(t)
  <2>1. FlagsOK'
    BY <1>6, <1>t DEF FlagsOK, Decide
  <2>2. CountersOK'
    <3>1. UNCHANGED <<counts, workerCount, calls, dropped, delivered>>
      BY <1>6 DEF Decide
    <3>2. skipped' = skipped \/ skipped' = skipped + 1
      BY <1>6 DEF Decide
    <3> QED BY <1>t, <3>1, <3>2 DEF CountersOK
  <2>3. ChannelsOK'
    BY <1>6, <1>t DEF ChannelsOK, Decide
  <2>4. ProgramOK'
    BY <1>6, <1>t, ThreadsAssumption
    DEF ProgramOK, Threads, WorkerLabels, CallerLabels, DownloadLabels,
        Decide
  <2>5. LocalsOK'
    BY <1>6, <1>t, ThreadsAssumption, ParametersAssumption
    DEF ProgramOK, LocalsOK, Threads, Holding, At, Decide
  <2> QED BY <2>1, <2>2, <2>3, <2>4, <2>5 DEF TypeOK
<1>7. CASE Fetch(t)
  <2>1. FlagsOK'
    BY <1>7, <1>t DEF FlagsOK, Fetch
  <2>2. CountersOK'
    BY <1>7, <1>t DEF CountersOK, Counters, Fetch
  <2>3. ChannelsOK'
    BY <1>7, <1>t DEF ChannelsOK, Fetch
  <2>4. ProgramOK'
    BY <1>7, <1>t, ThreadsAssumption
    DEF ProgramOK, Threads, WorkerLabels, CallerLabels, DownloadLabels,
        Fetch
  <2>5. LocalsOK'
    <3>1. item[t] \in Item
      BY <1>7, <1>t DEF LocalsOK, Holding, At, Fetch
    <3>2. AssetItems(item[t]) \cup PageItems(item[t]) \in SUBSET Item
      BY <3>1, LinksAreItems
    <3>3. IsFiniteSet(AssetItems(item[t]) \cup PageItems(item[t]))
      BY <3>1, LinksFinite
    <3>4. /\ item' \in [Threads -> Item \cup {NoItem}]
          /\ \A u \in Holding' : item'[u] \in Item
      BY <1>7, <1>t DEF ProgramOK, LocalsOK, Holding, At, Fetch, Goto
    <3>5. UNCHANGED <<cb, todo>>
      BY <1>7 DEF Fetch
    <3>6. PICK ls : /\ ls \in SUBSET Item /\ IsFiniteSet(ls)
                    /\ links' = [links EXCEPT ![t] = ls]
      BY <1>7, <3>2, <3>3, FS_EmptySet DEF Fetch
    <3>7. /\ links' \in [Threads -> SUBSET Item]
          /\ \A u \in Threads : IsFiniteSet(links'[u])
      BY <1>t, <3>6 DEF LocalsOK
    <3> QED BY <1>t, <3>4, <3>5, <3>7 DEF LocalsOK
  <2> QED BY <2>1, <2>2, <2>3, <2>4, <2>5 DEF TypeOK
<1>8. CASE LeaveDownloading(t)
  <2>1. FlagsOK'
    BY <1>8, <1>t DEF FlagsOK, LeaveDownloading, Resume
  <2>2. CountersOK'
    BY <1>8, <1>t DEF CountersOK, Counters, LeaveDownloading, Resume
  <2>3. ChannelsOK'
    BY <1>8, <1>t DEF ChannelsOK, LeaveDownloading, Resume
  <2>4. ProgramOK'
    BY <1>8, <1>t, ThreadsAssumption
    DEF ProgramOK, Threads, WorkerLabels, CallerLabels, DownloadLabels,
        LeaveDownloading, Resume
  <2>5. LocalsOK'
    BY <1>8, <1>t, ThreadsAssumption
    DEF ProgramOK, LocalsOK, Threads, Holding, At, LeaveDownloading, Resume
  <2> QED BY <2>1, <2>2, <2>3, <2>4, <2>5 DEF TypeOK
<1>9. CASE Deliver(t)
  <2>1. FlagsOK'
    BY <1>9, <1>t DEF FlagsOK, Deliver, Resume, MustSend
  <2>2. CountersOK'
    BY <1>9, <1>t DEF CountersOK, Counters, Deliver, Resume, MustSend
  <2>3. ChannelsOK'
    BY <1>9, <1>t DEF ChannelsOK, Deliver, Resume, MustSend
  <2>4. ProgramOK'
    BY <1>9, <1>t, ThreadsAssumption
    DEF ProgramOK, Threads, WorkerLabels, CallerLabels, DownloadLabels,
        Deliver, Resume, MustSend
  <2>5. LocalsOK'
    BY <1>9, <1>t, ThreadsAssumption
    DEF ProgramOK, LocalsOK, Threads, Holding, At, Deliver, Resume, MustSend
  <2> QED BY <2>1, <2>2, <2>3, <2>4, <2>5 DEF TypeOK
<1>10. CASE SendOnClosed(t)
  <2>1. FlagsOK'
    BY <1>10, <1>t DEF FlagsOK, SendOnClosed, Panic
  <2>2. CountersOK'
    BY <1>10, <1>t DEF CountersOK, Counters, SendOnClosed, Panic
  <2>3. ChannelsOK'
    BY <1>10, <1>t DEF ChannelsOK, SendOnClosed, Panic
  <2>4. ProgramOK'
    BY <1>10, <1>t, ThreadsAssumption
    DEF ProgramOK, Threads, WorkerLabels, CallerLabels, DownloadLabels,
        SendOnClosed, Panic
  <2>5. LocalsOK'
    BY <1>10, <1>t, ThreadsAssumption
    DEF ProgramOK, LocalsOK, Threads, Holding, At, SendOnClosed, Panic
  <2> QED BY <2>1, <2>2, <2>3, <2>4, <2>5 DEF TypeOK
<1> QED BY <1>1, <1>2, <1>3, <1>4, <1>5, <1>6, <1>7, <1>8, <1>9, <1>10 DEF EnqueueOrDownload

LEMMA TypeContinue ==
  ASSUME TypeOK, NEW c \in Callers, Continue(c)
  PROVE  TypeOK'
<1>t. FlagsOK /\ CountersOK /\ ChannelsOK /\ ProgramOK /\ LocalsOK
  BY DEF TypeOK
<1> USE DEF lifecycle, locals, history, Goto, Ready
<1>1. CASE CloseChannels(c)
  <2>1. FlagsOK'
    BY <1>1, <1>t DEF FlagsOK, CloseChannels, Panic
  <2>2. CountersOK'
    BY <1>1, <1>t DEF CountersOK, Counters, CloseChannels, Panic
  <2>3. ChannelsOK'
    BY <1>1, <1>t DEF ChannelsOK, CloseChannels, Panic
  <2>4. ProgramOK'
    BY <1>1, <1>t, ThreadsAssumption
    DEF ProgramOK, Threads, WorkerLabels, CallerLabels, DownloadLabels,
        CloseChannels, Panic
  <2>5. LocalsOK'
    BY <1>1, <1>t, ThreadsAssumption
    DEF ProgramOK, LocalsOK, Threads, Holding, At, CloseChannels, Panic
  <2> QED BY <2>1, <2>2, <2>3, <2>4, <2>5 DEF TypeOK
<1>2. CASE SpawnDrainer(c)
  <2>1. FlagsOK'
    BY <1>2, <1>t DEF FlagsOK, SpawnDrainer
  <2>2. CountersOK'
    BY <1>2, <1>t DEF CountersOK, Counters, SpawnDrainer
  <2>3. ChannelsOK'
    BY <1>2, <1>t DEF ChannelsOK, SpawnDrainer
  <2>4. ProgramOK'
    BY <1>2, <1>t, ThreadsAssumption
    DEF ProgramOK, Threads, WorkerLabels, CallerLabels, DownloadLabels,
        SpawnDrainer
  <2>5. LocalsOK'
    BY <1>2, <1>t, ThreadsAssumption
    DEF ProgramOK, LocalsOK, Threads, Holding, At, SpawnDrainer
  <2> QED BY <2>1, <2>2, <2>3, <2>4, <2>5 DEF TypeOK
<1>3. CASE Receive(c)
  <2>1. FlagsOK'
    BY <1>3, <1>t DEF FlagsOK, Receive, Resume, Senders, At
  <2>2. CountersOK'
    BY <1>3, <1>t DEF CountersOK, Counters, Receive, Resume, Senders, At
  <2>3. ChannelsOK'
    BY <1>3, <1>t DEF ChannelsOK, Receive, Resume, Senders, At
  <2>4. ProgramOK'
    BY <1>3, <1>t, ThreadsAssumption
    DEF ProgramOK, Threads, WorkerLabels, CallerLabels, DownloadLabels,
        Receive, Resume, Senders, At
  <2>5. LocalsOK'
    BY <1>3, <1>t, ThreadsAssumption
    DEF ProgramOK, LocalsOK, Threads, Holding, At, Receive, Resume, Senders, At
  <2> QED BY <2>1, <2>2, <2>3, <2>4, <2>5 DEF TypeOK
<1>4. CASE EnqueueOrDownload(c)
  BY <1>4, TypeEnqueueOrDownload DEF Threads
<1> QED BY <1>1, <1>2, <1>3, <1>4 DEF Continue

LEMMA TypeWork ==
  ASSUME TypeOK, NEW w \in Workers, Work(w)
  PROVE  TypeOK'
<1>t. FlagsOK /\ CountersOK /\ ChannelsOK /\ ProgramOK /\ LocalsOK
  BY DEF TypeOK
<1> USE DEF lifecycle, locals, history, Goto, Ready
<1>1. CASE CountStarted(w)
  <2>1. FlagsOK'
    BY <1>1, <1>t DEF FlagsOK, CountStarted
  <2>2. CountersOK'
    BY <1>1, <1>t DEF CountersOK, Counters, CountStarted
  <2>3. ChannelsOK'
    BY <1>1, <1>t DEF ChannelsOK, CountStarted
  <2>4. ProgramOK'
    BY <1>1, <1>t, ThreadsAssumption
    DEF ProgramOK, Threads, WorkerLabels, CallerLabels, DownloadLabels,
        CountStarted
  <2>5. LocalsOK'
    BY <1>1, <1>t, ThreadsAssumption
    DEF ProgramOK, LocalsOK, Threads, Holding, At, CountStarted
  <2> QED BY <2>1, <2>2, <2>3, <2>4, <2>5 DEF TypeOK
<1>2. CASE CountRunning(w)
  <2>1. FlagsOK'
    BY <1>2, <1>t DEF FlagsOK, CountRunning
  <2>2. CountersOK'
    BY <1>2, <1>t DEF CountersOK, Counters, CountRunning
  <2>3. ChannelsOK'
    BY <1>2, <1>t DEF ChannelsOK, CountRunning
  <2>4. ProgramOK'
    BY <1>2, <1>t, ThreadsAssumption
    DEF ProgramOK, Threads, WorkerLabels, CallerLabels, DownloadLabels,
        CountRunning
  <2>5. LocalsOK'
    BY <1>2, <1>t, ThreadsAssumption
    DEF ProgramOK, LocalsOK, Threads, Holding, At, CountRunning
  <2> QED BY <2>1, <2>2, <2>3, <2>4, <2>5 DEF TypeOK
<1>3. CASE Take(w)
  <2>1. FlagsOK'
    BY <1>3, <1>t DEF FlagsOK, Take
  <2>2. CountersOK'
    BY <1>3, <1>t DEF CountersOK, Counters, Take
  <2>3. ChannelsOK'
    BY <1>3, <1>t DEF ChannelsOK, Take
  <2>4. ProgramOK'
    BY <1>3, <1>t, ThreadsAssumption
    DEF ProgramOK, Threads, WorkerLabels, CallerLabels, DownloadLabels,
        Take
  <2>5. LocalsOK'
    BY <1>3, <1>t, ThreadsAssumption
    DEF ProgramOK, LocalsOK, Threads, Holding, At, ChannelsOK, Take
  <2> QED BY <2>1, <2>2, <2>3, <2>4, <2>5 DEF TypeOK
<1>4. CASE Exit(w)
  <2>1. FlagsOK'
    BY <1>4, <1>t DEF FlagsOK, Exit
  <2>2. CountersOK'
    BY <1>4, <1>t DEF CountersOK, Counters, Exit
  <2>3. ChannelsOK'
    BY <1>4, <1>t DEF ChannelsOK, Exit
  <2>4. ProgramOK'
    BY <1>4, <1>t, ThreadsAssumption
    DEF ProgramOK, Threads, WorkerLabels, CallerLabels, DownloadLabels,
        Exit
  <2>5. LocalsOK'
    BY <1>4, <1>t, ThreadsAssumption
    DEF ProgramOK, LocalsOK, Threads, Holding, At, Exit
  <2> QED BY <2>1, <2>2, <2>3, <2>4, <2>5 DEF TypeOK
<1>5. CASE FindLinks(w)
  <2>1. FlagsOK'
    BY <1>5, <1>t DEF FlagsOK, FindLinks, NextLinks
  <2>2. CountersOK'
    <3>1. NextLinks(w) \subseteq links[w] /\ IsFiniteSet(links[w])
      BY <1>t DEF LocalsOK, Threads, NextLinks
    <3>2. Cardinality(NextLinks(w)) \in Nat
      BY <3>1, FS_Subset, FS_CardinalityType
    <3>3. counts \in Counters
      BY <1>t DEF CountersOK
    <3>4. counts' = [counts EXCEPT !.linkFound = @ + Cardinality(NextLinks(w))]
      BY <1>5 DEF FindLinks
    <3>5. counts' \in Counters
      BY <3>2, <3>3, <3>4 DEF Counters
    <3> QED BY <1>5, <1>t, <3>5 DEF CountersOK, FindLinks
  <2>3. ChannelsOK'
    BY <1>5, <1>t DEF ChannelsOK, FindLinks, NextLinks
  <2>4. ProgramOK'
    BY <1>5, <1>t, ThreadsAssumption
    DEF ProgramOK, Threads, WorkerLabels, CallerLabels, DownloadLabels,
        FindLinks, NextLinks
  <2>5. LocalsOK'
    BY <1>5, <1>t, ThreadsAssumption, FS_Subset
    DEF ProgramOK, LocalsOK, Threads, Holding, At, FindLinks, NextLinks
  <2> QED BY <2>1, <2>2, <2>3, <2>4, <2>5 DEF TypeOK
<1>6. CASE AutoEnqueue(w)
  <2>1. FlagsOK'
    BY <1>6, <1>t DEF FlagsOK, AutoEnqueue
  <2>2. CountersOK'
    BY <1>6, <1>t DEF CountersOK, Counters, AutoEnqueue
  <2>3. ChannelsOK'
    BY <1>6, <1>t DEF ChannelsOK, AutoEnqueue
  <2>4. ProgramOK'
    BY <1>6, <1>t, ThreadsAssumption
    DEF ProgramOK, Threads, WorkerLabels, CallerLabels, DownloadLabels,
        AutoEnqueue
  <2>5. LocalsOK'
    BY <1>6, <1>t, ThreadsAssumption
    DEF ProgramOK, LocalsOK, Threads, Holding, At, AutoEnqueue
  <2> QED BY <2>1, <2>2, <2>3, <2>4, <2>5 DEF TypeOK
<1>7. CASE FinishItem(w)
  <2>1. FlagsOK'
    BY <1>7, <1>t DEF FlagsOK, FinishItem
  <2>2. CountersOK'
    BY <1>7, <1>t DEF CountersOK, Counters, FinishItem
  <2>3. ChannelsOK'
    BY <1>7, <1>t DEF ChannelsOK, FinishItem
  <2>4. ProgramOK'
    BY <1>7, <1>t, ThreadsAssumption
    DEF ProgramOK, Threads, WorkerLabels, CallerLabels, DownloadLabels,
        FinishItem
  <2>5. LocalsOK'
    BY <1>7, <1>t, ThreadsAssumption
    DEF ProgramOK, LocalsOK, Threads, Holding, At, FinishItem
  <2> QED BY <2>1, <2>2, <2>3, <2>4, <2>5 DEF TypeOK
<1>8. CASE EnqueueOrDownload(w)
  BY <1>8, TypeEnqueueOrDownload DEF Threads
<1> QED BY <1>1, <1>2, <1>3, <1>4, <1>5, <1>6, <1>7, <1>8 DEF Work

LEMMA TypeNext == TypeOK /\ [Next]_vars => TypeOK'
<1> SUFFICES ASSUME TypeOK, [Next]_vars PROVE TypeOK'
  OBVIOUS
<1>t. FlagsOK /\ CountersOK /\ ChannelsOK /\ ProgramOK /\ LocalsOK
  BY DEF TypeOK
<1> USE DEF lifecycle, locals, history
<1>1. ASSUME NEW c \in Callers, Call(c) PROVE TypeOK'
  BY <1>1, TypeCall
<1>2. ASSUME NEW c \in Callers, Continue(c) PROVE TypeOK'
  BY <1>2, TypeContinue
<1>3. ASSUME NEW w \in Workers, Work(w) PROVE TypeOK'
  BY <1>3, TypeWork
<1>4. CASE Drain
  <2> USE DEF Drain, Goto, Resume, Senders, At
  <2>1. FlagsOK'
    BY <1>4, <1>t DEF FlagsOK
  <2>2. CountersOK'
    BY <1>4, <1>t DEF CountersOK, Counters
  <2>3. ChannelsOK'
    BY <1>4, <1>t DEF ChannelsOK
  <2>4. ProgramOK'
    BY <1>4, <1>t, ThreadsAssumption
    DEF ProgramOK, Threads, WorkerLabels, CallerLabels, DownloadLabels
  <2>5. LocalsOK'
    BY <1>4, <1>t, ThreadsAssumption DEF ProgramOK, LocalsOK, Threads, Holding
  <2> QED BY <2>1, <2>2, <2>3, <2>4, <2>5 DEF TypeOK
<1>5. CASE UNCHANGED vars
  <2> USE DEF vars
  <2>1. FlagsOK'
    BY <1>5, <1>t DEF FlagsOK
  <2>2. CountersOK'
    BY <1>5, <1>t DEF CountersOK, Counters
  <2>3. ChannelsOK'
    BY <1>5, <1>t DEF ChannelsOK
  <2>4. ProgramOK'
    BY <1>5, <1>t DEF ProgramOK
  <2>5. LocalsOK'
    BY <1>5, <1>t DEF LocalsOK, Holding, At
  <2> QED BY <2>1, <2>2, <2>3, <2>4, <2>5 DEF TypeOK
<1> QED BY <1>1, <1>2, <1>3, <1>4, <1>5 DEF Next

\* Every field of the crawler struct and every goroutine's locals keep their
\* types: in particular nobody downloads or sends an item it does not hold.
THEOREM TypeCorrect == Spec => []TypeOK
  BY TypeInit, TypeNext, PTL DEF Spec

============================================================================
