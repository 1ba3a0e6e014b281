------------------------- MODULE CrawlerStopProofs -------------------------
(* What Stop does to the crawler: no goroutine panics where a callback is  *)
(* set before the crawl and Stop is called once, and a Stop that comes     *)
(* after a download finds the crawler running.                             *)
EXTENDS CrawlerPoolProofs

----------------------------------------------------------------------------
(* The callback.                                                           *)

\* Between doDownload's look at the callbacks and the delivery.
Snapshotted == {"enter", "leaveQueue", "decide", "fetch", "fetched", "skipping", "deliver"}

\* Everybody has the callback, and nobody sends to the output channel.
CallbackSet ==
    /\ onDownloaded
    /\ \A t \in Threads : pc[t] # "send" /\ (pc[t] \in Snapshotted => cb[t])

\* Threads that change their place go to one without the callback.
LEMMA CallbackKept ==
  ASSUME CallbackSet, onDownloaded', UNCHANGED cb,
         \A t \in Threads : pc'[t] = pc[t] \/ pc'[t] \notin Snapshotted \cup {"send"}
  PROVE  CallbackSet'
BY DEF CallbackSet

\* One thread goes to another place, where it has or needs no callback.
LEMMA CallbackMoves ==
  ASSUME TypeOK, CallbackSet, onDownloaded', NEW t \in Threads, NEW label, Goto(t, label),
         label # "send", NEW b, cb' = [cb EXCEPT ![t] = b], label \in Snapshotted => b
  PROVE  CallbackSet'
<1>t. pc \in [Threads -> WorkerLabels \cup CallerLabels] /\ cb \in [Threads -> BOOLEAN]
  BY DEF TypeOK, ProgramOK, LocalsOK
<1> SUFFICES ASSUME NEW u \in Threads
             PROVE  pc'[u] # "send" /\ (pc'[u] \in Snapshotted => cb'[u])
  BY DEF CallbackSet
<1>1. CASE u = t
  BY <1>t, <1>1 DEF Goto
<1>2. CASE u # t
  BY <1>t, <1>2 DEF Goto, CallbackSet
<1> QED BY <1>1, <1>2

LEMMA CallbackDownload ==
  ASSUME TypeOK, CallbackSet, NEW t \in Threads, EnqueueOrDownload(t)
  PROVE  CallbackSet'
<1>t. /\ pc \in [Threads -> WorkerLabels \cup CallerLabels] /\ cb \in [Threads -> BOOLEAN]
      /\ onDownloaded /\ pc[t] # "send" /\ (pc[t] \in Snapshotted => cb[t])
  BY DEF TypeOK, ProgramOK, LocalsOK, CallbackSet
<1>s. cb = [cb EXCEPT ![t] = cb[t]]
  BY <1>t
<1>r. Resume(t) # "send" /\ Resume(t) \notin Snapshotted
  BY DEF Resume, Snapshotted
<1> USE DEF Ready, lifecycle, locals
<1>1. CASE Count(t) \/ Push(t)
  <2>1. onDownloaded' /\ UNCHANGED cb
    BY <1>1, <1>t DEF Count, Push
  <2>2. \E label \in {"push", "autoqueue", "idle"} : Goto(t, label)
    BY <1>1 DEF Count, Push, Resume
  <2> QED BY <1>t, <2>1, <2>2, CallbackKept DEF Goto, Snapshotted
<1>2. CASE Snapshot(t)
  BY <1>2, <1>t, CallbackMoves DEF Snapshot, Snapshotted
<1>3. CASE EnterDownloading(t) \/ LeaveQueue(t) \/ Decide(t) \/ Fetch(t)
  <2>1. onDownloaded' /\ UNCHANGED cb /\ cb[t]
    BY <1>3, <1>t DEF EnterDownloading, LeaveQueue, Decide, Fetch, Snapshotted
  <2>2. \E label \in {"leaveQueue", "decide", "fetch", "skipping", "fetched"} : Goto(t, label)
    BY <1>3 DEF EnterDownloading, LeaveQueue, Decide, Fetch
  <2> QED BY <1>s, <2>1, <2>2, CallbackMoves
<1>4. CASE LeaveDownloading(t)
  <2>1. CASE pc[t] = "fetched" /\ Goto(t, "deliver") /\ UNCHANGED cb
    BY <1>4, <1>s, <1>t, <2>1, CallbackMoves DEF LeaveDownloading, Snapshotted
  <2>2. CASE Goto(t, Resume(t)) /\ cb' = [cb EXCEPT ![t] = FALSE]
    <3>1. onDownloaded'
      BY <1>4, <1>t DEF LeaveDownloading
    <3> QED BY <1>r, <2>2, <3>1, CallbackMoves
  <2> QED BY <1>4, <2>1, <2>2 DEF LeaveDownloading
<1>5. CASE Deliver(t)
  <2>1. Goto(t, Resume(t)) /\ cb' = [cb EXCEPT ![t] = FALSE] /\ onDownloaded'
    BY <1>5, <1>t DEF Deliver, MustSend, Snapshotted
  <2> QED BY <1>r, <2>1, CallbackMoves
<1>6. CASE SendOnClosed(t)
  BY <1>6, <1>t DEF SendOnClosed
<1> QED BY <1>1, <1>2, <1>3, <1>4, <1>5, <1>6 DEF EnqueueOrDownload

LEMMA CallbackNext == TypeOK /\ CallbackSet /\ [Next]_vars => CallbackSet'
<1> SUFFICES ASSUME TypeOK, CallbackSet, [Next]_vars PROVE CallbackSet'
  OBVIOUS
<1>t. /\ pc \in [Threads -> WorkerLabels \cup CallerLabels]
      /\ onDownloaded /\ Senders = {}
  BY DEF TypeOK, ProgramOK, CallbackSet, Senders, At
<1> USE DEF lifecycle, locals
<1>g. ASSUME NEW t \in Threads, NEW label, Goto(t, label), label \notin Snapshotted \cup {"send"},
             UNCHANGED cb, onDownloaded'
      PROVE  CallbackSet'
  BY <1>g, <1>t, CallbackKept DEF Goto
<1>k. ASSUME UNCHANGED <<pc, cb>>, onDownloaded' PROVE CallbackSet'
  BY <1>k, CallbackKept
<1>1. ASSUME NEW c \in Callers, Call(c) PROVE CallbackSet'
  <2>c. c \in Threads /\ UNCHANGED cb
    BY <1>1 DEF Call, Start, Stop, Enqueue, Download, Downloaded, DownloadedNotBlocking,
                SetOnDownloaded, SetWorkerCount, Threads
  <2>1. CASE \E next \in {"idle", "count", "receive", "poll"} : StartOnce(c, next)
    <3>1. PICK next \in {"idle", "count", "receive", "poll"} : StartOnce(c, next)
      BY <2>1
    <3>2. \A t \in Threads : pc'[t] = pc[t] \/ pc'[t] \in {next, "born"}
      BY <1>t, <3>1 DEF StartOnce, Goto
    <3> QED BY <1>t, <2>c, <3>1, <3>2, CallbackKept DEF StartOnce, Snapshotted
  <2>2. CASE Stop(c) \/ SetOnDownloaded(c) \/ \E i \in Seeds : Download(c, i)
    <3>1. \E label \in {"close", "idle", "drain", "snapshot"} : Goto(c, label)
      BY <2>2 DEF Stop, SetOnDownloaded, Download
    <3>2. onDownloaded'
      BY <1>t, <2>2 DEF Stop, SetOnDownloaded, Download
    <3> QED BY <1>g, <2>c, <3>1, <3>2 DEF Snapshotted
  <2>3. CASE \E count \in 0 .. Cardinality(Workers) : SetWorkerCount(c, count)
    BY <1>k, <1>t, <2>3 DEF SetWorkerCount
  <2> QED BY <1>1, <2>1, <2>2, <2>3 DEF Call, Start, Enqueue, Downloaded, DownloadedNotBlocking
<1>2. ASSUME NEW c \in Callers, Continue(c) PROVE CallbackSet'
  <2>c. c \in Threads
    BY DEF Threads
  <2>1. CASE CloseChannels(c)
    BY <1>g, <1>k, <1>t, <2>1, <2>c DEF CloseChannels, Panic, Snapshotted
  <2>2. CASE SpawnDrainer(c)
    BY <1>g, <1>t, <2>2, <2>c DEF SpawnDrainer, Snapshotted
  <2>3. CASE Receive(c)
    BY <1>g, <1>t, <2>3, <2>c DEF Receive, Snapshotted
  <2> QED BY <1>2, <2>1, <2>2, <2>3, <2>c, CallbackDownload DEF Continue
<1>3. ASSUME NEW w \in Workers, Work(w) PROVE CallbackSet'
  <2>w. w \in Threads
    BY DEF Threads
  <2>1. CASE CountStarted(w) \/ CountRunning(w) \/ Take(w) \/ Exit(w) \/ AutoEnqueue(w) \/ FinishItem(w)
    <3>1. onDownloaded' /\ UNCHANGED cb
      BY <1>t, <2>1 DEF CountStarted, CountRunning, Take, Exit, AutoEnqueue, FinishItem
    <3>2. \E label \in {"started", "receiving", "snapshot", "exited", "count"} : Goto(w, label)
      BY <2>1 DEF CountStarted, CountRunning, Take, Exit, AutoEnqueue, FinishItem
    <3> QED BY <1>g, <2>w, <3>1, <3>2 DEF Snapshotted
  <2>2. CASE FindLinks(w)
    BY <1>k, <1>t, <2>2 DEF FindLinks
  <2> QED BY <1>3, <2>1, <2>2, <2>w, CallbackDownload DEF Work
<1>4. CASE Drain
  BY <1>k, <1>t, <1>4 DEF Drain
<1>5. CASE UNCHANGED vars
  BY <1>k, <1>t, <1>5 DEF vars
<1> QED BY <1>1, <1>2, <1>3, <1>4, <1>5 DEF Next

LEMMA CallbackInvariant == InitialCallback => (Spec => []CallbackSet)
<1> SUFFICES ASSUME InitialCallback PROVE Spec => []CallbackSet
  OBVIOUS
<1>1. Init => CallbackSet
  BY DEF Init, CallbackSet, Snapshotted
<1>2. PoolInv /\ CallbackSet /\ [Next]_vars => CallbackSet'
  BY CallbackNext DEF PoolInv
<1> QED BY <1>1, <1>2, PoolInvariant, PTL DEF Spec

----------------------------------------------------------------------------
(* One call of Stop.                                                       *)

\* Stop is called at most once and only this call closes the channels.
OneStop ==
    /\ calls["Stop"] \in {0, 1}
    /\ calls["Stop"] = 0 => output # "closed" /\ \A t \in Threads : pc[t] # "close"
    /\ \A t, u \in Threads : pc[t] = "close" /\ pc[u] = "close" => t = u
    /\ \A t \in Threads : pc[t] = "close" => output # "closed"

\* A step that leaves Stop alone.
NoStop ==
    /\ calls'["Stop"] = calls["Stop"]
    /\ output' = output \/ output' # "closed"
    /\ \A t \in Threads : pc'[t] = pc[t] \/ pc'[t] # "close"

LEMMA NoStopDownload ==
  ASSUME TypeOK, NEW t \in Threads, EnqueueOrDownload(t)
  PROVE  NoStop
<1>t. pc \in [Threads -> WorkerLabels \cup CallerLabels]
  BY DEF TypeOK, ProgramOK
<1>1. UNCHANGED <<calls, output>>
  BY DEF EnqueueOrDownload, Count, Push, Snapshot, EnterDownloading, LeaveQueue, Decide,
         Fetch, LeaveDownloading, Deliver, SendOnClosed, Panic, lifecycle, history
<1>2. UNCHANGED pc \/ \E label \in WorkerLabels \cup {"idle"} : Goto(t, label)
  BY DEF EnqueueOrDownload, Count, Push, Snapshot, EnterDownloading, LeaveQueue, Decide,
         Fetch, LeaveDownloading, Deliver, SendOnClosed, Panic, Resume, WorkerLabels,
         DownloadLabels
<1> QED BY <1>t, <1>1, <1>2 DEF NoStop, Goto, WorkerLabels, DownloadLabels

LEMMA NoStopWork ==
  ASSUME TypeOK, NEW w \in Workers, Work(w)
  PROVE  NoStop
<1>w. w \in Threads
  BY DEF Threads
<1>t. pc \in [Threads -> WorkerLabels \cup CallerLabels]
  BY DEF TypeOK, ProgramOK
<1>1. CASE EnqueueOrDownload(w)
  BY <1>1, <1>w, NoStopDownload
<1>2. CASE ~EnqueueOrDownload(w)
  <2>1. UNCHANGED <<calls, output>>
    BY <1>2 DEF Work, CountStarted, CountRunning, Take, Exit, FindLinks, AutoEnqueue,
                FinishItem, lifecycle, history
  <2>2. UNCHANGED pc \/ \E label \in WorkerLabels : Goto(w, label)
    BY <1>2 DEF Work, CountStarted, CountRunning, Take, Exit, FindLinks, AutoEnqueue,
                FinishItem, WorkerLabels, DownloadLabels
  <2> QED BY <1>t, <1>w, <2>1, <2>2 DEF NoStop, Goto, WorkerLabels, DownloadLabels
<1> QED BY <1>1, <1>2

\* Any other call.
LEMMA OtherCall ==
  ASSUME TypeOK, NEW c, NEW f \in APINames \ {"Stop"}, Enter(c, f)
  PROVE  ~Stop(c)
BY DEF TypeOK, CountersOK, Stop, Enter, APINames

LEMMA NoStopCall ==
  ASSUME PoolInv, NEW c \in Callers, Call(c), ~Stop(c)
  PROVE  NoStop
<1>c. c \in Threads
  BY DEF Threads
<1>t. pc \in [Threads -> WorkerLabels \cup CallerLabels] /\ calls \in [APINames -> Nat]
  BY DEF PoolInv, TypeOK, ProgramOK, CountersOK
<1>1. calls'["Stop"] = calls["Stop"]
  <2>1. \E f \in APINames \ {"Stop"} : Enter(c, f)
    BY DEF Call, Start, Enqueue, Download, Downloaded, DownloadedNotBlocking,
           SetOnDownloaded, SetWorkerCount, APINames
  <2> QED BY <1>t, <2>1 DEF Enter, APINames
<1>2. output' = output \/ output' # "closed"
  BY DEF Call, Start, Enqueue, Download, Downloaded, DownloadedNotBlocking,
         SetOnDownloaded, SetWorkerCount, StartOnce, lifecycle
<1>3. \A t \in Threads : pc'[t] = pc[t] \/ pc'[t] # "close"
  <2>1. CASE \E next \in {"idle", "count", "receive", "poll"} : StartOnce(c, next)
    BY <1>t, <2>1 DEF StartOnce, Goto
  <2>2. CASE UNCHANGED pc \/ \E label \in {"snapshot", "idle", "drain"} : Goto(c, label)
    BY <1>t, <2>2 DEF Goto
  <2> QED BY <2>1, <2>2 DEF Call, Start, Enqueue, Download, Downloaded,
             DownloadedNotBlocking, SetOnDownloaded, SetWorkerCount
<1> QED BY <1>1, <1>2, <1>3 DEF NoStop

LEMMA NoStopContinue ==
  ASSUME TypeOK, NEW c \in Callers, Continue(c), ~CloseChannels(c)
  PROVE  NoStop
<1>c. c \in Threads
  BY DEF Threads
<1>t. pc \in [Threads -> WorkerLabels \cup CallerLabels]
  BY DEF TypeOK, ProgramOK
<1>1. CASE EnqueueOrDownload(c)
  BY <1>1, <1>c, NoStopDownload
<1>2. CASE SpawnDrainer(c)
  BY <1>2, <1>t DEF SpawnDrainer, NoStop, Goto, history
<1>3. CASE Receive(c)
  BY <1>3, <1>t DEF Receive, NoStop, Goto, Resume, lifecycle
<1> QED BY <1>1, <1>2, <1>3 DEF Continue

LEMMA OneStopNext ==
  ASSUME Budget["Stop"] <= 1, PoolInv, OneStop, [Next]_vars
  PROVE  OneStop'
<1>t. /\ pc \in [Threads -> WorkerLabels \cup CallerLabels]
      /\ calls \in [APINames -> Nat] /\ calls["Stop"] \in Nat
      /\ output \in {"nil", "open", "closed"} /\ Budget["Stop"] \in Nat
  BY ParametersAssumption DEF PoolInv, TypeOK, ProgramOK, CountersOK, ChannelsOK, APINames
<1>n. ASSUME NoStop PROVE OneStop'
  BY <1>n DEF NoStop, OneStop
<1>1. ASSUME NEW c \in Callers, Stop(c) PROVE OneStop'
  <2>1. calls["Stop"] = 0 /\ calls'["Stop"] = 1
    BY <1>1, <1>t DEF Stop, Enter, APINames
  <2>2. \A t \in Threads : pc'[t] = "close" => t = c
    BY <1>1, <1>t, <2>1 DEF Stop, Goto, OneStop
  <2>3. output' # "closed"
    BY <1>1, <2>1 DEF Stop, OneStop, lifecycle
  <2> QED BY <2>1, <2>2, <2>3 DEF OneStop
<1>2. ASSUME NEW c \in Callers, CloseChannels(c) PROVE OneStop'
  <2>c. c \in Threads /\ pc[c] = "close"
    BY <1>2 DEF Threads, CloseChannels, Ready
  <2>1. calls["Stop"] = 1 /\ output # "closed"
    BY <2>c DEF OneStop
  <2>2. UNCHANGED calls /\ Goto(c, "idle")
    BY <1>2, <2>1 DEF CloseChannels, history
  <2>3. \A t \in Threads : pc'[t] # "close"
    BY <1>t, <2>c, <2>2 DEF Goto, OneStop
  <2> QED BY <2>1, <2>2, <2>3 DEF OneStop
<1>3. CASE Drain
  BY <1>3, <1>t, <1>n DEF Drain, NoStop, Goto, Resume
<1>4. CASE UNCHANGED vars
  BY <1>4, <1>n DEF vars, lifecycle, history, NoStop
<1> QED BY <1>1, <1>2, <1>3, <1>4, <1>n, NoStopWork, NoStopCall, NoStopContinue
        DEF Next, PoolInv

\* What a panic takes: a thread that sends, closes a closed channel or pushes
\* into a closed queue.
LEMMA PanicCauses ==
  ASSUME PoolInv, ~panicked, [Next]_vars, panicked'
  PROVE  \E t \in Threads :
             \/ pc[t] = "send"
             \/ pc[t] = "close" /\ output = "closed"
<1>t. Lifecycle
  BY DEF PoolInv
<1> USE DEF lifecycle
<1>d. ASSUME NEW t \in Threads, EnqueueOrDownload(t) PROVE pc[t] = "send"
  <2>1. ~Push(t)
    BY <1>t DEF Push, MaySend, Lifecycle, Ready
  <2>2. SendOnClosed(t)
    BY <1>d, <2>1 DEF EnqueueOrDownload, Count, Snapshot, EnterDownloading, LeaveQueue,
                      Decide, Fetch, LeaveDownloading, Deliver
  <2> QED BY <2>2 DEF SendOnClosed, Ready
<1>1. ASSUME NEW c \in Callers, Call(c) PROVE FALSE
  BY <1>1 DEF Call, Start, Stop, Enqueue, Download, Downloaded, DownloadedNotBlocking,
              SetOnDownloaded, SetWorkerCount, StartOnce
<1>2. ASSUME NEW c \in Callers, Continue(c)
      PROVE  pc[c] = "send" \/ (pc[c] = "close" /\ output = "closed")
  <2>1. CASE CloseChannels(c)
    BY <2>1 DEF CloseChannels, Ready
  <2>2. ~SpawnDrainer(c) /\ ~Receive(c)
    BY DEF SpawnDrainer, Receive
  <2> QED BY <1>2, <1>d, <2>1, <2>2 DEF Continue, Threads
<1>3. ASSUME NEW w \in Workers, Work(w) PROVE pc[w] = "send"
  BY <1>3, <1>d DEF Work, CountStarted, CountRunning, Take, Exit, FindLinks, AutoEnqueue,
       FinishItem, Threads
<1>4. ~Drain
  BY DEF Drain
<1>5. ~UNCHANGED vars
  BY DEF vars
<1> QED BY <1>1, <1>2, <1>3, <1>4, <1>5 DEF Next, Threads

\* With a callback from the beginning and one call of Stop at most, no
\* goroutine of crawler.go panics on a closed channel, whatever else is called.
THEOREM OneStopNoPanic ==
  InitialCallback /\ Budget["Stop"] <= 1 => (Spec => []NoPanic)
<1> SUFFICES ASSUME InitialCallback, Budget["Stop"] <= 1 PROVE Spec => []NoPanic
  OBVIOUS
<1>1. Init => OneStop /\ NoPanic
  BY ThreadsAssumption DEF Init, OneStop, NoPanic, Threads, APINames
<1>2. PoolInv /\ OneStop /\ [Next]_vars => OneStop'
  BY OneStopNext
<1>3. PoolInv /\ OneStop /\ CallbackSet /\ NoPanic /\ [Next]_vars => NoPanic'
  BY PanicCauses DEF OneStop, CallbackSet, NoPanic
<1> QED BY <1>1, <1>2, <1>3, PoolInvariant, CallbackInvariant, PTL DEF Spec

----------------------------------------------------------------------------
(* Where something was downloaded, a worker runs until Stop.               *)

\* A worker that workersRunning counts, or that has left.
Up(w) == pc[w] \notin {"unborn", "born", "started"}

Worked ==
    /\ calls["Download"] = 0 => \A c \in Callers : pc[c] \notin DownloadLabels
    /\ \A w \in Workers : pc[w] \notin {"unborn", "born"} => counts.workersStarted > 0
    /\ counts.downloaded + skipped > 0 /\ calls["Download"] = 0
           => \E w \in Workers : Up(w)

\* What every step does to it.
Proceeds ==
    /\ \A w \in Workers : Up(w) => Up(w)'
    /\ counts'.workersStarted >= counts.workersStarted
    /\ \A w \in Workers : pc'[w] \in {"unborn", "born"} \/ pc[w] \notin {"unborn", "born"}
                             \/ counts'.workersStarted > 0
    /\ \A c \in Callers : pc'[c] \in DownloadLabels
           => pc[c] \in DownloadLabels \/ calls'["Download"] > 0
    /\ calls'["Download"] = 0 => calls["Download"] = 0
    /\ \/ counts'.downloaded + skipped' = counts.downloaded + skipped
       \/ \E t \in Threads : pc[t] \in {"decide", "fetch"}

LEMMA WorkedNext ==
  ASSUME TypeOK, TypeOK', Worked, Proceeds
  PROVE  Worked'
<1>t. counts \in Counters /\ counts' \in Counters /\ skipped \in Nat
  BY DEF TypeOK, CountersOK
<1>1. calls'["Download"] = 0 => \A c \in Callers : pc'[c] \notin DownloadLabels
  BY DEF Worked, Proceeds
<1>2. \A w \in Workers : pc'[w] \notin {"unborn", "born"} => counts'.workersStarted > 0
  BY <1>t DEF Worked, Proceeds, Counters
<1>3. ASSUME counts'.downloaded + skipped' > 0, calls'["Download"] = 0
      PROVE  \E w \in Workers : Up(w)'
  <2>1. calls["Download"] = 0
    BY <1>3 DEF Proceeds
  <2>2. CASE counts.downloaded + skipped > 0
    BY <2>1, <2>2 DEF Worked, Proceeds
  <2>3. CASE \E t \in Threads : pc[t] \in {"decide", "fetch"}
    <3>1. PICK t \in Threads : pc[t] \in {"decide", "fetch"}
      BY <2>3
    <3>2. t \in Workers
      BY <2>1, <3>1 DEF Worked, DownloadLabels, Threads
    <3> QED BY <3>1, <3>2 DEF Up, Proceeds
  <2> QED BY <1>3, <2>2, <2>3 DEF Proceeds
<1> QED BY <1>1, <1>2, <1>3 DEF Worked, Up

\* A thread that is past its start goes to a place that is.
LEMMA ProceedsMove ==
  ASSUME TypeOK, NEW t \in Threads, NEW to, Goto(t, to), UNCHANGED calls,
         pc[t] \notin {"unborn", "born", "started"}, to \notin {"unborn", "born", "started"},
         t \in Callers /\ to \in DownloadLabels => pc[t] \in DownloadLabels,
         counts'.workersStarted = counts.workersStarted,
         \/ counts'.downloaded + skipped' = counts.downloaded + skipped
         \/ pc[t] \in {"decide", "fetch"}
  PROVE  Proceeds
<1>t. pc \in [Threads -> WorkerLabels \cup CallerLabels] /\ counts.workersStarted \in Nat
  BY DEF TypeOK, ProgramOK, CountersOK, Counters
<1>1. \A u \in Threads : pc'[u] = IF u = t THEN to ELSE pc[u]
  BY <1>t DEF Goto
<1>2. \A u \in Threads : u \in Workers \/ u \in Callers
  BY DEF Threads
<1> QED BY <1>t, <1>1, <1>2 DEF Proceeds, Up, Threads

LEMMA ProceedsDownload ==
  ASSUME TypeOK, NEW t \in Threads, EnqueueOrDownload(t)
  PROVE  Proceeds
<1>t. counts \in Counters /\ skipped \in Nat
  BY DEF TypeOK, CountersOK
<1>r. /\ Resume(t) \notin {"unborn", "born", "started"}
      /\ t \in Callers => Resume(t) \notin DownloadLabels
  BY ThreadsAssumption DEF Resume, DownloadLabels
<1> USE DEF Ready, history, locals, lifecycle
<1>1. CASE Count(t) \/ EnterDownloading(t) \/ LeaveQueue(t)
  <2>1. /\ UNCHANGED <<calls, skipped, counts.workersStarted, counts.downloaded>>
        /\ pc[t] \in {"count", "enter", "leaveQueue"}
    BY <1>1, <1>t DEF Count, EnterDownloading, LeaveQueue, Counters
  <2>2. \/ pc[t] = "count" /\ Goto(t, "push")
        \/ pc[t] = "enter" /\ Goto(t, "leaveQueue")
        \/ pc[t] = "leaveQueue" /\ Goto(t, "decide")
    BY <1>1 DEF Count, EnterDownloading, LeaveQueue
  <2> QED BY <2>1, <2>2, ProceedsMove DEF DownloadLabels
<1>2. CASE Push(t)
  <2>1. UNCHANGED <<calls, skipped, counts>> /\ pc[t] = "push" /\ Goto(t, Resume(t))
    BY <1>2 DEF Push
  <2> QED BY <1>r, <2>1, ProceedsMove
<1>3. CASE Snapshot(t)
  <2>1. UNCHANGED <<calls, skipped, counts>> /\ pc[t] = "snapshot" /\ Goto(t, "enter")
    BY <1>3 DEF Snapshot
  <2> QED BY <2>1, ProceedsMove DEF DownloadLabels
<1>4. CASE Decide(t)
  <2>1. UNCHANGED <<calls, counts>> /\ pc[t] = "decide"
    BY <1>4 DEF Decide
  <2>2. Goto(t, "fetch") \/ Goto(t, "skipping")
    BY <1>4 DEF Decide
  <2> QED BY <2>1, <2>2, ProceedsMove DEF DownloadLabels
<1>5. CASE Fetch(t)
  <2>1. UNCHANGED <<calls, counts.workersStarted>> /\ pc[t] = "fetch" /\ Goto(t, "fetched")
    BY <1>5, <1>t DEF Fetch, Counters
  <2> QED BY <2>1, ProceedsMove DEF DownloadLabels
<1>6. CASE LeaveDownloading(t)
  <2>1. UNCHANGED <<calls, skipped, counts.workersStarted, counts.downloaded>>
    BY <1>6, <1>t DEF LeaveDownloading, Counters
  <2>2. pc[t] \in {"fetched", "skipping"} /\ (Goto(t, "deliver") \/ Goto(t, Resume(t)))
    BY <1>6 DEF LeaveDownloading
  <2> QED BY <1>r, <2>1, <2>2, ProceedsMove DEF DownloadLabels
<1>7. CASE Deliver(t)
  <2>1. UNCHANGED <<calls, skipped, counts>> /\ pc[t] = "deliver"
    BY <1>7 DEF Deliver
  <2>2. Goto(t, "send") \/ Goto(t, Resume(t))
    BY <1>7 DEF Deliver
  <2> QED BY <1>r, <2>1, <2>2, ProceedsMove DEF DownloadLabels
<1>8. CASE SendOnClosed(t)
  BY <1>8, <1>t DEF SendOnClosed, Panic, Proceeds, Up, Counters
<1> QED BY <1>1, <1>2, <1>3, <1>4, <1>5, <1>6, <1>7, <1>8 DEF EnqueueOrDownload

LEMMA ProceedsWork ==
  ASSUME TypeOK, NEW w \in Workers, Work(w)
  PROVE  Proceeds
<1>t. /\ counts \in Counters /\ skipped \in Nat /\ w \in Threads /\ w \notin Callers
      /\ pc \in [Threads -> WorkerLabels \cup CallerLabels]
  BY ThreadsAssumption DEF TypeOK, CountersOK, ProgramOK, Threads
<1> USE DEF Ready, history, locals, lifecycle
<1>1. CASE CountStarted(w)
  <2>1. counts'.workersStarted > 0 /\ counts'.workersStarted >= counts.workersStarted
    BY <1>1, <1>t DEF CountStarted, Counters
  <2>2. UNCHANGED <<calls, skipped, counts.downloaded>>
    BY <1>1, <1>t DEF CountStarted, Counters
  <2>3. \A u \in Threads : pc'[u] = pc[u] \/ (u = w /\ pc[u] = "born")
    BY <1>1, <1>t DEF CountStarted, Goto
  <2>4. \A u \in Workers : Up(u) => Up(u)'
    BY <2>3 DEF Up, Threads
  <2>5. \A b \in Callers : pc'[b] = pc[b]
    BY <1>t, <2>3 DEF Threads
  <2> QED BY <1>t, <2>1, <2>2, <2>4, <2>5 DEF Proceeds
<1>2. CASE CountRunning(w)
  <2>1. UNCHANGED <<calls, skipped, counts.downloaded, counts.workersStarted>>
    BY <1>2, <1>t DEF CountRunning, Counters
  <2>2. \A u \in Threads : pc'[u] = pc[u] \/ (u = w /\ pc[u] = "started" /\ pc'[u] = "receiving")
    BY <1>2, <1>t DEF CountRunning, Goto
  <2>3. counts.workersStarted \in Nat
    BY <1>t DEF Counters
  <2> QED BY <1>t, <2>1, <2>2, <2>3 DEF Proceeds, Up, Threads
<1>3. CASE Take(w) \/ Exit(w) \/ AutoEnqueue(w) \/ FinishItem(w)
  <2>1. UNCHANGED <<calls, skipped, counts.downloaded, counts.workersStarted>>
    BY <1>3, <1>t DEF Take, Exit, AutoEnqueue, FinishItem, Counters
  <2>2. /\ pc[w] \in {"receiving", "autoqueue"}
        /\ \E to \in {"snapshot", "exited", "count", "receiving"} : Goto(w, to)
    BY <1>3 DEF Take, Exit, AutoEnqueue, FinishItem
  <2> QED BY <1>t, <2>1, <2>2, ProceedsMove
<1>4. CASE FindLinks(w)
  <2>1. UNCHANGED <<pc, calls, skipped, counts.downloaded, counts.workersStarted>>
    BY <1>4, <1>t DEF FindLinks, Counters
  <2> QED BY <1>t, <2>1 DEF Proceeds, Up, Counters
<1> QED BY <1>t, <1>1, <1>2, <1>3, <1>4, ProceedsDownload DEF Work

LEMMA ProceedsCall ==
  ASSUME PoolInv, NEW c \in Callers, Call(c)
  PROVE  Proceeds
<1>t. /\ counts \in Counters /\ skipped \in Nat /\ c \in Threads /\ c \notin Workers
      /\ pc \in [Threads -> WorkerLabels \cup CallerLabels] /\ calls \in [APINames -> Nat]
      /\ Unstarted /\ counts.workersStarted \in Nat /\ calls["Download"] \in Nat
  BY ThreadsAssumption DEF PoolInv, TypeOK, CountersOK, ProgramOK, Threads, Counters, APINames
<1>1. counts' = counts /\ skipped' = skipped
  BY DEF Call, Start, Stop, Enqueue, Download, Downloaded, DownloadedNotBlocking,
         SetOnDownloaded, SetWorkerCount, Enter
<1>2. calls'["Download"] \in Nat /\ calls'["Download"] >= calls["Download"]
  <2>1. \E f \in APINames : calls' = [calls EXCEPT ![f] = @ + 1]
    BY DEF Call, Start, Stop, Enqueue, Download, Downloaded, DownloadedNotBlocking,
           SetOnDownloaded, SetWorkerCount, Enter, APINames
  <2> QED BY <1>t, <2>1 DEF APINames
<1>3. CASE \E next \in {"idle", "count", "receive", "poll"} : StartOnce(c, next)
  <2>1. \A w \in Workers : pc'[w] = pc[w] \/ (pc[w] = "unborn" /\ pc'[w] = "born")
    BY <1>3, <1>t DEF StartOnce, Goto, Unstarted, Threads
  <2>2. \A b \in Callers : pc'[b] = pc[b] \/ pc'[b] \notin DownloadLabels
    BY <1>3, <1>t, ThreadsAssumption DEF StartOnce, Goto, Threads, DownloadLabels
  <2> QED BY <1>t, <1>1, <1>2, <2>1, <2>2 DEF Proceeds, Up
<1>4. CASE UNCHANGED pc \/ \E to \in {"close", "idle", "drain"} : Goto(c, to)
  <2>1. \A w \in Workers : pc'[w] = pc[w]
    BY <1>4, <1>t DEF Goto, Threads
  <2>2. \A b \in Callers : pc'[b] = pc[b] \/ pc'[b] \notin DownloadLabels
    BY <1>4, <1>t DEF Goto, Threads, DownloadLabels
  <2> QED BY <1>t, <1>1, <1>2, <2>1, <2>2 DEF Proceeds, Up
<1>5. CASE \E i \in Seeds : Download(c, i)
  <2>1. \A w \in Workers : pc'[w] = pc[w]
    BY <1>5, <1>t DEF Download, Goto, Threads
  <2>2. calls'["Download"] > 0
    BY <1>5, <1>t DEF Download, Enter, APINames
  <2> QED BY <1>t, <1>1, <1>2, <2>1, <2>2 DEF Proceeds, Up
<1> QED BY <1>3, <1>4, <1>5 DEF Call, Start, Stop, Enqueue, Downloaded,
        DownloadedNotBlocking, SetOnDownloaded, SetWorkerCount

LEMMA ProceedsNext == PoolInv /\ [Next]_vars => Proceeds
<1> SUFFICES ASSUME PoolInv, [Next]_vars PROVE Proceeds
  OBVIOUS
<1>t. /\ TypeOK /\ counts \in Counters /\ skipped \in Nat
      /\ pc \in [Threads -> WorkerLabels \cup CallerLabels] /\ counts.workersStarted \in Nat
  BY DEF PoolInv, TypeOK, CountersOK, ProgramOK, Counters
<1>k. ASSUME UNCHANGED <<calls, counts, skipped>>,
             \A t \in Threads : pc'[t] = pc[t] \/ (pc[t] = "send" /\ pc'[t] = Resume(t))
                                  \/ (t \in Callers /\ pc'[t] \notin DownloadLabels)
      PROVE  Proceeds
  <2>1. \A w \in Workers : Up(w) => Up(w)'
    BY <1>k, ThreadsAssumption DEF Up, Threads, Resume
  <2>2. \A c \in Callers : pc'[c] \in DownloadLabels => pc[c] \in DownloadLabels
    BY <1>k, ThreadsAssumption DEF Threads, DownloadLabels, Resume
  <2>3. \A w \in Workers : pc'[w] \in {"unborn", "born"} \/ pc[w] \notin {"unborn", "born"}
    BY <1>k, ThreadsAssumption DEF Threads
  <2> QED BY <1>k, <1>t, <2>1, <2>2, <2>3 DEF Proceeds
<1>1. ASSUME NEW c \in Callers, Continue(c) PROVE Proceeds
  <2>c. c \in Threads
    BY DEF Threads
  <2>1. CASE CloseChannels(c) \/ SpawnDrainer(c)
    <3>1. UNCHANGED pc \/ Goto(c, "idle")
      BY <2>1 DEF CloseChannels, SpawnDrainer, Panic
    <3>2. UNCHANGED <<calls, counts, skipped>>
      BY <2>1 DEF CloseChannels, SpawnDrainer, Panic, history
    <3> QED BY <1>k, <1>t, <2>c, <3>1, <3>2 DEF Goto, DownloadLabels
  <2>2. CASE Receive(c)
    <3>1. UNCHANGED <<calls, counts, skipped>>
      BY <2>2 DEF Receive
    <3>2. Goto(c, "idle") \/ \E s \in Senders : pc' = [pc EXCEPT ![s] = Resume(s), ![c] = "idle"]
      BY <2>2 DEF Receive
    <3> QED BY <1>k, <1>t, <2>c, <3>1, <3>2 DEF Goto, Senders, At, DownloadLabels
  <2>3. CASE EnqueueOrDownload(c)
    BY <1>t, <2>3, <2>c, ProceedsDownload
  <2> QED BY <1>1, <2>1, <2>2, <2>3 DEF Continue
<1>2. CASE Drain
  <2>1. UNCHANGED <<calls, counts, skipped>>
    BY <1>2 DEF Drain
  <2>2. UNCHANGED pc \/ \E s \in Senders : Goto(s, Resume(s))
    BY <1>2 DEF Drain
  <2> QED BY <1>k, <1>t, <2>1, <2>2 DEF Goto, Senders, At
<1>3. CASE UNCHANGED vars
  BY <1>3, <1>k DEF vars, history
<1> QED BY <1>t, <1>1, <1>2, <1>3, ProceedsCall, ProceedsWork DEF Next

LEMMA WorkedInvariant == Spec => []Worked
<1>1. Init => Worked
  <2> SUFFICES ASSUME Init PROVE Worked
    OBVIOUS
  <2>1. \A t \in Threads : pc[t] = IF t \in Workers THEN "unborn" ELSE "idle"
    BY DEF Init
  <2>2. counts.downloaded + skipped = 0
    BY DEF Init
  <2> QED BY <2>1, <2>2, ThreadsAssumption DEF Worked, Threads, DownloadLabels
<1>2. PoolInv /\ PoolInv' /\ Worked /\ [Next]_vars => Worked'
  BY WorkedNext, ProceedsNext DEF PoolInv
<1> QED BY <1>1, <1>2, PoolInvariant, PTL DEF Spec

\* Stop finds the crawler running if something was downloaded and it was not stopped.
LEMMA StopFindsRunning ==
  ASSUME Accounts, DrainedBeforeExit, Worked, calls["Download"] = 0,
         counts.downloaded + skipped > 0, output # "closed"
  PROVE  HasStarted /\ IsRunning
<1>1. PICK w \in Workers : Up(w)
  BY DEF Worked
<1>2. HasStarted
  BY <1>1 DEF Up, Worked, HasStarted
<1>3. pc[w] # "exited"
  BY DEF DrainedBeforeExit, At, Threads
<1> QED BY <1>1, <1>2, <1>3, WorkerRuns DEF Up

\* enqueuedCount never falls.
LEMMA EnqueuedKept ==
  ASSUME TypeOK, [Next]_vars
  PROVE  counts.enqueued > 0 => counts'.enqueued > 0
<1>t. counts \in Counters
  BY DEF TypeOK, CountersOK
<1> USE DEF lifecycle, locals, history, Counters
<1>1. ASSUME NEW c \in Callers, Call(c) PROVE UNCHANGED counts
  BY <1>1 DEF Call, Start, Stop, Enqueue, Download, Downloaded, DownloadedNotBlocking,
              SetOnDownloaded, SetWorkerCount
<1>2. ASSUME NEW t \in Threads, EnqueueOrDownload(t)
      PROVE  counts.enqueued > 0 => counts'.enqueued > 0
  <2>1. CASE Count(t)
    BY <1>t, <2>1 DEF Count
  <2>2. CASE EnterDownloading(t) \/ LeaveQueue(t) \/ Fetch(t) \/ LeaveDownloading(t)
    BY <1>t, <2>2 DEF EnterDownloading, LeaveQueue, Fetch, LeaveDownloading
  <2>3. CASE Push(t) \/ Snapshot(t) \/ Decide(t) \/ Deliver(t) \/ SendOnClosed(t)
    BY <2>3 DEF Push, Snapshot, Decide, Deliver, SendOnClosed, Panic
  <2> QED BY <1>2, <2>1, <2>2, <2>3 DEF EnqueueOrDownload
<1>3. ASSUME NEW c \in Callers, Continue(c) PROVE counts.enqueued > 0 => counts'.enqueued > 0
  BY <1>2, <1>3 DEF Continue, CloseChannels, SpawnDrainer, Receive, Panic, Threads
<1>4. ASSUME NEW w \in Workers, Work(w) PROVE counts.enqueued > 0 => counts'.enqueued > 0
  <2>1. CASE EnqueueOrDownload(w)
    BY <1>2, <2>1 DEF Threads
  <2>2. CASE ~EnqueueOrDownload(w)
    BY <1>t, <1>4, <2>2 DEF Work, CountStarted, CountRunning, Take, Exit, FindLinks,
                            AutoEnqueue, FinishItem
  <2> QED BY <2>1, <2>2
<1>5. CASE Drain \/ UNCHANGED vars
  BY <1>5 DEF Drain, vars
<1> QED BY <1>1, <1>3, <1>4, <1>5 DEF Next

\* Nobody but itself takes a caller on from the beginning of doEnqueue or from the
\* critical section of Stop.
LEMMA CallerStays ==
  ASSUME TypeOK, [Next]_vars, NEW c \in Callers, pc[c] \in {"count", "close"},
         ~Count(c), ~CloseChannels(c)
  PROVE  pc'[c] = pc[c]
<1>t. /\ pc \in [Threads -> WorkerLabels \cup CallerLabels] /\ c \in Threads /\ c \notin Workers
  BY ThreadsAssumption DEF TypeOK, ProgramOK, Threads
<1> USE DEF Ready, lifecycle, locals, history
<1>g. ASSUME NEW t \in Threads, NEW to, Goto(t, to), t # c PROVE pc'[c] = pc[c]
  BY <1>g, <1>t DEF Goto
<1>1. ASSUME NEW d \in Callers, Call(d) PROVE pc'[c] = pc[c]
  <2>1. pc[d] = "idle" /\ d \in Threads
    BY <1>1 DEF Call, Start, Stop, Enqueue, Download, Downloaded, DownloadedNotBlocking,
                SetOnDownloaded, SetWorkerCount, Enter, Threads
  <2>2. CASE UNCHANGED pc \/ \E to : Goto(d, to)
    BY <1>g, <2>1, <2>2
  <2>3. CASE \E next \in {"idle", "count", "receive", "poll"} : StartOnce(d, next)
    BY <1>t, <2>1, <2>3 DEF StartOnce, Goto
  <2> QED BY <1>1, <2>2, <2>3 DEF Call, Start, Stop, Enqueue, Download, Downloaded,
            DownloadedNotBlocking, SetOnDownloaded, SetWorkerCount
<1>2. ASSUME NEW t \in Threads, EnqueueOrDownload(t) PROVE pc'[c] = pc[c]
  <2>1. UNCHANGED pc \/ \E to : Goto(t, to)
    BY <1>2 DEF EnqueueOrDownload, Count, Push, Snapshot, EnterDownloading, LeaveQueue,
                Decide, Fetch, LeaveDownloading, Deliver, SendOnClosed, Panic
  <2>2. t # c
    BY <1>2 DEF EnqueueOrDownload, Push, Snapshot, EnterDownloading, LeaveQueue,
                Decide, Fetch, LeaveDownloading, Deliver, SendOnClosed
  <2> QED BY <1>g, <2>1, <2>2
<1>3. ASSUME NEW d \in Callers, Continue(d) PROVE pc'[c] = pc[c]
  <2>d. d \in Threads
    BY DEF Threads
  <2>1. CASE CloseChannels(d)
    BY <1>g, <2>1, <2>d DEF CloseChannels, Panic
  <2>2. CASE SpawnDrainer(d)
    BY <1>g, <2>2, <2>d DEF SpawnDrainer
  <2>3. CASE Receive(d)
    BY <1>t, <2>3, <2>d DEF Receive, Goto, Senders, At
  <2> QED BY <1>2, <1>3, <2>d, <2>1, <2>2, <2>3 DEF Continue
<1>4. ASSUME NEW w \in Workers, Work(w) PROVE pc'[c] = pc[c]
  <2>w. w \in Threads /\ w # c
    BY <1>t DEF Threads
  <2>1. CASE EnqueueOrDownload(w)
    BY <1>2, <2>1, <2>w
  <2>2. CASE ~EnqueueOrDownload(w)
    <3>1. UNCHANGED pc \/ \E to : Goto(w, to)
      BY <1>4, <2>2 DEF Work, CountStarted, CountRunning, Take, Exit, FindLinks,
                        AutoEnqueue, FinishItem
    <3> QED BY <1>g, <2>w, <3>1
  <2> QED BY <2>1, <2>2
<1>5. CASE Drain
  BY <1>5, <1>g DEF Drain, Senders, At
<1>6. CASE UNCHANGED vars
  BY <1>6 DEF vars
<1> QED BY <1>1, <1>3, <1>4, <1>5, <1>6 DEF Next

LEMMA CountStays ==
  ASSUME TypeOK, [Next]_vars, NEW c \in Callers, pc[c] = "count"
  PROVE  pc'[c] = "count" \/ counts'.enqueued > 0
<1>1. ~CloseChannels(c)
  BY DEF CloseChannels, Ready
<1>2. Count(c) => counts'.enqueued > 0
  BY DEF TypeOK, CountersOK, Counters, Count
<1> QED BY <1>1, <1>2, CallerStays

LEMMA CloseStays ==
  ASSUME TypeOK, [Next]_vars, NEW c \in Callers, pc[c] = "close"
  PROVE  pc'[c] = "close" \/ output' = "closed"
<1>1. ~Count(c)
  BY DEF Count, Ready
<1>2. CloseChannels(c) => output' = "closed"
  BY DEF CloseChannels, Panic
<1> QED BY <1>1, <1>2, CallerStays

=============================================================================
