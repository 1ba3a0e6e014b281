------------------------ MODULE CrawlerCountsProofs ------------------------
(* The counters of the crawler agree with its queue and its threads, and   *)
(* no item or result is lost: theorems for every value of the constants.   *)
EXTENDS CrawlerProofs

LEMMA AtFinite ==
  ASSUME NEW L
  PROVE  IsFiniteSet(At(L)) /\ Cardinality(At(L)) \in Nat
<1>1. IsFiniteSet(Threads)
  BY ThreadsAssumption, FS_Union DEF Threads
<1>2. At(L) \in SUBSET Threads
  BY DEF At
<1> QED BY <1>1, <1>2, FS_Subset, FS_CardinalityType

\* One thread's move changes the number of threads at some labels by one at most.
LEMMA AtMoves ==
  ASSUME NEW CONSTANT L, NEW t \in Threads, NEW to, ProgramOK, Goto(t, to)
  PROVE  Cardinality(At(L)') = Cardinality(At(L))
             + (IF to \in L THEN 1 ELSE 0) - (IF pc[t] \in L THEN 1 ELSE 0)
<1> DEFINE rest == At(L) \ {t}
<1>1. At(L)' = IF to \in L THEN rest \cup {t} ELSE rest
  BY DEF At, Goto, ProgramOK
<1>2. IsFiniteSet(At(L)) /\ Cardinality(At(L)) \in Nat
  BY AtFinite
<1>3. /\ IsFiniteSet(rest)
      /\ Cardinality(rest) = Cardinality(At(L)) - (IF pc[t] \in L THEN 1 ELSE 0)
  BY <1>2, FS_RemoveElement DEF At
<1>4. Cardinality(rest \cup {t}) = Cardinality(rest) + 1
  BY <1>3, FS_AddElement
<1> QED BY <1>1, <1>2, <1>3, <1>4

(* The terms of the two invariants, each an integer of its own.            *)
nQueue == Len(queue)
nQueuing == Cardinality(Queuing)
nUnfinished == Cardinality(Unfinished)
nDownloading == Cardinality(Downloading)
nNotRunning == Cardinality(NotRunning)
nWorkers == Cardinality(Workers)
nDirect == calls["Download"]
cEnqueued == counts.enqueued
cQueuing == counts.queuing
cDownloading == counts.downloading
cDownloaded == counts.downloaded
cRunning == counts.workersRunning

Sums ==
    /\ cQueuing = nQueue + nQueuing + dropped - nDirect
    /\ cDownloading = nDownloading
    /\ cRunning = nWorkers - nNotRunning
    /\ cEnqueued + nDirect =
          nQueue + nUnfinished + cDownloaded + skipped + dropped

LEMMA SumsDefinition == Sums <=> CountersBalance /\ NothingLost
  BY DEF Sums, CountersBalance, NothingLost, nQueue, nQueuing, nUnfinished,
         nDownloading, nNotRunning, nWorkers, nDirect, cEnqueued, cQueuing,
         cDownloading, cDownloaded, cRunning

LEMMA SumTypes ==
  ASSUME TypeOK
  PROVE  /\ nQueue \in Nat /\ nQueuing \in Nat /\ nUnfinished \in Nat
         /\ nDownloading \in Nat /\ nNotRunning \in Nat /\ nWorkers \in Nat
         /\ nDirect \in Nat /\ cEnqueued \in Nat /\ cQueuing \in Int
         /\ cDownloading \in Int /\ cDownloaded \in Nat /\ cRunning \in Int
         /\ dropped \in Nat /\ skipped \in Nat
<1>1. nQueuing \in Nat /\ nUnfinished \in Nat /\ nDownloading \in Nat
      /\ nNotRunning \in Nat
  BY AtFinite DEF nQueuing, nUnfinished, nDownloading, nNotRunning, Queuing,
                  Unfinished, Downloading, NotRunning
<1>2. nWorkers \in Nat
  BY ThreadsAssumption, FS_CardinalityType DEF nWorkers
<1>3. nQueue \in Nat
  BY DEF nQueue, TypeOK, ChannelsOK
<1>4. nDirect \in Nat /\ dropped \in Nat /\ skipped \in Nat
  BY DEF nDirect, TypeOK, CountersOK, APINames
<1>5. cEnqueued \in Nat /\ cQueuing \in Int /\ cDownloading \in Int
      /\ cDownloaded \in Nat /\ cRunning \in Int
  BY DEF cEnqueued, cQueuing, cDownloading, cDownloaded, cRunning, TypeOK,
         CountersOK, Counters
<1> QED BY <1>1, <1>2, <1>3, <1>4, <1>5

\* 1 if a label belongs to a set of labels, else 0.
In(label, labels) == IF label \in labels THEN 1 ELSE 0

LEMMA CountsMove ==
  ASSUME NEW t \in Threads, NEW from, NEW to, ProgramOK, Ready(t, from), Goto(t, to)
  PROVE  /\ nQueuing' = nQueuing
                + In(to, {"push", "snapshot", "enter", "leaveQueue"})
                - In(from, {"push", "snapshot", "enter", "leaveQueue"})
         /\ nUnfinished' = nUnfinished
                + In(to, {"push", "snapshot", "enter", "leaveQueue", "decide", "fetch"})
                - In(from, {"push", "snapshot", "enter", "leaveQueue", "decide", "fetch"})
         /\ nDownloading' = nDownloading
                + In(to, {"leaveQueue", "decide", "fetch", "fetched", "skipping"})
                - In(from, {"leaveQueue", "decide", "fetch", "fetched", "skipping"})
         /\ nNotRunning' = nNotRunning
                + In(to, {"unborn", "born", "started", "exited"})
                - In(from, {"unborn", "born", "started", "exited"})
<1>1. pc[t] = from
  BY DEF Ready
<1>2. nQueuing' = nQueuing
         + In(to, {"push", "snapshot", "enter", "leaveQueue"})
         - In(from, {"push", "snapshot", "enter", "leaveQueue"})
  BY <1>1, AtMoves DEF nQueuing, Queuing, In
<1>3. nUnfinished' = nUnfinished
         + In(to, {"push", "snapshot", "enter", "leaveQueue", "decide", "fetch"})
         - In(from, {"push", "snapshot", "enter", "leaveQueue", "decide", "fetch"})
  BY <1>1, AtMoves DEF nUnfinished, Unfinished, In
<1>4. nDownloading' = nDownloading
         + In(to, {"leaveQueue", "decide", "fetch", "fetched", "skipping"})
         - In(from, {"leaveQueue", "decide", "fetch", "fetched", "skipping"})
  BY <1>1, AtMoves DEF nDownloading, Downloading, In
<1>5. nNotRunning' = nNotRunning
         + In(to, {"unborn", "born", "started", "exited"})
         - In(from, {"unborn", "born", "started", "exited"})
  BY <1>1, AtMoves DEF nNotRunning, NotRunning, In
<1> QED BY <1>2, <1>3, <1>4, <1>5

\* Only Start makes workers, and only once.
Unstarted == ~started => \A w \in Workers : pc[w] = "unborn"

Accounts == TypeOK /\ Unstarted /\ CountersBalance /\ NothingLost

\* A step that changes none of the terms keeps the sums.
LEMMA SameSums ==
  ASSUME Sums, UNCHANGED <<queue, counts, pc, calls, dropped, skipped>>
  PROVE  Sums'
  BY DEF Sums, nQueue, nQueuing, nUnfinished, nDownloading, nNotRunning, nWorkers,
         nDirect, cEnqueued, cQueuing, cDownloading, cDownloaded, cRunning, Queuing,
         Unfinished, Downloading, NotRunning, At

LEMMA PanicSums == ASSUME Sums, Panic PROVE Sums'
  BY SameSums DEF Panic, history

\* The effect of each step on the sums: the thread's move and the counter that the
\* step updates cancel out.
LEMMA SumsThreads ==
  ASSUME Accounts, NEW t \in Threads, EnqueueOrDownload(t)
  PROVE  Sums'
<1>t. ProgramOK /\ counts \in Counters /\ queue \in Seq(Item) /\ t \in Threads
  BY DEF Accounts, TypeOK, CountersOK, ChannelsOK, Threads
<1>s. Sums
  BY SumsDefinition DEF Accounts
<1>y. /\ nQueue \in Nat /\ nQueuing \in Nat /\ nUnfinished \in Nat
      /\ nDownloading \in Nat /\ nNotRunning \in Nat /\ nWorkers \in Nat
      /\ nDirect \in Nat /\ cEnqueued \in Nat /\ cQueuing \in Int
      /\ cDownloading \in Int /\ cDownloaded \in Nat /\ cRunning \in Int
      /\ dropped \in Nat /\ skipped \in Nat
  BY SumTypes DEF Accounts
<1>w. nWorkers' = nWorkers
  BY DEF nWorkers
<1> USE DEF lifecycle, locals, history
<1>r. Resume(t) \in {"autoqueue", "idle"}
  BY DEF Resume
<1>1. CASE Count(t)
  <2>0. Ready(t, "count") /\ Goto(t, "push")
    BY <1>1 DEF Count
  <2>1. /\ nQueuing' = nQueuing + 1 /\ nUnfinished' = nUnfinished + 1
        /\ nDownloading' = nDownloading /\ nNotRunning' = nNotRunning
    BY <1>t, <1>y, <2>0, CountsMove DEF In
  <2>2. /\ cEnqueued' = cEnqueued + 1 /\ cQueuing' = cQueuing + 1
        /\ cDownloading' = cDownloading /\ cDownloaded' = cDownloaded
        /\ cRunning' = cRunning
    BY <1>1, <1>t DEF Count, Counters, cEnqueued, cQueuing,
        cDownloading, cDownloaded, cRunning
  <2>3. nQueue' = nQueue /\ UNCHANGED <<nDirect, dropped, skipped>>
    BY <1>1, <1>t DEF Count, nQueue, nDirect
  <2> QED BY <1>s, <1>y, <1>w, <2>1, <2>2, <2>3 DEF Sums
<1>2. CASE Push(t)
  <2>0. Ready(t, "push") /\ Goto(t, Resume(t))
    BY <1>2 DEF Push
  <2>1. /\ nQueuing' = nQueuing - 1 /\ nUnfinished' = nUnfinished - 1
        /\ nDownloading' = nDownloading /\ nNotRunning' = nNotRunning
    BY <1>t, <1>r, <1>y, <2>0, CountsMove DEF In
  <2>2. /\ cEnqueued' = cEnqueued /\ cQueuing' = cQueuing
        /\ cDownloading' = cDownloading /\ cDownloaded' = cDownloaded
        /\ cRunning' = cRunning
    BY <1>2, <1>t DEF Push, Counters, cEnqueued, cQueuing,
        cDownloading, cDownloaded, cRunning
  <2>3. nDirect' = nDirect /\ skipped' = skipped
    BY <1>2 DEF Push, nDirect
  <2>4. \/ nQueue' = nQueue + 1 /\ dropped' = dropped
        \/ nQueue' = nQueue /\ dropped' = dropped + 1
    <3>0. item[t] \in Item
      BY <2>0 DEF Accounts, TypeOK, LocalsOK, Holding, At, Ready
    <3>1. CASE queue' = Append(queue, item[t]) /\ dropped' = dropped
      BY <3>0, <3>1, <1>t DEF nQueue
    <3>2. CASE queue' = queue /\ dropped' = dropped + 1
      BY <3>2 DEF nQueue
    <3> QED BY <1>2, <3>1, <3>2 DEF Push
  <2>5. CASE nQueue' = nQueue + 1 /\ dropped' = dropped
    BY <1>s, <1>y, <1>w, <2>1, <2>2, <2>3, <2>5 DEF Sums
  <2>6. CASE nQueue' = nQueue /\ dropped' = dropped + 1
    BY <1>s, <1>y, <1>w, <2>1, <2>2, <2>3, <2>6 DEF Sums
  <2> QED BY <2>4, <2>5, <2>6
<1>3. CASE Snapshot(t)
  <2>0. Ready(t, "snapshot") /\ Goto(t, "enter")
    BY <1>3 DEF Snapshot
  <2>1. /\ nQueuing' = nQueuing /\ nUnfinished' = nUnfinished
        /\ nDownloading' = nDownloading /\ nNotRunning' = nNotRunning
    BY <1>t, <1>y, <2>0, CountsMove DEF In
  <2>2. /\ cEnqueued' = cEnqueued /\ cQueuing' = cQueuing
        /\ cDownloading' = cDownloading /\ cDownloaded' = cDownloaded
        /\ cRunning' = cRunning
    BY <1>3, <1>t DEF Snapshot, Counters, cEnqueued, cQueuing,
        cDownloading, cDownloaded, cRunning
  <2>3. nQueue' = nQueue /\ UNCHANGED <<nDirect, dropped, skipped>>
    BY <1>3, <1>t DEF Snapshot, nQueue, nDirect
  <2> QED BY <1>s, <1>y, <1>w, <2>1, <2>2, <2>3 DEF Sums
<1>4. CASE EnterDownloading(t)
  <2>0. Ready(t, "enter") /\ Goto(t, "leaveQueue")
    BY <1>4 DEF EnterDownloading
  <2>1. /\ nQueuing' = nQueuing /\ nUnfinished' = nUnfinished
        /\ nDownloading' = nDownloading + 1 /\ nNotRunning' = nNotRunning
    BY <1>t, <1>y, <2>0, CountsMove DEF In
  <2>2. /\ cEnqueued' = cEnqueued /\ cQueuing' = cQueuing
        /\ cDownloading' = cDownloading + 1 /\ cDownloaded' = cDownloaded
        /\ cRunning' = cRunning
    BY <1>4, <1>t DEF EnterDownloading, Counters, cEnqueued, cQueuing,
        cDownloading, cDownloaded, cRunning
  <2>3. nQueue' = nQueue /\ UNCHANGED <<nDirect, dropped, skipped>>
    BY <1>4, <1>t DEF EnterDownloading, nQueue, nDirect
  <2> QED BY <1>s, <1>y, <1>w, <2>1, <2>2, <2>3 DEF Sums
<1>5. CASE LeaveQueue(t)
  <2>0. Ready(t, "leaveQueue") /\ Goto(t, "decide")
    BY <1>5 DEF LeaveQueue
  <2>1. /\ nQueuing' = nQueuing - 1 /\ nUnfinished' = nUnfinished
        /\ nDownloading' = nDownloading /\ nNotRunning' = nNotRunning
    BY <1>t, <1>y, <2>0, CountsMove DEF In
  <2>2. /\ cEnqueued' = cEnqueued /\ cQueuing' = cQueuing - 1
        /\ cDownloading' = cDownloading /\ cDownloaded' = cDownloaded
        /\ cRunning' = cRunning
    BY <1>5, <1>t DEF LeaveQueue, Counters, cEnqueued, cQueuing,
        cDownloading, cDownloaded, cRunning
  <2>3. nQueue' = nQueue /\ UNCHANGED <<nDirect, dropped, skipped>>
    BY <1>5, <1>t DEF LeaveQueue, nQueue, nDirect
  <2> QED BY <1>s, <1>y, <1>w, <2>1, <2>2, <2>3 DEF Sums
<1>6. CASE Decide(t)
  <2>0. \/ /\ Ready(t, "decide") /\ Goto(t, "fetch") /\ skipped' = skipped
        \/ /\ Ready(t, "decide") /\ Goto(t, "skipping") /\ skipped' = skipped + 1
    BY <1>6 DEF Decide
  <2>1. \/ /\ skipped' = skipped
           /\ nQueuing' = nQueuing /\ nUnfinished' = nUnfinished
           /\ nDownloading' = nDownloading /\ nNotRunning' = nNotRunning
        \/ /\ skipped' = skipped + 1
           /\ nQueuing' = nQueuing /\ nUnfinished' = nUnfinished - 1
           /\ nDownloading' = nDownloading /\ nNotRunning' = nNotRunning
    BY <1>t, <1>y, <2>0, CountsMove DEF In
  <2>2. /\ cEnqueued' = cEnqueued /\ cQueuing' = cQueuing
        /\ cDownloading' = cDownloading /\ cDownloaded' = cDownloaded
        /\ cRunning' = cRunning
    BY <1>6, <1>t DEF Decide, cEnqueued, cQueuing,
        cDownloading, cDownloaded, cRunning
  <2>3. UNCHANGED <<nQueue, nDirect, dropped>>
    BY <1>6 DEF Decide, nQueue, nDirect
  <2>4. CASE skipped' = skipped /\ nUnfinished' = nUnfinished
    BY <1>s, <1>y, <1>w, <2>1, <2>2, <2>3, <2>4 DEF Sums
  <2>5. CASE skipped' = skipped + 1 /\ nUnfinished' = nUnfinished - 1
    BY <1>s, <1>y, <1>w, <2>1, <2>2, <2>3, <2>5 DEF Sums
  <2> QED BY <2>1, <2>4, <2>5
<1>7. CASE Fetch(t)
  <2>0. Ready(t, "fetch") /\ Goto(t, "fetched")
    BY <1>7 DEF Fetch
  <2>1. /\ nQueuing' = nQueuing /\ nUnfinished' = nUnfinished - 1
        /\ nDownloading' = nDownloading /\ nNotRunning' = nNotRunning
    BY <1>t, <1>y, <2>0, CountsMove DEF In
  <2>2. /\ cEnqueued' = cEnqueued /\ cQueuing' = cQueuing
        /\ cDownloading' = cDownloading /\ cDownloaded' = cDownloaded + 1
        /\ cRunning' = cRunning
    BY <1>7, <1>t DEF Fetch, Counters, cEnqueued, cQueuing,
        cDownloading, cDownloaded, cRunning
  <2>3. nQueue' = nQueue /\ UNCHANGED <<nDirect, dropped, skipped>>
    BY <1>7, <1>t DEF Fetch, nQueue, nDirect
  <2> QED BY <1>s, <1>y, <1>w, <2>1, <2>2, <2>3 DEF Sums
<1>8. CASE LeaveDownloading(t)
  <2>0. \/ Ready(t, "fetched") /\ Goto(t, "deliver")
        \/ Ready(t, "skipping") /\ Goto(t, Resume(t))
    BY <1>8 DEF LeaveDownloading
  <2>1. /\ nQueuing' = nQueuing /\ nUnfinished' = nUnfinished
        /\ nDownloading' = nDownloading - 1 /\ nNotRunning' = nNotRunning
    BY <1>t, <1>r, <1>y, <2>0, CountsMove DEF In
  <2>2. /\ cEnqueued' = cEnqueued /\ cQueuing' = cQueuing
        /\ cDownloading' = cDownloading - 1 /\ cDownloaded' = cDownloaded
        /\ cRunning' = cRunning
    BY <1>8, <1>t DEF LeaveDownloading, Counters, cEnqueued, cQueuing,
        cDownloading, cDownloaded, cRunning
  <2>3. UNCHANGED <<nQueue, nDirect, dropped, skipped>>
    BY <1>8 DEF LeaveDownloading, nQueue, nDirect
  <2> QED BY <1>s, <1>y, <1>w, <2>1, <2>2, <2>3 DEF Sums
<1>9. CASE Deliver(t)
  <2>0. Ready(t, "deliver") /\ (Goto(t, "send") \/ Goto(t, Resume(t)))
    BY <1>9 DEF Deliver
  <2>1. /\ nQueuing' = nQueuing /\ nUnfinished' = nUnfinished
        /\ nDownloading' = nDownloading /\ nNotRunning' = nNotRunning
    BY <1>t, <1>r, <1>y, <2>0, CountsMove DEF In
  <2>2. /\ cEnqueued' = cEnqueued /\ cQueuing' = cQueuing
        /\ cDownloading' = cDownloading /\ cDownloaded' = cDownloaded
        /\ cRunning' = cRunning
    BY <1>9, <1>t DEF Deliver, cEnqueued, cQueuing,
        cDownloading, cDownloaded, cRunning
  <2>3. UNCHANGED <<nQueue, nDirect, dropped, skipped>>
    BY <1>9 DEF Deliver, nQueue, nDirect
  <2> QED BY <1>s, <1>y, <1>w, <2>1, <2>2, <2>3 DEF Sums
<1>10. CASE SendOnClosed(t)
  BY <1>10, <1>s, PanicSums DEF SendOnClosed
<1> QED BY <1>1, <1>2, <1>3, <1>4, <1>5, <1>6, <1>7, <1>8, <1>9, <1>10
        DEF EnqueueOrDownload

LEMMA SumsWorkers ==
  ASSUME Accounts, NEW w \in Workers, Work(w)
  PROVE  Sums'
<1>t. ProgramOK /\ counts \in Counters /\ queue \in Seq(Item) /\ w \in Threads
  BY DEF Accounts, TypeOK, CountersOK, ChannelsOK, Threads
<1>s. Sums
  BY SumsDefinition DEF Accounts
<1>y. /\ nQueue \in Nat /\ nQueuing \in Nat /\ nUnfinished \in Nat
      /\ nDownloading \in Nat /\ nNotRunning \in Nat /\ nWorkers \in Nat
      /\ nDirect \in Nat /\ cEnqueued \in Nat /\ cQueuing \in Int
      /\ cDownloading \in Int /\ cDownloaded \in Nat /\ cRunning \in Int
      /\ dropped \in Nat /\ skipped \in Nat
  BY SumTypes DEF Accounts
<1>w. nWorkers' = nWorkers
  BY DEF nWorkers
<1> USE DEF lifecycle, locals, history
<1>1. CASE CountStarted(w)
  <2>0. Ready(w, "born") /\ Goto(w, "started")
    BY <1>1 DEF CountStarted
  <2>1. /\ nQueuing' = nQueuing /\ nUnfinished' = nUnfinished
        /\ nDownloading' = nDownloading /\ nNotRunning' = nNotRunning
    BY <1>t, <1>y, <2>0, CountsMove DEF In
  <2>2. /\ cEnqueued' = cEnqueued /\ cQueuing' = cQueuing
        /\ cDownloading' = cDownloading /\ cDownloaded' = cDownloaded
        /\ cRunning' = cRunning
    BY <1>1, <1>t DEF CountStarted, Counters, cEnqueued, cQueuing,
        cDownloading, cDownloaded, cRunning
  <2>3. nQueue' = nQueue /\ UNCHANGED <<nDirect, dropped, skipped>>
    BY <1>1, <1>t DEF CountStarted, nQueue, nDirect
  <2> QED BY <1>s, <1>y, <1>w, <2>1, <2>2, <2>3 DEF Sums
<1>2. CASE CountRunning(w)
  <2>0. Ready(w, "started") /\ Goto(w, "receiving")
    BY <1>2 DEF CountRunning
  <2>1. /\ nQueuing' = nQueuing /\ nUnfinished' = nUnfinished
        /\ nDownloading' = nDownloading /\ nNotRunning' = nNotRunning - 1
    BY <1>t, <1>y, <2>0, CountsMove DEF In
  <2>2. /\ cEnqueued' = cEnqueued /\ cQueuing' = cQueuing
        /\ cDownloading' = cDownloading /\ cDownloaded' = cDownloaded
        /\ cRunning' = cRunning + 1
    BY <1>2, <1>t DEF CountRunning, Counters, cEnqueued, cQueuing,
        cDownloading, cDownloaded, cRunning
  <2>3. nQueue' = nQueue /\ UNCHANGED <<nDirect, dropped, skipped>>
    BY <1>2, <1>t DEF CountRunning, nQueue, nDirect
  <2> QED BY <1>s, <1>y, <1>w, <2>1, <2>2, <2>3 DEF Sums
<1>3. CASE Take(w)
  <2>0. Ready(w, "receiving") /\ Goto(w, "snapshot")
    BY <1>3 DEF Take
  <2>1. /\ nQueuing' = nQueuing + 1 /\ nUnfinished' = nUnfinished + 1
        /\ nDownloading' = nDownloading /\ nNotRunning' = nNotRunning
    BY <1>t, <1>y, <2>0, CountsMove DEF In
  <2>2. /\ cEnqueued' = cEnqueued /\ cQueuing' = cQueuing
        /\ cDownloading' = cDownloading /\ cDownloaded' = cDownloaded
        /\ cRunning' = cRunning
    BY <1>3, <1>t DEF Take, Counters, cEnqueued, cQueuing,
        cDownloading, cDownloaded, cRunning
  <2>3. nQueue' = nQueue - 1
    <3>1. queue # <<>> /\ queue' = Tail(queue)
      BY <1>3 DEF Take
    <3> QED BY <1>t, <3>1 DEF nQueue
  <2>4. UNCHANGED <<nDirect, dropped, skipped>>
    BY <1>3 DEF Take, nDirect
  <2> QED BY <1>s, <1>y, <1>w, <2>1, <2>2, <2>3, <2>4 DEF Sums
<1>4. CASE Exit(w)
  <2>0. Ready(w, "receiving") /\ Goto(w, "exited")
    BY <1>4 DEF Exit
  <2>1. /\ nQueuing' = nQueuing /\ nUnfinished' = nUnfinished
        /\ nDownloading' = nDownloading /\ nNotRunning' = nNotRunning + 1
    BY <1>t, <1>y, <2>0, CountsMove DEF In
  <2>2. /\ cEnqueued' = cEnqueued /\ cQueuing' = cQueuing
        /\ cDownloading' = cDownloading /\ cDownloaded' = cDownloaded
        /\ cRunning' = cRunning - 1
    BY <1>4, <1>t DEF Exit, Counters, cEnqueued, cQueuing,
        cDownloading, cDownloaded, cRunning
  <2>3. nQueue' = nQueue /\ UNCHANGED <<nDirect, dropped, skipped>>
    BY <1>4, <1>t DEF Exit, nQueue, nDirect
  <2> QED BY <1>s, <1>y, <1>w, <2>1, <2>2, <2>3 DEF Sums
<1>5. CASE AutoEnqueue(w)
  <2>0. Ready(w, "autoqueue") /\ Goto(w, "count")
    BY <1>5 DEF AutoEnqueue
  <2>1. /\ nQueuing' = nQueuing /\ nUnfinished' = nUnfinished
        /\ nDownloading' = nDownloading /\ nNotRunning' = nNotRunning
    BY <1>t, <1>y, <2>0, CountsMove DEF In
  <2>2. /\ cEnqueued' = cEnqueued /\ cQueuing' = cQueuing
        /\ cDownloading' = cDownloading /\ cDownloaded' = cDownloaded
        /\ cRunning' = cRunning
    BY <1>5, <1>t DEF AutoEnqueue, Counters, cEnqueued, cQueuing,
        cDownloading, cDownloaded, cRunning
  <2>3. nQueue' = nQueue /\ UNCHANGED <<nDirect, dropped, skipped>>
    BY <1>5, <1>t DEF AutoEnqueue, nQueue, nDirect
  <2> QED BY <1>s, <1>y, <1>w, <2>1, <2>2, <2>3 DEF Sums
<1>6. CASE FinishItem(w)
  <2>0. Ready(w, "autoqueue") /\ Goto(w, "receiving")
    BY <1>6 DEF FinishItem
  <2>1. /\ nQueuing' = nQueuing /\ nUnfinished' = nUnfinished
        /\ nDownloading' = nDownloading /\ nNotRunning' = nNotRunning
    BY <1>t, <1>y, <2>0, CountsMove DEF In
  <2>2. /\ cEnqueued' = cEnqueued /\ cQueuing' = cQueuing
        /\ cDownloading' = cDownloading /\ cDownloaded' = cDownloaded
        /\ cRunning' = cRunning
    BY <1>6, <1>t DEF FinishItem, Counters, cEnqueued, cQueuing,
        cDownloading, cDownloaded, cRunning
  <2>3. nQueue' = nQueue /\ UNCHANGED <<nDirect, dropped, skipped>>
    BY <1>6, <1>t DEF FinishItem, nQueue, nDirect
  <2> QED BY <1>s, <1>y, <1>w, <2>1, <2>2, <2>3 DEF Sums
<1>7. CASE FindLinks(w)
  <2>1. UNCHANGED <<nQueuing, nUnfinished, nDownloading, nNotRunning>>
    BY <1>7 DEF FindLinks, nQueuing, nUnfinished, nDownloading, nNotRunning,
                Queuing, Unfinished, Downloading, NotRunning, At
  <2>2. /\ cEnqueued' = cEnqueued /\ cQueuing' = cQueuing
        /\ cDownloading' = cDownloading /\ cDownloaded' = cDownloaded
        /\ cRunning' = cRunning
    BY <1>7, <1>t DEF FindLinks, Counters, cEnqueued, cQueuing,
        cDownloading, cDownloaded, cRunning
  <2>3. UNCHANGED <<nQueue, nDirect, dropped, skipped>>
    BY <1>7 DEF FindLinks, nQueue, nDirect
  <2> QED BY <1>s, <1>y, <1>w, <2>1, <2>2, <2>3 DEF Sums
<1>8. CASE EnqueueOrDownload(w)
  BY <1>8, <1>t, SumsThreads
<1> QED BY <1>1, <1>2, <1>3, <1>4, <1>5, <1>6, <1>7, <1>8 DEF Work

LEMMA StartMoves ==
  ASSUME ProgramOK, Unstarted, NEW c \in Callers, NEW f, Enter(c, f),
         NEW next \in {"idle", "count", "receive", "poll"}, StartOnce(c, next)
  PROVE  /\ UNCHANGED <<nQueuing, nUnfinished, nDownloading, nNotRunning>>
         /\ Unstarted'
<1>1. \A t \in Threads : \/ pc'[t] = pc[t]
                         \/ pc[t] = "unborn" /\ pc'[t] = "born"
                         \/ pc[t] = "idle" /\ pc'[t] = next
  BY ThreadsAssumption DEF ProgramOK, Unstarted, Enter, Ready, StartOnce, Goto, Threads
<1>2. Queuing' = Queuing /\ Unfinished' = Unfinished
  BY <1>1 DEF Queuing, Unfinished, At
<1>3. Downloading' = Downloading /\ NotRunning' = NotRunning
  BY <1>1 DEF Downloading, NotRunning, At
<1>4. Unstarted'
  BY ThreadsAssumption DEF ProgramOK, Unstarted, Enter, Ready, StartOnce, Goto, Threads
<1> QED BY <1>2, <1>3, <1>4
        DEF nQueuing, nUnfinished, nDownloading, nNotRunning

\* A caller's call: only Download changes a term, it takes one off queuingCount in
\* advance.
LEMMA SumsCalls ==
  ASSUME Accounts, NEW c \in Callers, Call(c)
  PROVE  Sums'
<1>t. /\ ProgramOK /\ counts \in Counters /\ queue \in Seq(Item) /\ c \in Threads
      /\ calls \in [APINames -> Nat]
  BY DEF Accounts, TypeOK, CountersOK, ChannelsOK, Threads
<1>s. Sums
  BY SumsDefinition DEF Accounts
<1>y. /\ nQueue \in Nat /\ nQueuing \in Nat /\ nUnfinished \in Nat
      /\ nDownloading \in Nat /\ nNotRunning \in Nat /\ nWorkers \in Nat
      /\ nDirect \in Nat /\ cEnqueued \in Nat /\ cQueuing \in Int
      /\ cDownloading \in Int /\ cDownloaded \in Nat /\ cRunning \in Int
      /\ dropped \in Nat /\ skipped \in Nat
  BY SumTypes DEF Accounts
<1>w. nWorkers' = nWorkers
  BY DEF nWorkers
<1>c. ASSUME UNCHANGED counts
      PROVE  UNCHANGED <<cEnqueued, cQueuing, cDownloading, cDownloaded, cRunning>>
  BY <1>c DEF cEnqueued, cQueuing, cDownloading, cDownloaded, cRunning
<1>k. ASSUME UNCHANGED <<queue, counts, dropped, skipped>>, nDirect' = nDirect,
             UNCHANGED <<nQueuing, nUnfinished, nDownloading, nNotRunning>>
      PROVE  Sums'
  <2>1. nQueue' = nQueue
    BY <1>k DEF nQueue
  <2> QED BY <1>c, <1>k, <1>s, <1>w, <2>1 DEF Sums
<1>u. Unstarted
  BY DEF Accounts
<1>d. ASSUME NEW f \in APINames, f # "Download", Enter(c, f)
      PROVE  nDirect' = nDirect /\ UNCHANGED <<dropped, skipped>>
  BY <1>t, <1>d DEF Enter, nDirect, APINames
<1>g. ASSUME NEW from, NEW to, Ready(c, from), Goto(c, to),
             from \in {"idle"}, to \in {"idle", "drain", "close"}
      PROVE  UNCHANGED <<nQueuing, nUnfinished, nDownloading, nNotRunning>>
  BY <1>t, <1>y, <1>g, CountsMove DEF In
<1>1. CASE Start(c)
  <2>1. Enter(c, "Start") /\ StartOnce(c, "idle") /\ UNCHANGED <<queue, counts>>
    BY <1>1 DEF Start
  <2>2. UNCHANGED <<nQueuing, nUnfinished, nDownloading, nNotRunning>>
    BY <1>t, <1>u, <2>1, StartMoves
  <2>3. nDirect' = nDirect /\ UNCHANGED <<dropped, skipped>>
    BY <1>d, <2>1 DEF APINames
  <2> QED BY <1>k, <2>1, <2>2, <2>3
<1>2. CASE Stop(c)
  <2>1. Enter(c, "Stop") /\ UNCHANGED <<queue, counts>>
    BY <1>2 DEF Stop
  <2>2. UNCHANGED <<nQueuing, nUnfinished, nDownloading, nNotRunning>>
    BY <1>2, <1>g DEF Stop, Enter
  <2>3. nDirect' = nDirect /\ UNCHANGED <<dropped, skipped>>
    BY <1>d, <2>1 DEF APINames
  <2> QED BY <1>k, <2>1, <2>2, <2>3
<1>3. CASE \E i \in Seeds : Enqueue(c, i)
  <2>1. Enter(c, "Enqueue") /\ StartOnce(c, "count") /\ UNCHANGED <<queue, counts>>
    BY <1>3 DEF Enqueue
  <2>2. UNCHANGED <<nQueuing, nUnfinished, nDownloading, nNotRunning>>
    BY <1>t, <1>u, <2>1, StartMoves
  <2>3. nDirect' = nDirect /\ UNCHANGED <<dropped, skipped>>
    BY <1>d, <2>1 DEF APINames
  <2> QED BY <1>k, <2>1, <2>2, <2>3
<1>4. CASE \E i \in Seeds : Download(c, i)
  <2>1. Ready(c, "idle") /\ Goto(c, "snapshot")
    BY <1>4 DEF Download, Enter
  <2>2. /\ nQueuing' = nQueuing + 1 /\ nUnfinished' = nUnfinished + 1
        /\ nDownloading' = nDownloading /\ nNotRunning' = nNotRunning
    BY <1>t, <1>y, <2>1, CountsMove DEF In
  <2>3. UNCHANGED <<queue, counts, dropped, skipped>>
    BY <1>4 DEF Download, Enter
  <2>4. nDirect' = nDirect + 1
    BY <1>4, <1>t DEF Download, Enter, nDirect, APINames
  <2>5. nQueue' = nQueue
    BY <2>3 DEF nQueue
  <2>6. UNCHANGED <<cEnqueued, cQueuing, cDownloading, cDownloaded, cRunning>>
    BY <1>c, <2>3
  <2> QED BY <1>s, <1>y, <1>w, <2>2, <2>3, <2>4, <2>5, <2>6 DEF Sums
<1>5. CASE Downloaded(c)
  <2>1. Enter(c, "Downloaded") /\ StartOnce(c, "receive") /\ UNCHANGED <<queue, counts>>
    BY <1>5 DEF Downloaded
  <2>2. UNCHANGED <<nQueuing, nUnfinished, nDownloading, nNotRunning>>
    BY <1>t, <1>u, <2>1, StartMoves
  <2>3. nDirect' = nDirect /\ UNCHANGED <<dropped, skipped>>
    BY <1>d, <2>1 DEF APINames
  <2> QED BY <1>k, <2>1, <2>2, <2>3
<1>6. CASE DownloadedNotBlocking(c)
  <2>1. /\ Enter(c, "DownloadedNotBlocking") /\ StartOnce(c, "poll")
        /\ UNCHANGED <<queue, counts>>
    BY <1>6 DEF DownloadedNotBlocking
  <2>2. UNCHANGED <<nQueuing, nUnfinished, nDownloading, nNotRunning>>
    BY <1>t, <1>u, <2>1, StartMoves
  <2>3. nDirect' = nDirect /\ UNCHANGED <<dropped, skipped>>
    BY <1>d, <2>1 DEF APINames
  <2> QED BY <1>k, <2>1, <2>2, <2>3
<1>7. CASE SetOnDownloaded(c)
  <2>1. Enter(c, "SetOnDownloaded") /\ UNCHANGED <<queue, counts>>
    BY <1>7 DEF SetOnDownloaded
  <2>2. UNCHANGED <<nQueuing, nUnfinished, nDownloading, nNotRunning>>
    BY <1>7, <1>g DEF SetOnDownloaded, Enter
  <2>3. nDirect' = nDirect /\ UNCHANGED <<dropped, skipped>>
    BY <1>d, <2>1 DEF APINames
  <2> QED BY <1>k, <2>1, <2>2, <2>3
<1>8. CASE \E count \in 0 .. Cardinality(Workers) : SetWorkerCount(c, count)
  <2>1. Enter(c, "SetWorkerCount") /\ UNCHANGED <<queue, counts, pc>>
    BY <1>8 DEF SetWorkerCount
  <2>2. UNCHANGED <<nQueuing, nUnfinished, nDownloading, nNotRunning>>
    BY <2>1 DEF nQueuing, nUnfinished, nDownloading, nNotRunning, Queuing,
                Unfinished, Downloading, NotRunning, At
  <2>3. nDirect' = nDirect /\ UNCHANGED <<dropped, skipped>>
    BY <1>d, <2>1 DEF APINames
  <2> QED BY <1>k, <2>1, <2>2, <2>3
<1> QED BY <1>1, <1>2, <1>3, <1>4, <1>5, <1>6, <1>7, <1>8 DEF Call

\* The rest of the API and the goroutine of SetOnDownloaded move threads only among
\* labels that no term counts.
LEMMA SumsChannels ==
  ASSUME Accounts,
         \/ \E c \in Callers : CloseChannels(c) \/ SpawnDrainer(c) \/ Receive(c)
         \/ Drain
  PROVE  Sums'
<1>t. ProgramOK /\ Callers \subseteq Threads
  BY DEF Accounts, TypeOK, Threads
<1>s. Sums
  BY SumsDefinition DEF Accounts
<1>k. ASSUME UNCHANGED <<queue, counts, calls, dropped, skipped>>,
             \A t \in Threads :
                pc'[t] = pc[t] \/ /\ pc[t] \in {"close", "drain", "receive", "poll", "send"}
                                  /\ pc'[t] \in {"idle", "autoqueue"}
      PROVE  Sums'
  <2>1. Queuing' = Queuing /\ Unfinished' = Unfinished
    BY <1>k DEF Queuing, Unfinished, At
  <2>2. Downloading' = Downloading /\ NotRunning' = NotRunning
    BY <1>k DEF Downloading, NotRunning, At
  <2> QED BY <1>k, <1>s, <2>1, <2>2
          DEF Sums, nQueue, nQueuing, nUnfinished, nDownloading, nNotRunning, nWorkers,
              nDirect, cEnqueued, cQueuing, cDownloading, cDownloaded, cRunning
<1> USE DEF history
<1>1. ASSUME NEW c \in Callers, CloseChannels(c) PROVE Sums'
  <2>1. CASE Panic
    BY <1>s, <2>1, PanicSums
  <2>2. CASE ~Panic
    BY <1>1, <1>k, <1>t, <2>2 DEF CloseChannels, Ready, Goto, ProgramOK
  <2> QED BY <2>1, <2>2
<1>2. ASSUME NEW c \in Callers, SpawnDrainer(c) PROVE Sums'
  BY <1>2, <1>k, <1>t DEF SpawnDrainer, Ready, Goto, ProgramOK
<1>3. ASSUME NEW c \in Callers, Receive(c) PROVE Sums'
  BY <1>3, <1>k, <1>t DEF Receive, Ready, Goto, ProgramOK, Senders, At, Resume
<1>4. CASE Drain
  BY <1>4, <1>k, <1>t DEF Drain, Goto, ProgramOK, Senders, At, Resume
<1> QED BY <1>1, <1>2, <1>3, <1>4

\* Work that is no worker's: a worker that was not spawned takes no step.
LEMMA UnstartedNext ==
  ASSUME TypeOK, Unstarted, [Next]_vars
  PROVE  Unstarted'
<1>t. ProgramOK /\ Workers \cap Callers = {}
  BY ThreadsAssumption DEF TypeOK
<1> USE DEF lifecycle, locals, history
<1>w. ASSUME NEW w \in Workers, pc[w] = "unborn" PROVE ~Work(w)
  BY <1>w DEF Work, CountStarted, CountRunning, Take, Exit, FindLinks, AutoEnqueue,
      FinishItem, EnqueueOrDownload, Count, Push, Snapshot, EnterDownloading,
      LeaveQueue, Decide, Fetch, LeaveDownloading, Deliver, SendOnClosed, Ready
<1>g. ASSUME NEW t \in Threads \ Workers, NEW to, Goto(t, to), UNCHANGED started
      PROVE  Unstarted'
  BY <1>g, <1>t DEF Unstarted, Goto, ProgramOK, Threads
<1>k. ASSUME UNCHANGED <<pc, started>> PROVE Unstarted'
  BY <1>k DEF Unstarted
<1>1. ASSUME NEW c \in Callers, Call(c) PROVE Unstarted'
  <2>0. c \in Threads \ Workers
    BY <1>t DEF Threads
  <2>s. ASSUME NEW next \in {"idle", "count", "receive", "poll"}, NEW f, Enter(c, f),
               StartOnce(c, next)
        PROVE  Unstarted'
    BY <1>t, <2>s, StartMoves
  <2>1. CASE Start(c)
    BY <2>1, <2>s DEF Start
  <2>2. CASE Stop(c)
    BY <2>0, <2>2, <1>g DEF Stop
  <2>3. CASE \E i \in Seeds : Enqueue(c, i)
    BY <2>3, <2>s DEF Enqueue
  <2>4. CASE \E i \in Seeds : Download(c, i)
    BY <2>0, <2>4, <1>g DEF Download
  <2>5. CASE Downloaded(c)
    BY <2>5, <2>s DEF Downloaded
  <2>6. CASE DownloadedNotBlocking(c)
    BY <2>6, <2>s DEF DownloadedNotBlocking
  <2>7. CASE SetOnDownloaded(c)
    BY <2>0, <2>7, <1>g DEF SetOnDownloaded
  <2>8. CASE \E count \in 0 .. Cardinality(Workers) : SetWorkerCount(c, count)
    BY <2>8, <1>k DEF SetWorkerCount
  <2> QED BY <1>1, <2>1, <2>2, <2>3, <2>4, <2>5, <2>6, <2>7, <2>8 DEF Call
<1>2. ASSUME NEW c \in Callers, Continue(c) PROVE Unstarted'
  <2>0. c \in Threads \ Workers
    BY <1>t DEF Threads
  <2>p. CASE Panic
    BY <2>p, <1>k DEF Panic
  <2>1. CASE CloseChannels(c)
    BY <2>0, <2>1, <2>p, <1>g DEF CloseChannels
  <2>2. CASE SpawnDrainer(c)
    BY <2>0, <2>2, <1>g DEF SpawnDrainer
  <2>3. CASE Receive(c)
    BY <1>t, <2>0, <2>3, <1>g DEF Receive, Senders, At, Unstarted, ProgramOK, Threads
  <2>4. CASE EnqueueOrDownload(c)
    BY <2>0, <2>4, <2>p, <1>g DEF EnqueueOrDownload, Count, Push, Snapshot,
        EnterDownloading, LeaveQueue, Decide, Fetch, LeaveDownloading, Deliver,
        SendOnClosed
  <2> QED BY <1>2, <2>1, <2>2, <2>3, <2>4 DEF Continue
<1>3. ASSUME NEW w \in Workers, Work(w) PROVE Unstarted'
  <2>1. pc[w] # "unborn"
    BY <1>3, <1>w
  <2>2. started' = started
    BY <1>3 DEF Work, CountStarted, CountRunning, Take, Exit, FindLinks, AutoEnqueue,
        FinishItem, EnqueueOrDownload, Count, Push, Snapshot, EnterDownloading,
        LeaveQueue, Decide, Fetch, LeaveDownloading, Deliver, SendOnClosed, Panic
  <2> QED BY <1>3, <2>1, <2>2 DEF Unstarted
<1>4. CASE Drain
  BY <1>t, <1>4 DEF Drain, Goto, Senders, At, Unstarted, ProgramOK, Threads
<1>5. CASE UNCHANGED vars
  BY <1>5, <1>k DEF vars
<1> QED BY <1>1, <1>2, <1>3, <1>4, <1>5 DEF Next

LEMMA AccountsInit == Init => Accounts
<1> SUFFICES ASSUME Init PROVE Accounts
  OBVIOUS
<1>1. TypeOK
  BY TypeInit
<1>2. \A t \in Threads : pc[t] = IF t \in Workers THEN "unborn" ELSE "idle"
  BY DEF Init
<1>3. Unstarted
  BY <1>2 DEF Unstarted, Threads
<1>4. Queuing = {} /\ Unfinished = {} /\ Downloading = {}
  BY <1>2 DEF Queuing, Unfinished, Downloading, At
<1>5. NotRunning = Workers
  BY <1>2, ThreadsAssumption DEF NotRunning, At, Threads
<1>6. Cardinality({}) = 0
  BY FS_EmptySet
<1>7. Cardinality(Workers) \in Nat
  BY ThreadsAssumption, FS_CardinalityType
<1>8. calls["Download"] = 0
  BY DEF Init, APINames
<1>9. CountersBalance /\ NothingLost
  BY <1>4, <1>5, <1>6, <1>7, <1>8 DEF Init, CountersBalance, NothingLost
<1> QED BY <1>1, <1>3, <1>9 DEF Accounts

LEMMA AccountsNext == Accounts /\ [Next]_vars => Accounts'
<1> SUFFICES ASSUME Accounts, [Next]_vars PROVE Accounts'
  OBVIOUS
<1>1. TypeOK' /\ Unstarted'
  BY TypeNext, UnstartedNext DEF Accounts
<1>2. Sums
  BY SumsDefinition DEF Accounts
<1>3. ASSUME UNCHANGED vars PROVE Sums'
  BY <1>2, <1>3, SameSums DEF vars, history
<1>4. ASSUME NEW c \in Callers, Call(c) \/ Continue(c) PROVE Sums'
  <2>1. CASE Call(c)
    BY <2>1, SumsCalls
  <2>2. CASE CloseChannels(c) \/ SpawnDrainer(c) \/ Receive(c)
    BY <2>2, SumsChannels
  <2>3. CASE EnqueueOrDownload(c)
    BY <2>3, SumsThreads DEF Threads
  <2> QED BY <1>4, <2>1, <2>2, <2>3 DEF Continue
<1>5. ASSUME NEW w \in Workers, Work(w) PROVE Sums'
  BY <1>5, SumsWorkers
<1>6. ASSUME Drain PROVE Sums'
  BY <1>6, SumsChannels
<1>7. Sums'
  BY <1>3, <1>4, <1>5, <1>6 DEF Next
<1>8. CountersBalance' /\ NothingLost'
  BY <1>7 DEF Sums, CountersBalance, NothingLost, nQueue, nQueuing, nUnfinished,
      nDownloading, nNotRunning, nWorkers, nDirect, cEnqueued, cQueuing,
      cDownloading, cDownloaded, cRunning
<1> QED BY <1>1, <1>8 DEF Accounts

\* The counters that callers read agree with the queue and the goroutines, for any
\* number of workers, callers and calls: CountersBalance of crawler.go's counters.
THEOREM CountersCorrect == Spec => []CountersBalance
<1>1. Accounts => CountersBalance
  BY DEF Accounts
<1> QED BY <1>1, AccountsInit, AccountsNext, PTL DEF Spec

\* No item is lost between doEnqueue and the end of its download, or worked on
\* twice: NothingLost.
THEOREM NothingIsLost == Spec => []NothingLost
<1>1. Accounts => NothingLost
  BY DEF Accounts
<1> QED BY <1>1, AccountsInit, AccountsNext, PTL DEF Spec

\* IsBusy covers the work of a crawler that nobody uses for direct downloads:
\* BusyCoversWork.
THEOREM BusyIsCovered == Spec => []BusyCoversWork
<1>1. ASSUME Accounts PROVE BusyCoversWork
  <2> SUFFICES ASSUME queue # <<>> \/ Queuing # {} \/ Downloading # {},
                      calls["Download"] = 0
               PROVE  IsBusy
    BY DEF BusyCoversWork
  <2>1. Sums
    BY <1>1, SumsDefinition DEF Accounts
  <2>2. /\ nQueue \in Nat /\ nQueuing \in Nat /\ nDownloading \in Nat
        /\ cQueuing \in Int /\ cDownloading \in Int /\ dropped \in Nat
    BY <1>1, SumTypes DEF Accounts
  <2>3. nQueue > 0 \/ nQueuing > 0 \/ nDownloading > 0
    <3>1. CASE queue # <<>>
      <4>1. queue \in Seq(Item)
        BY <1>1 DEF Accounts, TypeOK, ChannelsOK
      <4> QED BY <3>1, <4>1 DEF nQueue
    <3>2. CASE Queuing # {}
      BY <3>2, <2>2, AtFinite, FS_EmptySet DEF Queuing, nQueuing
    <3>3. CASE Downloading # {}
      BY <3>3, <2>2, AtFinite, FS_EmptySet DEF Downloading, nDownloading
    <3> QED BY <3>1, <3>2, <3>3
  <2>4. nDirect = 0
    BY DEF nDirect
  <2>5. cQueuing > 0 \/ cDownloading > 0
    BY <2>1, <2>2, <2>3, <2>4 DEF Sums
  <2> QED BY <2>5 DEF IsBusy, cQueuing, cDownloading
<1> QED BY <1>1, AccountsInit, AccountsNext, PTL DEF Spec

(***************************************************************************)
(* The results.                                                            *)
(***************************************************************************)

ResultLabels == {"fetched", "deliver", "send"}

nResults == Cardinality(At(ResultLabels))

\* The callers inside a direct download.
Direct == {c \in Callers : pc[c] \in DownloadLabels}

nInside == Cardinality(Direct)

\* The results that nobody got or will get: at most one per direct download.
nKept == counts.downloaded - delivered - nResults

Results == nKept >= 0 /\ nKept + nInside <= nDirect

LEMMA ResultTypes ==
  ASSUME TypeOK
  PROVE  /\ counts.downloaded \in Nat /\ delivered \in Nat /\ nDirect \in Nat
         /\ nResults \in Nat /\ nInside \in Nat /\ IsFiniteSet(Direct)
<1>1. IsFiniteSet(Direct) /\ nInside \in Nat
  <2>1. Direct \in SUBSET Callers
    BY DEF Direct
  <2> QED BY <2>1, ThreadsAssumption, FS_Subset, FS_CardinalityType DEF nInside
<1>2. nResults \in Nat
  BY AtFinite DEF nResults
<1>3. counts.downloaded \in Nat /\ delivered \in Nat /\ nDirect \in Nat
  BY DEF TypeOK, CountersOK, Counters, nDirect, APINames
<1> QED BY <1>1, <1>2, <1>3

\* One thread's move changes both numbers by one at most; what the others do within
\* or without the labels does not count.
LEMMA ResultsMove ==
  ASSUME TypeOK, NEW t \in Threads,
         \A u \in Threads : u # t =>
             /\ pc'[u] \in ResultLabels <=> pc[u] \in ResultLabels
             /\ u \in Callers => (pc'[u] \in DownloadLabels <=> pc[u] \in DownloadLabels)
  PROVE  /\ nResults' = nResults + In(pc'[t], ResultLabels) - In(pc[t], ResultLabels)
         /\ nInside' = nInside
                + (IF t \in Callers
                   THEN In(pc'[t], DownloadLabels) - In(pc[t], DownloadLabels) ELSE 0)
<1>1. nResults' = nResults + In(pc'[t], ResultLabels) - In(pc[t], ResultLabels)
  <2> DEFINE rest == At(ResultLabels) \ {t}
  <2>1. At(ResultLabels)' = IF pc'[t] \in ResultLabels THEN rest \cup {t} ELSE rest
    BY DEF At
  <2>2. IsFiniteSet(At(ResultLabels)) /\ Cardinality(At(ResultLabels)) \in Nat
    BY AtFinite
  <2>3. /\ IsFiniteSet(rest)
        /\ Cardinality(rest) = Cardinality(At(ResultLabels)) - In(pc[t], ResultLabels)
    <3>0. t \in At(ResultLabels) <=> pc[t] \in ResultLabels
      BY DEF At
    <3>1. t \in At(ResultLabels) => Cardinality(rest) = Cardinality(At(ResultLabels)) - 1
      BY <2>2, FS_RemoveElement
    <3>2. t \notin At(ResultLabels) => Cardinality(rest) = Cardinality(At(ResultLabels))
      <4>1. t \notin At(ResultLabels) => rest = At(ResultLabels)
        OBVIOUS
      <4> QED BY <4>1
    <3>3. IsFiniteSet(rest)
      BY <2>2, FS_Subset
    <3> HIDE DEF rest
    <3>4. CASE t \in At(ResultLabels)
      BY <2>2, <3>0, <3>1, <3>3, <3>4 DEF In
    <3>5. CASE t \notin At(ResultLabels)
      BY <2>2, <3>0, <3>2, <3>3, <3>5 DEF In
    <3> QED BY <3>4, <3>5
  <2>4. Cardinality(rest \cup {t}) = Cardinality(rest) + 1
    BY <2>3, FS_AddElement
  <2> QED BY <2>1, <2>2, <2>3, <2>4 DEF nResults, In
<1>2. nInside' = nInside
         + (IF t \in Callers
            THEN In(pc'[t], DownloadLabels) - In(pc[t], DownloadLabels) ELSE 0)
  <2> DEFINE rest == Direct \ {t}
  <2>1. Direct' = IF t \in Callers /\ pc'[t] \in DownloadLabels THEN rest \cup {t} ELSE rest
    BY DEF Direct, Threads
  <2>2. IsFiniteSet(Direct) /\ Cardinality(Direct) \in Nat
    BY ResultTypes DEF nInside
  <2>3. /\ IsFiniteSet(rest)
        /\ Cardinality(rest) = Cardinality(Direct)
              - (IF t \in Callers THEN In(pc[t], DownloadLabels) ELSE 0)
    <3>0. t \in Direct <=> t \in Callers /\ pc[t] \in DownloadLabels
      BY DEF Direct
    <3>1. t \in Direct => Cardinality(rest) = Cardinality(Direct) - 1
      BY <2>2, FS_RemoveElement
    <3>2. t \notin Direct => Cardinality(rest) = Cardinality(Direct)
      <4>1. t \notin Direct => rest = Direct
        OBVIOUS
      <4> QED BY <4>1
    <3>3. IsFiniteSet(rest)
      BY <2>2, FS_Subset
    <3> HIDE DEF rest
    <3>4. CASE t \in Direct
      BY <2>2, <3>0, <3>1, <3>3, <3>4 DEF In
    <3>5. CASE t \notin Direct
      BY <2>2, <3>0, <3>2, <3>3, <3>5 DEF In
    <3> QED BY <3>4, <3>5
  <2>4. Cardinality(rest \cup {t}) = Cardinality(rest) + 1
    BY <2>3, FS_AddElement
  <2> QED BY <2>1, <2>2, <2>3, <2>4 DEF nInside, In
<1> QED BY <1>1, <1>2

\* A thread moves elsewhere, or ends a download that has no result.
LEMMA ResultsElsewhere ==
  ASSUME TypeOK, Results, UNCHANGED <<counts.downloaded, delivered, nDirect>>,
         NEW t \in Threads, NEW to, Goto(t, to),
         to \in ResultLabels <=> pc[t] \in ResultLabels,
         t \in Callers /\ to \in DownloadLabels => pc[t] \in DownloadLabels
  PROVE  Results'
<1>1. /\ pc'[t] = to /\ \A u \in Threads : u # t => pc'[u] = pc[u]
  BY DEF TypeOK, ProgramOK, Goto
<1>2. nResults' = nResults
  BY <1>1, ResultsMove, ResultTypes DEF In
<1>3. nInside' <= nInside
  BY <1>1, ResultsMove, ResultTypes DEF In
<1>4. nInside' \in Int
  BY <1>1, ResultsMove, ResultTypes DEF In
<1> QED BY <1>2, <1>3, <1>4, ResultTypes DEF Results, nKept

\* Nobody crosses the border of the labels.
LEMMA ResultsStay ==
  ASSUME Results, UNCHANGED <<counts.downloaded, delivered, nDirect>>,
         \A u \in Threads :
             /\ pc'[u] \in ResultLabels <=> pc[u] \in ResultLabels
             /\ u \in Callers => (pc'[u] \in DownloadLabels <=> pc[u] \in DownloadLabels)
  PROVE  Results'
<1>1. At(ResultLabels)' = At(ResultLabels) /\ Direct' = Direct
  BY DEF At, Direct, Threads
<1> QED BY <1>1 DEF Results, nKept, nResults, nInside

\* A sender's result is received.
LEMMA ResultsReceived ==
  ASSUME TypeOK, Results, UNCHANGED <<counts.downloaded, nDirect>>, NEW s \in Senders,
         delivered' = delivered + 1, pc'[s] = Resume(s),
         \A u \in Threads : u # s =>
             pc'[u] = pc[u] \/ (pc[u] \notin DownloadLabels /\ pc'[u] \notin DownloadLabels)
  PROVE  Results'
<1>1. s \in Threads /\ pc[s] = "send"
  BY DEF Senders, At
<1>2. pc'[s] \notin DownloadLabels /\ ResultLabels \subseteq DownloadLabels
  BY DEF Resume, DownloadLabels, ResultLabels
<1>3. \A u \in Threads : u # s =>
         /\ pc'[u] \in ResultLabels <=> pc[u] \in ResultLabels
         /\ u \in Callers => (pc'[u] \in DownloadLabels <=> pc[u] \in DownloadLabels)
  BY <1>2
<1>4. /\ nResults' = nResults + In(pc'[s], ResultLabels) - In(pc[s], ResultLabels)
      /\ nInside' = nInside
             + (IF s \in Callers
                THEN In(pc'[s], DownloadLabels) - In(pc[s], DownloadLabels) ELSE 0)
  BY <1>1, <1>3, ResultsMove
<1>5. nResults' = nResults - 1
  BY <1>1, <1>2, <1>4, ResultTypes DEF In, ResultLabels
<1>6. nInside' = nInside \/ nInside' = nInside - 1
  BY <1>1, <1>2, <1>4, ResultTypes DEF In, DownloadLabels
<1> QED BY <1>5, <1>6, ResultTypes DEF Results, nKept

\* The crawler runs as long as a worker is past its start and has not left.
LEMMA WorkerRuns ==
  ASSUME Accounts, NEW w \in Workers, pc[w] \notin {"unborn", "born", "started", "exited"}
  PROVE  IsRunning
<1>1. NotRunning \subseteq Workers \ {w}
  BY DEF Accounts, TypeOK, ProgramOK, NotRunning, At, Threads, CallerLabels, DownloadLabels
<1>2. /\ IsFiniteSet(Workers \ {w}) /\ Cardinality(Workers \ {w}) = Cardinality(Workers) - 1
      /\ Cardinality(Workers) \in Nat
  BY ThreadsAssumption, FS_RemoveElement, FS_CardinalityType
<1>3. Cardinality(NotRunning) <= Cardinality(Workers) - 1
  BY <1>1, <1>2, FS_Subset
<1>4. Cardinality(NotRunning) \in Nat
  BY AtFinite DEF NotRunning
<1>5. counts.workersRunning = Cardinality(Workers) - Cardinality(NotRunning)
  BY DEF Accounts, CountersBalance
<1> QED BY <1>2, <1>3, <1>4, <1>5 DEF IsRunning

LEMMA ResultsDeliver ==
  ASSUME Accounts, Results, NEW t \in Threads, Deliver(t)
  PROVE  Results'
<1>t. TypeOK /\ pc \in [Threads -> WorkerLabels \cup CallerLabels] /\ pc[t] = "deliver"
  BY DEF Accounts, TypeOK, ProgramOK, Deliver, Ready
<1>n. UNCHANGED <<counts.downloaded, nDirect>>
  BY DEF Deliver, nDirect
<1>1. CASE MustSend(t)
  <2>1. Goto(t, "send") /\ delivered' = delivered
    BY <1>1 DEF Deliver, MustSend
  <2> QED BY <1>n, <1>t, <2>1, ResultsElsewhere DEF ResultLabels, DownloadLabels
<1>2. CASE ~MustSend(t)
  <2>1. pc'[t] = Resume(t) /\ \A u \in Threads : u # t => pc'[u] = pc[u]
    BY <1>2, <1>t DEF Deliver, Goto
  <2>2. Resume(t) \notin DownloadLabels /\ Resume(t) \notin ResultLabels
    BY DEF Resume, DownloadLabels, ResultLabels
  <2>3. nResults' = nResults - 1
    BY <1>t, <2>1, <2>2, ResultsMove, ResultTypes DEF In, ResultLabels
  <2>4. nInside' = nInside - (IF t \in Callers THEN 1 ELSE 0)
    BY <1>t, <2>1, <2>2, ResultsMove, ResultTypes DEF In, DownloadLabels
  <2>5. CASE cb[t]
    <3>1. delivered' = delivered + 1
      BY <2>5 DEF Deliver
    <3> QED BY <1>n, <1>t, <2>3, <2>4, <3>1, ResultTypes DEF Results, nKept
  <2>6. CASE ~cb[t]
    <3>1. delivered' = delivered
      BY <2>6 DEF Deliver
    <3>2. t \in Callers
      BY <1>2, <1>t, <2>6, WorkerRuns DEF MustSend, Threads
    <3> QED BY <1>n, <1>t, <2>3, <2>4, <3>1, <3>2, ResultTypes DEF Results, nKept
  <2> QED BY <2>5, <2>6
<1> QED BY <1>1, <1>2

LEMMA ResultsDownload ==
  ASSUME Accounts, Results, NEW t \in Threads, EnqueueOrDownload(t)
  PROVE  Results'
<1>t. TypeOK /\ counts \in Counters /\ pc \in [Threads -> WorkerLabels \cup CallerLabels]
  BY DEF Accounts, TypeOK, CountersOK, ProgramOK
<1>r. Resume(t) \notin DownloadLabels /\ Resume(t) \notin ResultLabels
  BY DEF Resume, DownloadLabels, ResultLabels
<1> USE DEF Ready, lifecycle, locals, history
<1>1. CASE Count(t) \/ Push(t) \/ Snapshot(t) \/ EnterDownloading(t) \/ LeaveQueue(t)
           \/ Decide(t)
  <2>1. UNCHANGED <<counts.downloaded, delivered, nDirect>>
    BY <1>1, <1>t DEF Count, Push, Snapshot, EnterDownloading, LeaveQueue, Decide, Counters,
                      nDirect
  <2>2. /\ pc[t] \notin ResultLabels
        /\ \E to : /\ Goto(t, to) /\ to \notin ResultLabels
                   /\ to \in DownloadLabels => pc[t] \in DownloadLabels
    <3>1. CASE Count(t) \/ Push(t)
      BY <3>1, <1>r DEF Count, Push, ResultLabels, DownloadLabels
    <3>2. CASE Snapshot(t) \/ EnterDownloading(t) \/ LeaveQueue(t) \/ Decide(t)
      <4>1. /\ pc[t] \in {"snapshot", "enter", "leaveQueue", "decide"}
            /\ \E to \in {"enter", "leaveQueue", "decide", "fetch", "skipping"} : Goto(t, to)
        BY <3>2 DEF Snapshot, EnterDownloading, LeaveQueue, Decide
      <4> QED BY <4>1 DEF ResultLabels, DownloadLabels
    <3> QED BY <1>1, <3>1, <3>2
  <2> QED BY <1>t, <2>1, <2>2, ResultsElsewhere
<1>2. CASE Fetch(t)
  <2>1. /\ UNCHANGED <<delivered, nDirect>> /\ counts'.downloaded = counts.downloaded + 1
        /\ pc[t] = "fetch" /\ pc'[t] = "fetched"
        /\ \A u \in Threads : u # t => pc'[u] = pc[u]
    BY <1>2, <1>t DEF Fetch, Counters, nDirect, Goto
  <2>2. nResults' = nResults + 1
    BY <1>t, <2>1, ResultsMove, ResultTypes DEF In, ResultLabels
  <2>3. nInside' = nInside
    BY <1>t, <2>1, ResultsMove, ResultTypes DEF In, DownloadLabels
  <2> QED BY <1>t, <2>1, <2>2, <2>3, ResultTypes DEF Results, nKept
<1>3. CASE LeaveDownloading(t)
  <2>1. UNCHANGED <<counts.downloaded, delivered, nDirect>>
    BY <1>3, <1>t DEF LeaveDownloading, Counters, nDirect
  <2>2. \/ pc[t] = "fetched" /\ Goto(t, "deliver")
        \/ pc[t] = "skipping" /\ Goto(t, Resume(t))
    BY <1>3 DEF LeaveDownloading
  <2> QED BY <1>r, <1>t, <2>1, <2>2, ResultsElsewhere DEF ResultLabels, DownloadLabels
<1>4. CASE Deliver(t)
  BY <1>4, ResultsDeliver
<1>5. CASE SendOnClosed(t)
  BY <1>5, ResultsStay DEF SendOnClosed, Panic, nDirect
<1> QED BY <1>1, <1>2, <1>3, <1>4, <1>5 DEF EnqueueOrDownload

LEMMA ResultsWork ==
  ASSUME Accounts, Results, NEW w \in Workers, Work(w)
  PROVE  Results'
<1>t. /\ TypeOK /\ counts \in Counters /\ w \in Threads /\ w \notin Callers
  BY ThreadsAssumption DEF Accounts, TypeOK, CountersOK, Threads
<1> USE DEF Ready, lifecycle, locals, history
<1>1. CASE EnqueueOrDownload(w)
  BY <1>1, <1>t, ResultsDownload
<1>2. CASE ~EnqueueOrDownload(w)
  <2>1. UNCHANGED <<counts.downloaded, delivered, nDirect>>
    BY <1>2, <1>t DEF Work, CountStarted, CountRunning, Take, Exit, FindLinks, AutoEnqueue,
                      FinishItem, Counters, nDirect
  <2>2. CASE FindLinks(w)
    BY <2>1, <2>2, ResultsStay DEF FindLinks
  <2>3. CASE ~FindLinks(w)
    <3>1. /\ pc[w] \notin ResultLabels
          /\ \E to : Goto(w, to) /\ to \notin ResultLabels
      BY <1>2, <2>3 DEF Work, CountStarted, CountRunning, Take, Exit, AutoEnqueue, FinishItem,
                        ResultLabels
    <3> QED BY <1>t, <2>1, <3>1, ResultsElsewhere
  <2> QED BY <2>2, <2>3
<1> QED BY <1>1, <1>2

LEMMA ResultsCall ==
  ASSUME Accounts, Results, NEW c \in Callers, Call(c)
  PROVE  Results'
<1>t. /\ TypeOK /\ c \in Threads /\ c \notin Workers /\ calls \in [APINames -> Nat]
      /\ pc \in [Threads -> WorkerLabels \cup CallerLabels] /\ Unstarted
  BY ThreadsAssumption DEF Accounts, TypeOK, CountersOK, ProgramOK, Threads
<1>1. /\ UNCHANGED <<counts.downloaded, delivered>> /\ pc[c] = "idle"
  BY DEF Call, Start, Stop, Enqueue, Download, Downloaded, DownloadedNotBlocking,
         SetOnDownloaded, SetWorkerCount, Enter, Ready
<1>2. CASE \E i \in Seeds : Download(c, i)
  <2>1. nDirect' = nDirect + 1
    BY <1>2, <1>t DEF Download, Enter, nDirect, APINames
  <2>2. pc'[c] = "snapshot" /\ \A u \in Threads : u # c => pc'[u] = pc[u]
    BY <1>2, <1>t DEF Download, Goto
  <2>3. nResults' = nResults
    BY <1>1, <1>t, <2>2, ResultsMove, ResultTypes DEF In, ResultLabels
  <2>4. nInside' = nInside + 1
    BY <1>1, <1>t, <2>2, ResultsMove, ResultTypes DEF In, DownloadLabels
  <2> QED BY <1>1, <1>t, <2>1, <2>3, <2>4, ResultTypes DEF Results, nKept
<1>3. CASE ~\E i \in Seeds : Download(c, i)
  <2>1. nDirect' = nDirect
    <3>1. \E f \in APINames \ {"Download"} : calls' = [calls EXCEPT ![f] = @ + 1]
      BY <1>3 DEF Call, Start, Stop, Enqueue, Downloaded, DownloadedNotBlocking,
                  SetOnDownloaded, SetWorkerCount, Enter, APINames
    <3> QED BY <1>t, <3>1 DEF nDirect, APINames
  <2>2. CASE \E next \in {"idle", "count", "receive", "poll"} : StartOnce(c, next)
    <3>1. \A u \in Threads : \/ pc'[u] = pc[u]
                             \/ pc[u] = "unborn" /\ pc'[u] = "born"
                             \/ pc[u] = "idle" /\ pc'[u] \in {"idle", "count", "receive", "poll"}
      BY <1>1, <1>t, <2>2 DEF StartOnce, Goto, Unstarted
    <3> QED BY <1>1, <2>1, <3>1, ResultsStay DEF ResultLabels, DownloadLabels
  <2>3. CASE UNCHANGED pc \/ \E to \in {"close", "idle", "drain"} : Goto(c, to)
    <3>1. \A u \in Threads : \/ pc'[u] = pc[u]
                             \/ pc[u] = "idle" /\ pc'[u] \in {"close", "idle", "drain"}
      BY <1>1, <1>t, <2>3 DEF Goto
    <3> QED BY <1>1, <2>1, <3>1, ResultsStay DEF ResultLabels, DownloadLabels
  <2> QED BY <1>3, <2>2, <2>3 DEF Call, Start, Stop, Enqueue, Downloaded,
          DownloadedNotBlocking, SetOnDownloaded, SetWorkerCount
<1> QED BY <1>2, <1>3

LEMMA ResultsChannels ==
  ASSUME Accounts, Results,
         Drain \/ \E c \in Callers : CloseChannels(c) \/ SpawnDrainer(c) \/ Receive(c)
  PROVE  Results'
<1>t. TypeOK /\ pc \in [Threads -> WorkerLabels \cup CallerLabels]
  BY DEF Accounts, TypeOK, ProgramOK
<1> USE DEF Ready, lifecycle, locals, history
<1>1. UNCHANGED <<counts.downloaded, nDirect>>
  BY DEF Drain, CloseChannels, SpawnDrainer, Receive, Panic, nDirect
<1>2. ASSUME NEW c \in Callers, CloseChannels(c) \/ SpawnDrainer(c) \/ Receive(c)
      PROVE  Results'
  <2>c. c \in Threads
    BY DEF Threads
  <2>1. CASE delivered' = delivered
    <3>1. UNCHANGED pc \/ (Goto(c, "idle") /\ pc[c] \in {"close", "drain", "receive", "poll"})
      BY <1>2, <2>1, <1>t, ResultTypes DEF CloseChannels, SpawnDrainer, Receive, Panic
    <3>2. \A u \in Threads :
             pc'[u] = pc[u]
             \/ (pc[u] \in {"close", "drain", "receive", "poll"} /\ pc'[u] = "idle")
      BY <1>t, <3>1 DEF Goto
    <3> QED BY <1>1, <2>1, <3>2, ResultsStay DEF ResultLabels, DownloadLabels
  <2>2. CASE delivered' # delivered
    <3>1. /\ delivered' = delivered + 1 /\ pc[c] \in {"receive", "poll"}
          /\ \E s \in Senders : pc' = [pc EXCEPT ![s] = Resume(s), ![c] = "idle"]
      BY <1>2, <2>2 DEF CloseChannels, SpawnDrainer, Receive, Panic
    <3>2. PICK s \in Senders : pc' = [pc EXCEPT ![s] = Resume(s), ![c] = "idle"]
      BY <3>1
    <3>3. s \in Threads /\ s # c
      BY <3>1 DEF Senders, At
    <3>4. /\ pc'[s] = Resume(s) /\ pc'[c] = "idle"
          /\ \A u \in Threads : u \notin {s, c} => pc'[u] = pc[u]
      BY <1>t, <2>c, <3>2, <3>3
    <3>5. pc[c] \notin DownloadLabels /\ pc'[c] \notin DownloadLabels
      BY <3>1, <3>4 DEF DownloadLabels
    <3> QED BY <1>1, <1>t, <3>1, <3>4, <3>5, ResultsReceived
  <2> QED BY <2>1, <2>2
<1>3. CASE Drain
  <2>1. CASE UNCHANGED <<pc, delivered>>
    BY <1>1, <2>1, ResultsStay
  <2>2. CASE delivered' = delivered + 1 /\ \E s \in Senders : Goto(s, Resume(s))
    <3>1. PICK s \in Senders : Goto(s, Resume(s))
      BY <2>2
    <3>2. pc'[s] = Resume(s) /\ \A u \in Threads : u # s => pc'[u] = pc[u]
      BY <1>t, <3>1 DEF Goto, Senders, At
    <3> QED BY <1>1, <1>t, <2>2, <3>2, ResultsReceived
  <2> QED BY <1>3, <2>1, <2>2 DEF Drain
<1> QED BY <1>2, <1>3

LEMMA ResultsNext == Accounts /\ Results /\ [Next]_vars => Results'
<1> SUFFICES ASSUME Accounts, Results, [Next]_vars PROVE Results'
  OBVIOUS
<1>1. CASE UNCHANGED vars
  BY <1>1, ResultsStay DEF vars, history, nDirect
<1>2. CASE Next
  BY <1>2, ResultsCall, ResultsWork, ResultsDownload, ResultsChannels
     DEF Next, Continue, Threads
<1> QED BY <1>1, <1>2

\* doDownload delivers no result twice, and loses none but that of a direct download
\* that finds neither callback nor running worker, whoever sets onDownloaded or stops
\* the crawler meanwhile: ResultsDelivered.
THEOREM ResultsAreDelivered == Spec => []ResultsDelivered
<1>1. Init => Results
  <2> SUFFICES ASSUME Init PROVE Results
    OBVIOUS
  <2>1. \A t \in Threads : pc[t] = IF t \in Workers THEN "unborn" ELSE "idle"
    BY DEF Init
  <2>2. At(ResultLabels) = {} /\ Direct = {}
    BY <2>1, ThreadsAssumption DEF At, Direct, Threads, ResultLabels, DownloadLabels
  <2>3. nResults = 0 /\ nInside = 0
    BY <2>2, FS_EmptySet DEF nResults, nInside
  <2>4. counts.downloaded = 0 /\ delivered = 0 /\ nDirect = 0
    BY DEF Init, nDirect, APINames
  <2> QED BY <2>3, <2>4 DEF Results, nKept
<1>2. ASSUME Accounts, Results PROVE ResultsDelivered
  <2>1. nKept \in Int /\ nKept = counts.downloaded - delivered - nResults
    BY <1>2, ResultTypes DEF nKept, Accounts
  <2>2. nKept >= 0 /\ nKept <= nDirect
    BY <1>2, <2>1, ResultTypes DEF Results, Accounts
  <2>3. nDirect \in Nat
    BY <1>2, ResultTypes DEF Accounts
  <2>4. nKept \in 0 .. nDirect
    BY <2>1, <2>2, <2>3
  <2> QED BY <2>4 DEF ResultsDelivered, nDirect, nKept, nResults, ResultLabels
<1> QED BY <1>1, <1>2, AccountsInit, AccountsNext, ResultsNext, PTL DEF Spec

============================================================================
