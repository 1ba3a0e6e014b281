---------------------------- MODULE CrawlerPool ----------------------------
(***************************************************************************)
(* The crawler implements the pool of WorkPool: its steps on the queue are *)
(* steps of the pool, all others leave the pool as it is.                  *)
(***************************************************************************)
EXTENDS Crawler

\* The pool's state: queue and output channel open and close together.
PoolState ==
    CASE panicked -> "broken"
      [] ~panicked /\ output = "nil" -> "new"
      [] OTHER -> output

\* A worker has the item until it is downloaded or refused.
StageAt(label) ==
    CASE label = "unborn" -> "absent"
      [] label = "exited" -> "gone"
      [] label \in {"born", "started", "receiving"} -> "idle"
      [] label \in {"snapshot", "enter", "leaveQueue", "decide", "fetch"} -> "working"
      [] OTHER -> "following"

PoolStage == [w \in Workers |-> StageAt(pc[w])]

\* A worker that enqueues a link holds that link, but does not work on it.
PoolHold ==
    [w \in Workers |-> IF PoolStage[w] = "working" THEN item[w] ELSE NoItem]

\* What callers pass and what the depth limit and onURLShouldQueue admit.
InScopeItems ==
    Seeds \cup [url : ShouldQueue, depth : 0 .. AutoDownloadDepth, force : {FALSE}]

Pool == INSTANCE WorkPool WITH
            Items <- InScopeItems, state <- PoolState, backlog <- queue,
            stage <- PoolStage, hold <- PoolHold

\* What is accepted is worked on once, in its order, and nothing is accepted
\* or left behind once the crawler is stopped: every step of crawler.go is one
\* of the pool or leaves the pool as it is.
ImplementsPool == Pool!Spec

\* A worker that has something to do in the pool does it: neither its counters,
\* the mutex, the callbacks nor the links it follows hold it up for ever.
ImplementsFairPool == Pool!FairSpec

=============================================================================
