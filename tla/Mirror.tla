------------------------------- MODULE Mirror -------------------------------
(***************************************************************************)
(* One mirrored URL: its cache file (cacher/), the crawler's workers that  *)
(* download it, and the web server's goroutines that serve it, tied        *)
(* together by the callbacks of engine/engine.go.                          *)
(*                                                                         *)
(* The cache file is the only state they share, and nothing locks it.  A   *)
(* step is one system call on the file.  A response is written in parts,   *)
(* one per flush of bufio's 4096 bytes: the first holds the header and the *)
(* beginning of the body, a second one stands for the rest.                *)
(***************************************************************************)
EXTENDS Integers, Sequences, FiniteSets

CONSTANTS
    Responses,    \* what the source may answer
    Bad,          \* the answers with status 0 or 500 and above
    Parts,        \* the writes a response takes: response -> 1 or 2
    Layout,       \* the offset of its expires line: response -> offset
    Placeholder,  \* what WritePlaceholder and Bump may write
    Hole,         \* bytes that were never written
    NoPage,       \* what a thread holds when it holds no response
    Workers,      \* worker goroutines of the crawler
    Requests,     \* goroutines of the web server
    MaxQueue,     \* bound on the items queued for this URL
    Prompt,       \* downloads under way end before the next expiry
    Budget        \* how often the environment does each of EnvironmentNames

EnvironmentNames == {"bad", "restart", "disconnect", "enqueue"}

Pages == Responses \cup {Placeholder}

ASSUME PagesAssumption ==
    /\ Bad \subseteq Responses
    /\ Parts \in [Responses -> 1 .. 2]
    /\ Placeholder \notin Responses
    /\ NoPage \notin Pages /\ Hole \notin Pages

ASSUME MirrorAssumption ==
    /\ IsFiniteSet(Workers) /\ IsFiniteSet(Requests)
    /\ Workers \cap Requests = {}
    /\ MaxQueue \in Nat
    /\ Prompt \in BOOLEAN
    /\ Budget \in [EnvironmentNames -> Nat]

Threads == Workers \cup Requests

VARIABLES
    exists,   \* the cache file exists
    blocks,   \* its parts: what wrote each
    header,   \* what its header says of its expiry, if it has one
    damaged,  \* a bump put its line elsewhere in that header
    queue,    \* the crawler's queue, for this URL: ForceDownload of each item
    pc,       \* where each thread is
    page,     \* the response a thread read or is writing
    pos,      \* how many parts a thread has written
    stale,    \* whether the header a request read had expired
    sent,     \* what the client of a request has got
    left,     \* what is left of the environment's budget
    hadGood   \* history: a good response has been written in full

file == <<exists, blocks, header, damaged>>
locals == <<page, pos, stale>>
vars == <<file, queue, pc, locals, sent, left, hadGood>>

----------------------------------------------------------------------------
(* The cache file.                                                         *)

Block(p, n) == [of |-> p, part |-> n]

\* What a client is sent of a page with a damaged header: some of its headers are
\* gone, Content-Length perhaps among them, and then so is the body.
Damaged(p) == Block(p, 0)

\* The expiry line is intact ("fresh", "expired"), overwritten ("lost"), or the
\* header cannot be read to its end ("broken").
HeaderStates == {"fresh", "expired", "lost", "broken"}

PartsOf(p) == IF p \in Responses THEN Parts[p] ELSE 1

Whole(p) == [n \in 1 .. PartsOf(p) |-> Block(p, n)]

\* A write at part n of a file that may have been truncated meanwhile.
PutAt(n, b) ==
    [k \in 1 .. (IF Len(blocks) < n THEN n ELSE Len(blocks)) |->
        IF k = n THEN b ELSE IF k <= Len(blocks) THEN blocks[k] ELSE Block(Hole, k)]

HasHeader == blocks # <<>> /\ blocks[1].of # Hole

ReadableNonEmpty == blocks # <<>>   \* mutant: the first line is not parsed

\* ServeHTTPGetStatusCode and ServeHTTPAddHeaders find no error.
Readable == HasHeader /\ header # "broken"

\* CheckCacheExists: something is there that is no placeholder.
CacheExists == exists /\ blocks # <<>> /\ blocks[1].of # Placeholder

\* The file is made, or emptied, when it is opened for writing.
TruncateFile ==
    /\ exists' = TRUE
    /\ blocks' = <<>>
    /\ header' = "lost"
    /\ damaged' = FALSE

WriteFirst(p) ==
    /\ blocks' = PutAt(1, Block(p, 1))
    /\ header' = "fresh"
    /\ damaged' = FALSE
    /\ UNCHANGED exists

----------------------------------------------------------------------------
Init ==
    /\ exists = FALSE
    /\ blocks = <<>>
    /\ header = "lost"
    /\ damaged = FALSE
    /\ queue = <<FALSE>>
    /\ pc = [t \in Threads |-> "idle"]
    /\ page = [t \in Threads |-> NoPage]
    /\ pos = [t \in Threads |-> 0]
    /\ stale = [t \in Threads |-> FALSE]
    /\ sent = [t \in Requests |-> <<>>]
    /\ left = Budget
    /\ hadGood = FALSE

Goto(t, label) == pc' = [pc EXCEPT ![t] = label]

\* A thread is done with its item or its request.
Finish(t) ==
    /\ Goto(t, "idle")
    /\ page' = [page EXCEPT ![t] = NoPage]
    /\ pos' = [pos EXCEPT ![t] = 0]
    /\ stale' = [stale EXCEPT ![t] = FALSE]

Proceed(t, label) == Goto(t, label) /\ UNCHANGED locals

Spend(what) ==
    /\ left[what] > 0
    /\ left' = [left EXCEPT ![what] = @ - 1]

----------------------------------------------------------------------------
(* Downloads: a worker takes an item, a request downloads directly.        *)

Take(w) ==
    /\ pc[w] = "idle"
    /\ queue # <<>>
    /\ queue' = Tail(queue)
    /\ Proceed(w, IF Head(queue) THEN "fetch" ELSE "check")
    /\ UNCHANGED <<file, sent, left, hadGood>>

\* onURLShouldDownload, for an item that is not forced.
Check(w) ==
    /\ pc[w] = "check"
    /\ Proceed(w, IF CacheExists THEN "idle" ELSE "fetch")
    /\ UNCHANGED <<file, queue, sent, left, hadGood>>

Fetch(t) ==
    /\ pc[t] = "fetch"
    /\ \E p \in Responses :
          /\ page' = [page EXCEPT ![t] = p]
          /\ \/ p \notin Bad /\ UNCHANGED left
             \/ p \in Bad /\ Spend("bad")
          /\ Goto(t, IF p \in Bad THEN "recheck" ELSE "truncate")
    /\ UNCHANGED <<file, queue, pos, stale, sent, hadGood>>

\* After onDownloaded, a request still serves what it downloaded.
Downloaded(t) == IF t \in Workers THEN Finish(t) ELSE Proceed(t, "serve")

\* onDownloaded does not let a bad answer replace an existing cache.
Recheck(t) ==
    /\ pc[t] = "recheck"
    /\ \/ CacheExists /\ Downloaded(t)
       \/ ~CacheExists /\ Proceed(t, "truncate")
    /\ UNCHANGED <<file, queue, sent, left, hadGood>>

\* Write, up to the opening of the file.
Truncate(t) ==
    /\ pc[t] = "truncate"
    /\ TruncateFile
    /\ Proceed(t, "write")
    /\ UNCHANGED <<queue, sent, left, hadGood>>

LastButOne(t) == pos[t] = Parts[page[t]]   \* mutant: it goes on after the last

\* The part being written is the response's last.
Last(t) == pos[t] + 1 = Parts[page[t]]

\* The next flush, at the thread's own offset in the file.
WritePart(t) ==
    /\ pc[t] = "write"
    /\ \/ pos[t] = 0 /\ WriteFirst(page[t])
       \/ /\ pos[t] > 0
          /\ blocks' = PutAt(pos[t] + 1, Block(page[t], pos[t] + 1))
          /\ UNCHANGED <<exists, header, damaged>>
    /\ \/ /\ Last(t)
          /\ Downloaded(t)
          /\ hadGood' = (hadGood \/ page[t] \notin Bad)
       \/ /\ ~Last(t)
          /\ pos' = [pos EXCEPT ![t] = @ + 1]
          /\ UNCHANGED <<pc, page, stale, hadGood>>
    /\ UNCHANGED <<queue, sent, left>>

----------------------------------------------------------------------------
(* Requests: serveURL and the engine's answers to server issues.           *)

\* The queue's bound: a request may enqueue one item.
Busy == {h \in Requests : pc[h] # "idle"}

Open(h) ==
    /\ pc[h] = "idle"
    /\ Len(queue) + Cardinality(Busy) < MaxQueue
    /\ sent' = [sent EXCEPT ![h] = <<>>]
    /\ Proceed(h, IF exists THEN "readHeader" ELSE "clear")
    /\ UNCHANGED <<file, queue, left, hadGood>>

ReadHeader(h) ==
    /\ pc[h] = "readHeader"
    /\ \/ /\ ~Readable
          /\ Proceed(h, "clear")
          /\ UNCHANGED sent
       \/ /\ Readable
          /\ page' = [page EXCEPT ![h] = blocks[1].of]
          /\ stale' = [stale EXCEPT ![h] = header = "expired"]
          /\ sent' = [sent EXCEPT ![h] =
                          <<IF damaged THEN Damaged(blocks[1].of) ELSE blocks[1]>>]
          /\ Goto(h, "copyBody")
          /\ UNCHANGED pos
    /\ UNCHANGED <<file, queue, left, hadGood>>

\* CopyBody wants as much as the header announced, from wherever the file is by
\* now.  Too little, or a client that went away, is a CacheError; nothing, as when
\* a bump made Content-Length unreadable, is none.
CopyBody(h) ==
    /\ pc[h] = "copyBody"
    /\ \/ /\ PartsOf(page[h]) = 1
          /\ Proceed(h, "expiry")
          /\ UNCHANGED <<sent, left>>
       \/ /\ PartsOf(page[h]) = 2 /\ Len(blocks) >= 2
          /\ sent' = [sent EXCEPT ![h] = Append(@, blocks[2])]
          /\ Proceed(h, "expiry")
          /\ UNCHANGED left
       \/ /\ PartsOf(page[h]) = 2 /\ Len(blocks) < 2
          /\ Proceed(h, "clear")
          /\ UNCHANGED <<sent, left>>
       \/ /\ sent[h][1].part = 0
          /\ Proceed(h, "expiry")
          /\ UNCHANGED <<sent, left>>
       \/ /\ page[h] # Placeholder
          /\ Spend("disconnect")
          /\ sent' = [sent EXCEPT ![h] = <<>>]
          /\ Proceed(h, "clear")
    /\ UNCHANGED <<file, queue, hadGood>>

\* An expired cache is served all the same and then bumped.
Expiry(h) ==
    /\ pc[h] = "expiry"
    /\ \/ stale[h] /\ Proceed(h, "bump")
       \/ ~stale[h] /\ Finish(h)
    /\ UNCHANGED <<file, queue, sent, left, hadGood>>

\* downloadAndServe: WritePlaceholder empties the file, whatever is in it.
Clear(h) ==
    /\ pc[h] = "clear"
    /\ TruncateFile
    /\ Proceed(h, "place")
    /\ UNCHANGED <<queue, sent, left, hadGood>>

Place(h) ==
    /\ pc[h] = "place"
    /\ WriteFirst(Placeholder)
    /\ Proceed(h, "fetch")
    /\ UNCHANGED <<queue, sent, left, hadGood>>

\* ServeDownloaded adds to what the client got already.
Serve(h) ==
    /\ pc[h] = "serve"
    /\ sent' = [sent EXCEPT ![h] = @ \o Whole(page[h])]
    /\ Finish(h)
    /\ UNCHANGED <<file, queue, left, hadGood>>

\* Bump reads up to the expires line, and without one gives the file up.  In a
\* header that ServeHTTP finds broken there may be one, where it was or where a
\* placeholder has it.
BumpRead(h) ==
    /\ pc[h] = "bump"
    /\ \/ /\ HasHeader /\ header # "lost"
          /\ \E p \in {blocks[1].of} \cup (IF Readable THEN {} ELSE {Placeholder}) :
                page' = [page EXCEPT ![h] = p]
          /\ Goto(h, "bumpWrite")
          /\ UNCHANGED <<pos, stale>>
       \/ /\ ~HasHeader \/ header \in {"lost", "broken"}
          /\ Proceed(h, "bumpClear")
    /\ UNCHANGED <<file, queue, sent, left, hadGood>>

\* The place of the line in the header of was is another one in that of is.  For a
\* placeholder it lies behind all there is.
Misses(was, is) ==
    /\ is # Placeholder /\ was # is
    /\ was # Placeholder => Layout[was] # Layout[is]

\* What the header says once Bump, having read that of was, has written its 39
\* bytes into that of is.  In the wrong place they run into the expires line or, at
\* a placeholder's, leave a piece of Last-Modified; and the newline they end in cuts
\* the line it falls into, or ends the header right there.
AfterBump(was, is) ==
    IF is = Placeholder /\ was # Placeholder THEN {header}
    ELSE IF ~Misses(was, is) THEN {"fresh"} \cup (IF damaged THEN {"lost", "broken"} ELSE {})
    ELSE IF was = Placeholder THEN {"broken"}
    ELSE {"lost", "broken"}

\* WriteAt, at the place the line had when it was read.
BumpWrite(h) ==
    /\ pc[h] = "bumpWrite"
    /\ \/ /\ HasHeader
          /\ header' \in AfterBump(page[h], blocks[1].of)
          /\ damaged' = (damaged \/ Misses(page[h], blocks[1].of))
          /\ UNCHANGED blocks
       \/ /\ ~HasHeader
          /\ blocks' = PutAt(1, Block(Hole, 1))
          /\ UNCHANGED <<header, damaged>>
    /\ Proceed(h, "enqueue")
    /\ UNCHANGED <<exists, queue, sent, left, hadGood>>

BumpGivesUp == "enqueue"   \* mutant: no placeholder after the truncation

AfterBumpClear == "bumpPlace"

BumpClear(h) ==
    /\ pc[h] = "bumpClear"
    /\ TruncateFile
    /\ Proceed(h, AfterBumpClear)
    /\ UNCHANGED <<queue, sent, left, hadGood>>

BumpPlace(h) ==
    /\ pc[h] = "bumpPlace"
    /\ WriteFirst(Placeholder)
    /\ Proceed(h, "enqueue")
    /\ UNCHANGED <<queue, sent, left, hadGood>>

RefreshPlain == FALSE   \* mutant: the download is not forced

RefreshForced == TRUE

EnqueueRefresh(h) ==
    /\ pc[h] = "enqueue"
    /\ queue' = Append(queue, RefreshForced)
    /\ Finish(h)
    /\ UNCHANGED <<file, sent, left, hadGood>>

----------------------------------------------------------------------------
(* The environment.                                                        *)

\* Threads between the decision to write the file and their last write.
Writing == {t \in Threads : pc[t] \in {"fetch", "recheck", "truncate", "write", "clear",
                                      "place", "bump", "bumpWrite", "bumpClear",
                                      "bumpPlace", "enqueue"}}

\* The time the header tells passes.
Expire ==
    /\ Prompt => queue = <<>> /\ Writing = {}
    /\ HasHeader /\ header = "fresh"
    /\ header' = "expired"
    /\ UNCHANGED <<exists, blocks, damaged, queue, pc, locals, sent, left, hadGood>>

\* Another page links here, or the automatic refresh comes round.
EnqueueAgain(force) ==
    /\ Spend("enqueue")
    /\ Len(queue) + Cardinality(Busy) < MaxQueue
    /\ queue' = Append(queue, force)
    /\ UNCHANGED <<file, pc, locals, sent, hadGood>>

\* The process ends, at any point, and a new one mirrors the URL.
Restart ==
    /\ Spend("restart")
    /\ queue' = <<FALSE>>
    /\ pc' = [t \in Threads |-> "idle"]
    /\ sent' = [t \in Requests |-> <<>>]
    /\ page' = [t \in Threads |-> NoPage]
    /\ pos' = [t \in Threads |-> 0]
    /\ stale' = [t \in Threads |-> FALSE]
    /\ UNCHANGED <<file, hadGood>>

Write(t) == Fetch(t) \/ Recheck(t) \/ Truncate(t) \/ WritePart(t)

Work(w) == Take(w) \/ Check(w) \/ Write(w)

Answer(h) ==
    \/ ReadHeader(h)
    \/ CopyBody(h)
    \/ Expiry(h)
    \/ Clear(h)
    \/ Place(h)
    \/ Write(h)
    \/ Serve(h)
    \/ BumpRead(h)
    \/ BumpWrite(h)
    \/ BumpClear(h)
    \/ BumpPlace(h)
    \/ EnqueueRefresh(h)

Next ==
    \/ \E w \in Workers : Work(w)
    \/ \E h \in Requests : Open(h) \/ Answer(h)
    \/ Expire
    \/ \E force \in BOOLEAN : EnqueueAgain(force)
    \/ Restart

Spec == Init /\ [][Next]_vars

\* Goroutines go on, visitors keep coming and time passes.
FairSpec ==
    /\ Spec
    /\ \A w \in Workers : WF_vars(Work(w))
    /\ \A h \in Requests : WF_vars(Answer(h)) /\ WF_vars(Open(h))
    /\ WF_vars(Expire)

----------------------------------------------------------------------------
(* Properties.                                                             *)

Labels == {"idle", "check", "fetch", "recheck", "truncate", "write", "readHeader",
           "copyBody", "expiry", "clear", "place", "serve", "bump", "bumpWrite",
           "bumpClear", "bumpPlace", "enqueue"}

Blocks == [of : Pages \cup {Hole}, part : 0 .. 2]

\* Type invariant of the cache file and of the goroutines that use it.
TypeOK ==
    /\ exists \in BOOLEAN
    /\ blocks \in Seq(Blocks) /\ Len(blocks) <= 2
    /\ header \in HeaderStates
    /\ damaged \in BOOLEAN
    /\ queue \in Seq(BOOLEAN)
    /\ pc \in [Threads -> Labels]
    /\ page \in [Threads -> Pages \cup {NoPage}]
    /\ \A t \in Threads : pc[t] \in {"recheck", "truncate", "write", "serve"}
                              => page[t] \in Responses
    /\ pos \in [Threads -> 0 .. 2]
    /\ \A t \in Threads : pc[t] = "write" => pos[t] < Parts[page[t]]
    /\ stale \in [Threads -> BOOLEAN]
    /\ sent \in [Requests -> Seq(Blocks)]
    /\ left \in [EnvironmentNames -> Nat]
    /\ hadGood \in BOOLEAN

\* README.md, "priority for response consistency": what a visitor gets is one
\* response of the source, or one placeholder, in full -- unless a Bump that missed
\* its place (cacher.go:202) had damaged the header the visitor read.
ServedWhole ==
    \A h \in Requests :
        pc[h] = "idle" =>
            sent[h] \in {<<>>} \cup {Whole(p) : p \in Pages} \cup {<<Damaged(p)>> : p \in Pages}

\* A cache file without a readable first block is about to be written, unless the
\* process was restarted in the middle of a write.
EmptyMeansWriting ==
    exists /\ ~HasHeader /\ left["restart"] = Budget["restart"] =>
        \E t \in Threads : pc[t] \in {"write", "place", "bumpPlace"}

\* engine_test.go, "should not overwrite cache with bad data": the file does not
\* begin with a bad response once a good one has been written.
BadNeverReplacesGood ==
    hadGood /\ HasHeader => blocks[1].of \notin Bad

\* The cache holds a good response, whole and with its expiry.
Healthy ==
    /\ header \in {"fresh", "expired"} /\ ~damaged
    /\ \E p \in Responses \ Bad : blocks = Whole(p)

\* README.md, "Cached data should be refreshed periodically": whatever went wrong
\* in the file, a good response gets back into it as long as visitors come and
\* the source answers.
Recovers == []<>Healthy

============================================================================
