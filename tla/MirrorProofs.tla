---------------------------- MODULE MirrorProofs ----------------------------
(* Proofs about the cache file of one URL, for any number of workers,      *)
(* visitors and responses.                                                 *)
EXTENDS Mirror, SequenceTheorems, TLAPS

----------------------------------------------------------------------------
(* The types, in three groups.                                             *)

FileOK ==
    /\ exists \in BOOLEAN
    /\ blocks \in Seq(Blocks) /\ Len(blocks) <= 2
    /\ header \in HeaderStates
    /\ damaged \in BOOLEAN

\* A thread that is not writing starts at the beginning.
LocalsOK ==
    /\ pc \in [Threads -> Labels]
    /\ page \in [Threads -> Pages \cup {NoPage}]
    /\ \A t \in Threads : pc[t] \in {"recheck", "truncate", "write", "serve"}
                              => page[t] \in Responses
    /\ pos \in [Threads -> 0 .. 2]
    /\ \A t \in Threads : pc[t] = "write" => pos[t] < Parts[page[t]]
    /\ \A t \in Threads : pc[t] \notin {"write", "serve"} => pos[t] = 0
    /\ stale \in [Threads -> BOOLEAN]

OthersOK ==
    /\ queue \in Seq(BOOLEAN)
    /\ sent \in [Requests -> Seq(Blocks)]
    /\ left \in [EnvironmentNames -> Nat]
    /\ hadGood \in BOOLEAN

Types == FileOK /\ LocalsOK /\ OthersOK

LEMMA TypesInit == Init => Types
<1> SUFFICES ASSUME Init PROVE Types
  OBVIOUS
<1>1. FileOK
  <2>1. exists \in BOOLEAN /\ header \in HeaderStates /\ damaged \in BOOLEAN
    BY DEF Init, HeaderStates
  <2>2. blocks \in Seq(Blocks) /\ Len(blocks) <= 2
    BY DEF Init
  <2> QED BY <2>1, <2>2 DEF FileOK
<1>2. LocalsOK
  BY DEF Init, LocalsOK, Labels
<1>3. OthersOK
  <2>1. queue \in Seq(BOOLEAN)
    BY DEF Init
  <2>2. sent \in [Requests -> Seq(Blocks)]
    BY DEF Init
  <2>3. left \in [EnvironmentNames -> Nat] /\ hadGood \in BOOLEAN
    BY MirrorAssumption DEF Init
  <2> QED BY <2>1, <2>2, <2>3 DEF OthersOK
<1> QED BY <1>1, <1>2, <1>3 DEF Types

----------------------------------------------------------------------------
(* The file.                                                               *)

LEMMA BlocksOf ==
  ASSUME NEW p \in Pages \cup {Hole}, NEW n \in 0 .. 2
  PROVE  Block(p, n) \in Blocks
BY DEF Block, Blocks

LEMMA FirstBlock ==
  ASSUME FileOK
  PROVE  /\ blocks # <<>> => blocks[1] \in Blocks /\ Len(blocks) >= 1
         /\ HasHeader => blocks[1].of \in Pages
<1>1. ASSUME blocks # <<>> PROVE blocks[1] \in Blocks /\ Len(blocks) >= 1
  <2>1. blocks \in Seq(Blocks) /\ Len(blocks) \in Nat /\ Len(blocks) # 0
    BY <1>1 DEF FileOK
  <2>2. 1 \in 1 .. Len(blocks)
    BY <2>1
  <2> QED BY <2>1, <2>2
<1>2. HasHeader => blocks[1].of \in Pages
  BY <1>1 DEF HasHeader, Blocks
<1> QED BY <1>1, <1>2

\* A write puts its block where it belongs and keeps the others.
LEMMA PutAtPuts ==
  ASSUME FileOK, NEW n \in 1 .. 2, NEW b \in Blocks
  PROVE  /\ PutAt(n, b) \in Seq(Blocks)
         /\ Len(PutAt(n, b)) = IF Len(blocks) < n THEN n ELSE Len(blocks)
         /\ PutAt(n, b)[n] = b
         /\ \A k \in 1 .. Len(blocks) : k # n => PutAt(n, b)[k] = blocks[k]
         /\ \A k \in 1 .. n - 1 : k > Len(blocks) => PutAt(n, b)[k] = Block(Hole, k)
<1> DEFINE len == IF Len(blocks) < n THEN n ELSE Len(blocks)
           at(k) == IF k = n THEN b ELSE IF k <= Len(blocks) THEN blocks[k] ELSE Block(Hole, k)
<1>1. len \in Nat /\ len <= 2 /\ n <= len /\ Len(blocks) <= len /\ Len(blocks) \in Nat
  BY DEF FileOK
<1>2. ASSUME NEW k \in 1 .. len PROVE at(k) \in Blocks
  <2>1. k \in 1 .. 2
    BY <1>1, <1>2
  <2>2. Block(Hole, k) \in Blocks
    BY <2>1, BlocksOf
  <2>3. k <= Len(blocks) => blocks[k] \in Blocks
    BY <2>1, <1>1 DEF FileOK
  <2> QED BY <2>2, <2>3
<1>3. PutAt(n, b) = [k \in 1 .. len |-> at(k)]
  BY DEF PutAt
<1> HIDE DEF at, len
<1>4. PutAt(n, b) \in Seq(Blocks) /\ Len(PutAt(n, b)) = len
  BY <1>1, <1>2, <1>3
<1>5. \A k \in 1 .. len : PutAt(n, b)[k] = at(k)
  BY <1>3
<1> QED BY <1>1, <1>4, <1>5 DEF at, len

\* The file keeps its type.
LEMMA PutAtOK ==
  ASSUME FileOK, NEW p \in Pages \cup {Hole}, NEW n \in 1 .. 2
  PROVE  PutAt(n, Block(p, n)) \in Seq(Blocks) /\ Len(PutAt(n, Block(p, n))) <= 2
<1>1. Block(p, n) \in Blocks
  BY BlocksOf
<1>2. /\ PutAt(n, Block(p, n)) \in Seq(Blocks)
      /\ Len(PutAt(n, Block(p, n))) = IF Len(blocks) < n THEN n ELSE Len(blocks)
  BY <1>1, PutAtPuts
<1> QED BY <1>2 DEF FileOK

\* What a step may do to the file.
WritesPage == \E p \in Pages : WriteFirst(p)
WritesRest ==
    /\ \E p \in Responses : blocks' = PutAt(2, Block(p, 2))
    /\ UNCHANGED <<exists, header, damaged>>
LeavesHole ==
    /\ ~HasHeader /\ blocks' = PutAt(1, Block(Hole, 1))
    /\ UNCHANGED <<exists, header, damaged>>
Ages == header' \in HeaderStates /\ damaged' \in BOOLEAN /\ UNCHANGED <<exists, blocks>>

FileStep ==
    TruncateFile \/ WritesPage \/ WritesRest \/ LeavesHole \/ Ages \/ UNCHANGED file

LEMMA PartsBound == \A p \in Responses : Parts[p] \in 1 .. 2
BY PagesAssumption

\* A thread writes its first part, or its second one.
LEMMA PartWritten ==
  ASSUME LocalsOK, NEW t \in Threads, WritePart(t)
  PROVE  /\ page[t] \in Responses
         /\ \/ pos[t] = 0 /\ WriteFirst(page[t])
            \/ /\ pos[t] = 1 /\ Parts[page[t]] = 2
               /\ blocks' = PutAt(2, Block(page[t], 2))
               /\ UNCHANGED <<exists, header, damaged>>
<1>1. pc[t] = "write" /\ page[t] \in Responses /\ pos[t] \in 0 .. 2
  BY DEF WritePart, LocalsOK
<1>2. pos[t] < Parts[page[t]] /\ Parts[page[t]] \in 1 .. 2
  BY <1>1, PartsBound DEF LocalsOK
<1>3. pos[t] = 0 \/ (pos[t] = 1 /\ Parts[page[t]] = 2)
  BY <1>1, <1>2
<1>4. CASE pos[t] = 0
  BY <1>1, <1>4 DEF WritePart
<1>5. CASE pos[t] = 1
  BY <1>1, <1>3, <1>5 DEF WritePart
<1> QED BY <1>3, <1>4, <1>5

LEMMA WriteFile ==
  ASSUME LocalsOK, NEW t \in Threads, Write(t)
  PROVE  FileStep
<1>1. CASE Fetch(t) \/ Recheck(t)
  BY <1>1 DEF Fetch, Recheck, FileStep
<1>2. CASE Truncate(t)
  BY <1>2 DEF Truncate, FileStep
<1>3. CASE WritePart(t)
  BY <1>3, PartWritten DEF FileStep, WritesPage, WritesRest, Pages
<1> QED BY <1>1, <1>2, <1>3 DEF Write

LEMMA AfterBumpOK ==
  ASSUME FileOK, NEW was, NEW is PROVE /\ AfterBump(was, is) \subseteq HeaderStates
                                                /\ (damaged \/ Misses(was, is)) \in BOOLEAN
BY DEF FileOK, AfterBump, Misses, HeaderStates

LEMMA FileSteps == Types /\ [Next]_vars => FileStep
<1> SUFFICES ASSUME Types, [Next]_vars PROVE FileStep
  OBVIOUS
<1>t. FileOK /\ LocalsOK
  BY DEF Types
<1>1. ASSUME NEW w \in Workers, Work(w) PROVE FileStep
  <2>1. CASE Take(w) \/ Check(w)
    BY <2>1 DEF Take, Check, FileStep
  <2>2. CASE Write(w)
    BY <1>t, <2>2, WriteFile DEF Threads
  <2> QED BY <1>1, <2>1, <2>2 DEF Work
<1>2. ASSUME NEW h \in Requests, Open(h) \/ Answer(h) PROVE FileStep
  <2>1. CASE Open(h) \/ ReadHeader(h) \/ CopyBody(h) \/ Expiry(h) \/ Serve(h)
             \/ BumpRead(h) \/ EnqueueRefresh(h)
    BY <2>1 DEF Open, ReadHeader, CopyBody, Expiry, Serve, BumpRead, EnqueueRefresh, FileStep
  <2>2. CASE Clear(h) \/ BumpClear(h)
    BY <2>2 DEF Clear, BumpClear, FileStep
  <2>3. CASE Place(h) \/ BumpPlace(h)
    BY <2>3 DEF Place, BumpPlace, FileStep, WritesPage, Pages
  <2>4. CASE BumpWrite(h)
    BY <1>t, <2>4, AfterBumpOK DEF BumpWrite, FileStep, LeavesHole, Ages
  <2>5. CASE Write(h)
    BY <1>t, <2>5, WriteFile DEF Threads
  <2> QED BY <1>2, <2>1, <2>2, <2>3, <2>4, <2>5 DEF Answer
<1>3. CASE Expire
  BY <1>t, <1>3 DEF Expire, FileStep, Ages, HeaderStates, FileOK
<1>4. CASE (\E force \in BOOLEAN : EnqueueAgain(force)) \/ Restart \/ UNCHANGED vars
  BY <1>4 DEF EnqueueAgain, Restart, vars, FileStep
<1> QED BY <1>1, <1>2, <1>3, <1>4 DEF Next

LEMMA FileNext == FileOK /\ FileStep => FileOK'
<1> SUFFICES ASSUME FileOK, FileStep PROVE FileOK'
  OBVIOUS
<1>1. CASE TruncateFile
  <2>1. blocks' \in Seq(Blocks) /\ Len(blocks') <= 2
    BY <1>1 DEF TruncateFile
  <2>2. exists' \in BOOLEAN /\ header' \in HeaderStates /\ damaged' \in BOOLEAN
    BY <1>1 DEF TruncateFile, HeaderStates
  <2> QED BY <2>1, <2>2 DEF FileOK
<1>2. CASE WritesPage
  <2>1. PICK p \in Pages : WriteFirst(p)
    BY <1>2 DEF WritesPage
  <2>2. blocks' \in Seq(Blocks) /\ Len(blocks') <= 2
    BY <2>1, PutAtOK DEF WriteFirst
  <2>3. exists' \in BOOLEAN /\ header' \in HeaderStates /\ damaged' \in BOOLEAN
    BY <2>1 DEF WriteFirst, FileOK, HeaderStates
  <2> QED BY <2>2, <2>3 DEF FileOK
<1>3. CASE WritesRest
  <2>1. PICK p \in Responses : blocks' = PutAt(2, Block(p, 2))
    BY <1>3 DEF WritesRest
  <2>2. blocks' \in Seq(Blocks) /\ Len(blocks') <= 2
    BY <2>1, PutAtOK DEF Pages
  <2> QED BY <1>3, <2>2 DEF WritesRest, FileOK
<1>4. CASE LeavesHole
  <2>1. blocks' \in Seq(Blocks) /\ Len(blocks') <= 2
    BY <1>4, PutAtOK DEF LeavesHole
  <2> QED BY <1>4, <2>1 DEF LeavesHole, FileOK
<1>5. CASE Ages \/ UNCHANGED file
  BY <1>5 DEF Ages, file, FileOK
<1> QED BY <1>1, <1>2, <1>3, <1>4, <1>5 DEF FileStep

----------------------------------------------------------------------------
(* The threads.                                                            *)

\* A thread at a label may have a page and have written some of its parts.
MayBe(label, p, n) ==
    /\ label \in Labels
    /\ p \in Pages \cup {NoPage}
    /\ n \in 0 .. 2
    /\ label \in {"recheck", "truncate", "write", "serve"} => p \in Responses
    /\ label = "write" => n < Parts[p]
    /\ label \notin {"write", "serve"} => n = 0

LEMMA ThreadMoves ==
  ASSUME LocalsOK, NEW t \in Threads, NEW label, NEW p, NEW n, NEW s \in BOOLEAN,
         pc' = [pc EXCEPT ![t] = label], page' = [page EXCEPT ![t] = p],
         pos' = [pos EXCEPT ![t] = n], stale' = [stale EXCEPT ![t] = s],
         MayBe(label, p, n)
  PROVE  LocalsOK'
<1>1. /\ pc' \in [Threads -> Labels]
      /\ page' \in [Threads -> Pages \cup {NoPage}]
      /\ pos' \in [Threads -> 0 .. 2]
      /\ stale' \in [Threads -> BOOLEAN]
  BY DEF LocalsOK, MayBe
<1>2. ASSUME NEW u \in Threads
      PROVE  /\ pc'[u] \in {"recheck", "truncate", "write", "serve"} => page'[u] \in Responses
             /\ pc'[u] = "write" => pos'[u] < Parts[page'[u]]
             /\ pc'[u] \notin {"write", "serve"} => pos'[u] = 0
  <2>1. CASE u = t
    BY <2>1 DEF LocalsOK, MayBe
  <2>2. CASE u # t
    BY <2>2 DEF LocalsOK
  <2> QED BY <2>1, <2>2
<1> QED BY <1>1, <1>2 DEF LocalsOK

LEMMA Is == LocalsOK => \A t \in Threads : MayBe(pc[t], page[t], pos[t]) /\ stale[t] \in BOOLEAN
BY DEF LocalsOK, MayBe

LEMMA Same ==
  ASSUME LocalsOK, NEW t \in Threads
  PROVE  /\ page = [page EXCEPT ![t] = page[t]]
         /\ pos = [pos EXCEPT ![t] = pos[t]]
         /\ stale = [stale EXCEPT ![t] = stale[t]]
BY DEF LocalsOK

LEMMA Proceeds ==
  ASSUME LocalsOK, NEW t \in Threads, NEW label, Proceed(t, label),
         MayBe(label, page[t], pos[t])
  PROVE  LocalsOK'
<1>1. pc' = [pc EXCEPT ![t] = label] /\ page' = page /\ pos' = pos /\ stale' = stale
  BY DEF Proceed, Goto, locals
<1>2. stale[t] \in BOOLEAN
  BY Is
<1> QED BY <1>1, <1>2, Same, ThreadMoves

LEMMA Finishes ==
  ASSUME LocalsOK, NEW t \in Threads, Finish(t)
  PROVE  LocalsOK'
<1>1. MayBe("idle", NoPage, 0)
  BY DEF MayBe, Labels
<1> QED BY <1>1, ThreadMoves DEF Finish, Goto

\* A thread reads or gets a page.
LEMMA Gets ==
  ASSUME LocalsOK, NEW t \in Threads, NEW label, Goto(t, label), NEW p,
         page' = [page EXCEPT ![t] = p], MayBe(label, p, pos[t]),
         NEW s \in BOOLEAN, stale' = [stale EXCEPT ![t] = s], pos' = pos
  PROVE  LocalsOK'
BY Same, ThreadMoves DEF Goto

LEMMA WriteLocals ==
  ASSUME LocalsOK, NEW t \in Threads, Write(t)
  PROVE  LocalsOK'
<1>i. MayBe(pc[t], page[t], pos[t]) /\ stale[t] \in BOOLEAN
  BY Is
<1>1. CASE Fetch(t)
  <2>1. PICK p \in Responses :
          page' = [page EXCEPT ![t] = p] /\ Goto(t, IF p \in Bad THEN "recheck" ELSE "truncate")
    BY <1>1 DEF Fetch
  <2>2. MayBe("recheck", p, pos[t]) /\ MayBe("truncate", p, pos[t])
    BY <1>1, <1>i DEF Fetch, MayBe, Labels, Pages
  <2>3. stale' = [stale EXCEPT ![t] = stale[t]] /\ pos' = pos
    BY <1>1, Same DEF Fetch
  <2> QED BY <1>i, <2>1, <2>2, <2>3, Gets
<1>2. ASSUME Downloaded(t), pc[t] \in {"recheck", "write"} PROVE LocalsOK'
  <2>1. MayBe("serve", page[t], pos[t])
    BY <1>2, <1>i DEF MayBe, Labels
  <2> QED BY <1>2, <2>1, Finishes, Proceeds DEF Downloaded
<1>3. CASE Recheck(t)
  <2>1. MayBe("truncate", page[t], pos[t])
    BY <1>3, <1>i DEF Recheck, MayBe, Labels
  <2> QED BY <1>2, <1>3, <2>1, Proceeds DEF Recheck
<1>4. CASE Truncate(t)
  <2>1. MayBe("write", page[t], pos[t])
    BY <1>4, <1>i, PartsBound DEF Truncate, MayBe, Labels
  <2> QED BY <1>4, <2>1, Proceeds DEF Truncate
<1>5. CASE WritePart(t)
  <2>1. pc[t] = "write"
    BY <1>5 DEF WritePart
  <2>2. CASE Downloaded(t)
    BY <1>2, <2>1, <2>2
  <2>3. CASE ~Last(t) /\ pos' = [pos EXCEPT ![t] = @ + 1] /\ UNCHANGED <<pc, page, stale>>
    <3>1. page[t] \in Responses /\ Parts[page[t]] \in 1 .. 2 /\ pos[t] \in 0 .. 2
          /\ pos[t] < Parts[page[t]] /\ pos[t] + 1 # Parts[page[t]]
      BY <1>i, <2>1, <2>3, PartsBound DEF MayBe, Last
    <3>2. pos[t] + 1 < Parts[page[t]] /\ pos[t] + 1 \in 0 .. 2
      BY <3>1
    <3>3. MayBe("write", page[t], pos[t] + 1)
      BY <1>i, <2>1, <3>1, <3>2 DEF MayBe
    <3>4. pc' = [pc EXCEPT ![t] = "write"]
      BY <2>1, <2>3 DEF LocalsOK
    <3>5. page' = [page EXCEPT ![t] = page[t]] /\ stale' = [stale EXCEPT ![t] = stale[t]]
          /\ pos' = [pos EXCEPT ![t] = pos[t] + 1]
      BY <2>3, Same
    <3> QED BY <1>i, <3>3, <3>4, <3>5, ThreadMoves
  <2> QED BY <1>5, <2>2, <2>3 DEF WritePart
<1> QED BY <1>1, <1>3, <1>4, <1>5 DEF Write

LEMMA AnswerLocals ==
  ASSUME FileOK, LocalsOK, NEW h \in Requests, Answer(h)
  PROVE  LocalsOK'
<1>i. MayBe(pc[h], page[h], pos[h]) /\ stale[h] \in BOOLEAN /\ h \in Threads
  BY Is DEF Threads
<1>w. CASE Write(h)
  BY <1>i, <1>w, WriteLocals
<1>p. ASSUME NEW label \in Labels \ {"recheck", "truncate", "write", "serve"},
             pc[h] \notin {"write", "serve"}, Proceed(h, label)
      PROVE  LocalsOK'
  <2>1. MayBe(label, page[h], pos[h])
    BY <1>i, <1>p DEF MayBe
  <2> QED BY <1>i, <1>p, <2>1, Proceeds
<1>h. HasHeader => blocks[1].of \in Pages
  BY FirstBlock
<1>1. CASE ReadHeader(h)
  <2>1. CASE Proceed(h, "clear")
    BY <1>1, <1>p, <2>1 DEF ReadHeader, Labels
  <2>2. CASE /\ Readable
             /\ page' = [page EXCEPT ![h] = blocks[1].of]
             /\ stale' = [stale EXCEPT ![h] = header = "expired"]
             /\ Goto(h, "copyBody") /\ UNCHANGED pos
    <3>1. MayBe("copyBody", blocks[1].of, pos[h])
      BY <1>1, <1>h, <1>i, <2>2 DEF ReadHeader, Readable, MayBe, Labels
    <3>2. (header = "expired") \in BOOLEAN
      OBVIOUS
    <3> QED BY <1>i, <2>2, <3>1, <3>2, Gets
  <2> QED BY <1>1, <2>1, <2>2 DEF ReadHeader
<1>2. CASE CopyBody(h)
  BY <1>2, <1>p DEF CopyBody, Labels
<1>3. CASE Expiry(h)
  BY <1>3, <1>p, <1>i, Finishes DEF Expiry, Labels
<1>4. CASE Clear(h) \/ Place(h) \/ BumpWrite(h) \/ BumpClear(h) \/ BumpPlace(h)
  BY <1>4, <1>p DEF Clear, Place, BumpWrite, BumpClear, BumpPlace, AfterBumpClear, Labels
<1>5. CASE Serve(h) \/ EnqueueRefresh(h)
  BY <1>5, <1>i, Finishes DEF Serve, EnqueueRefresh
<1>6. CASE BumpRead(h)
  <2>1. CASE Proceed(h, "bumpClear")
    BY <1>6, <1>p, <2>1 DEF BumpRead, Labels
  <2>2. ASSUME HasHeader, NEW p, p \in {blocks[1].of, Placeholder},
               page' = [page EXCEPT ![h] = p],
               Goto(h, "bumpWrite") /\ UNCHANGED <<pos, stale>>
        PROVE  LocalsOK'
    <3>1. MayBe("bumpWrite", p, pos[h])
      BY <1>6, <1>h, <1>i, <2>2 DEF BumpRead, MayBe, Labels, Pages
    <3>2. stale' = [stale EXCEPT ![h] = stale[h]]
      BY <1>i, <2>2, Same
    <3> QED BY <1>i, <2>2, <3>1, <3>2, Gets
  <2> QED BY <1>6, <2>1, <2>2 DEF BumpRead
<1> QED BY <1>w, <1>1, <1>2, <1>3, <1>4, <1>5, <1>6 DEF Answer

LEMMA LocalsNext == Types /\ [Next]_vars => LocalsOK'
<1> SUFFICES ASSUME Types, [Next]_vars PROVE LocalsOK'
  OBVIOUS
<1>t. FileOK /\ LocalsOK
  BY DEF Types
<1>p. ASSUME NEW t \in Threads, NEW label \in Labels \ {"recheck", "truncate", "write", "serve"},
             pc[t] \notin {"write", "serve"}, Proceed(t, label)
      PROVE  LocalsOK'
  <2>1. MayBe(label, page[t], pos[t])
    BY <1>t, <1>p, Is DEF MayBe
  <2> QED BY <1>t, <1>p, <2>1, Proceeds
<1>1. ASSUME NEW w \in Workers, Work(w) PROVE LocalsOK'
  <2>1. CASE Take(w) \/ Check(w)
    BY <1>p, <2>1 DEF Take, Check, Labels, Threads
  <2> QED BY <1>t, <1>1, <2>1, WriteLocals DEF Work, Threads
<1>2. ASSUME NEW h \in Requests, Open(h) PROVE LocalsOK'
  BY <1>p, <1>2 DEF Open, Labels, Threads
<1>3. ASSUME NEW h \in Requests, Answer(h) PROVE LocalsOK'
  BY <1>t, <1>3, AnswerLocals
<1>4. CASE Restart
  <2>1. \A t \in Threads : pc'[t] = "idle" /\ page'[t] = NoPage /\ pos'[t] = 0
    BY <1>4 DEF Restart
  <2> QED BY <1>4, <2>1 DEF Restart, LocalsOK, Labels
<1>5. CASE Expire \/ (\E force \in BOOLEAN : EnqueueAgain(force)) \/ UNCHANGED vars
  <2>1. UNCHANGED <<pc, page, pos, stale>>
    BY <1>5 DEF Expire, EnqueueAgain, vars, locals
  <2> QED BY <1>t, <2>1 DEF LocalsOK
<1> QED BY <1>1, <1>2, <1>3, <1>4, <1>5 DEF Next

----------------------------------------------------------------------------
(* The rest, and all of it.                                                *)

LEMMA WholeOK ==
  ASSUME NEW p \in Pages PROVE Whole(p) \in Seq(Blocks)
<1>1. PartsOf(p) \in 1 .. 2
  BY PartsBound DEF PartsOf
<1>2. \A n \in 1 .. PartsOf(p) : Block(p, n) \in Blocks
  BY <1>1, BlocksOf
<1> QED BY <1>1, <1>2 DEF Whole

\* What a step may do to what clients have got.
Sends ==
    \/ UNCHANGED sent
    \/ \E h \in Requests, x \in Seq(Blocks) : sent' = [sent EXCEPT ![h] = x]
    \/ sent' = [t \in Requests |-> <<>>]

LEMMA AnswerSends ==
  ASSUME Types, NEW h \in Requests, Open(h) \/ Answer(h)
  PROVE  Sends
<1>t. FileOK /\ LocalsOK /\ sent \in [Requests -> Seq(Blocks)] /\ h \in Threads
  BY DEF Types, OthersOK, Threads
<1>e. <<>> \in Seq(Blocks)
  OBVIOUS
<1>1. CASE Open(h) \/ Write(h)
  BY <1>1, <1>e DEF Open, Write, Fetch, Recheck, Truncate, WritePart, Sends
<1>2. CASE ReadHeader(h)
  <2>1. Readable => blocks[1] \in Blocks /\ Damaged(blocks[1].of) \in Blocks
    BY <1>t, FirstBlock, BlocksOf DEF Readable, HasHeader, Damaged
  <2>2. Readable => <<IF damaged THEN Damaged(blocks[1].of) ELSE blocks[1]>> \in Seq(Blocks)
    BY <2>1
  <2> QED BY <1>2, <2>2 DEF ReadHeader, Sends
<1>3. CASE CopyBody(h)
  <2>1. Len(blocks) >= 2 => blocks[2] \in Blocks
    BY <1>t DEF FileOK
  <2>2. Len(blocks) >= 2 => Append(sent[h], blocks[2]) \in Seq(Blocks)
    BY <1>t, <2>1
  <2> QED BY <1>3, <1>e, <2>2 DEF CopyBody, Sends
<1>4. CASE Serve(h)
  <2>1. page[h] \in Pages
    BY <1>t, <1>4 DEF Serve, LocalsOK, Pages
  <2>2. sent[h] \o Whole(page[h]) \in Seq(Blocks)
    BY <1>t, <2>1, WholeOK
  <2> QED BY <1>4, <2>2 DEF Serve, Sends
<1>5. CASE Expiry(h) \/ Clear(h) \/ Place(h) \/ BumpRead(h) \/ BumpWrite(h)
           \/ BumpClear(h) \/ BumpPlace(h) \/ EnqueueRefresh(h)
  BY <1>5 DEF Expiry, Clear, Place, BumpRead, BumpWrite, BumpClear, BumpPlace,
              EnqueueRefresh, Sends
<1> QED BY <1>1, <1>2, <1>3, <1>4, <1>5 DEF Answer

LEMMA SentNext == Types /\ [Next]_vars => Sends
<1> SUFFICES ASSUME Types, [Next]_vars PROVE Sends
  OBVIOUS
<1>1. ASSUME NEW w \in Workers, Work(w) PROVE Sends
  BY <1>1 DEF Work, Take, Check, Write, Fetch, Recheck, Truncate, WritePart, Sends
<1>2. CASE Expire \/ (\E force \in BOOLEAN : EnqueueAgain(force)) \/ Restart \/ UNCHANGED vars
  BY <1>2 DEF Expire, EnqueueAgain, Restart, vars, Sends
<1> QED BY <1>1, <1>2, AnswerSends DEF Next

\* What a step may do to the queue and to the environment's budget.
Queues ==
    \/ UNCHANGED queue
    \/ queue # <<>> /\ queue' = Tail(queue)
    \/ \E force \in BOOLEAN : queue' = Append(queue, force)
    \/ queue' = <<FALSE>>

Spends == UNCHANGED left \/ \E what \in EnvironmentNames : Spend(what)

Hopes == UNCHANGED hadGood \/ hadGood' \in BOOLEAN

LEMMA OthersStep == Types /\ [Next]_vars => Queues /\ Spends /\ Hopes
<1> SUFFICES ASSUME Types, [Next]_vars PROVE Queues /\ Spends /\ Hopes
  OBVIOUS
<1>n. {"bad", "restart", "disconnect", "enqueue"} \subseteq EnvironmentNames
  BY DEF EnvironmentNames
<1>w. ASSUME NEW t \in Threads, Write(t) PROVE Queues /\ Spends /\ Hopes
  <2>1. UNCHANGED queue
    BY <1>w DEF Write, Fetch, Recheck, Truncate, WritePart
  <2>2. Spends
    BY <1>n, <1>w DEF Write, Fetch, Recheck, Truncate, WritePart, Spends
  <2>3. Hopes
    BY <1>w DEF Write, Fetch, Recheck, Truncate, WritePart, Hopes
  <2> QED BY <2>1, <2>2, <2>3 DEF Queues
<1>1. ASSUME NEW w \in Workers, Work(w) PROVE Queues /\ Spends /\ Hopes
  <2>1. CASE Take(w) \/ Check(w)
    BY <2>1 DEF Take, Check, Queues, Spends, Hopes
  <2> QED BY <1>1, <1>w, <2>1 DEF Work, Threads
<1>2. ASSUME NEW h \in Requests, Open(h) \/ Answer(h) PROVE Queues /\ Spends /\ Hopes
  <2>1. CASE Open(h) \/ ReadHeader(h) \/ Expiry(h) \/ Clear(h) \/ Place(h) \/ Serve(h)
             \/ BumpRead(h) \/ BumpWrite(h) \/ BumpClear(h) \/ BumpPlace(h)
    BY <2>1 DEF Open, ReadHeader, Expiry, Clear, Place, Serve, BumpRead, BumpWrite,
                BumpClear, BumpPlace, Queues, Spends, Hopes
  <2>2. CASE CopyBody(h)
    BY <1>n, <2>2 DEF CopyBody, Queues, Spends, Hopes
  <2>3. CASE EnqueueRefresh(h)
    BY <2>3 DEF EnqueueRefresh, RefreshForced, Queues, Spends, Hopes
  <2> QED BY <1>2, <1>w, <2>1, <2>2, <2>3 DEF Answer, Threads
<1>3. CASE Expire \/ UNCHANGED vars
  BY <1>3 DEF Expire, vars, Queues, Spends, Hopes
<1>4. CASE (\E force \in BOOLEAN : EnqueueAgain(force)) \/ Restart
  BY <1>n, <1>4 DEF EnqueueAgain, Restart, Queues, Spends, Hopes
<1> QED BY <1>1, <1>2, <1>3, <1>4 DEF Next

LEMMA OthersNext == Types /\ [Next]_vars => OthersOK'
<1> SUFFICES ASSUME Types, [Next]_vars PROVE OthersOK'
  OBVIOUS
<1>t. OthersOK /\ Sends /\ Queues /\ Spends /\ Hopes
  BY SentNext, OthersStep DEF Types
<1>1. sent' \in [Requests -> Seq(Blocks)]
  <2>1. CASE UNCHANGED sent
    BY <1>t, <2>1 DEF OthersOK
  <2>2. CASE \E h \in Requests, x \in Seq(Blocks) : sent' = [sent EXCEPT ![h] = x]
    BY <1>t, <2>2 DEF OthersOK
  <2>3. CASE sent' = [t \in Requests |-> <<>>]
    BY <2>3
  <2> QED BY <1>t, <2>1, <2>2, <2>3 DEF Sends
<1>2. queue' \in Seq(BOOLEAN)
  <2>1. CASE queue # <<>> /\ queue' = Tail(queue)
    BY <1>t, <2>1 DEF OthersOK
  <2>2. CASE \E force \in BOOLEAN : queue' = Append(queue, force)
    BY <1>t, <2>2 DEF OthersOK
  <2>3. CASE queue' = <<FALSE>>
    BY <2>3
  <2> QED BY <1>t, <2>1, <2>2, <2>3 DEF Queues, OthersOK
<1>3. left' \in [EnvironmentNames -> Nat]
  BY <1>t DEF Spends, Spend, OthersOK
<1>4. hadGood' \in BOOLEAN
  BY <1>t DEF Hopes, OthersOK
<1> QED BY <1>1, <1>2, <1>3, <1>4 DEF OthersOK

LEMMA TypesNext == Types /\ [Next]_vars => Types'
BY FileSteps, FileNext, LocalsNext, OthersNext DEF Types

LEMMA TypesInvariant == Spec => []Types
BY TypesInit, TypesNext, PTL DEF Spec

\* The cache file and the goroutines that use it keep their types: see TypeOK in
\* Mirror.
THEOREM MirrorTypeCorrect == Spec => []TypeOK
<1>1. Types => TypeOK
  BY DEF Types, FileOK, LocalsOK, OthersOK, TypeOK
<1> QED BY <1>1, TypesInvariant, PTL

----------------------------------------------------------------------------
(* A file without a readable first block is somebody's work.               *)

\* Threads whose next write is the first block of the file.
Starting ==
    {t \in Threads : \/ pc[t] \in {"place", "bumpPlace"}
                     \/ pc[t] = "write" /\ pos[t] = 0}

NoRestart == left["restart"] = Budget["restart"]

EmptyInv ==
    /\ left["restart"] <= Budget["restart"]
    /\ exists /\ ~HasHeader /\ NoRestart => Starting # {}

LEMMA HeaderWritten ==
  ASSUME FileOK, NEW p \in Pages, WriteFirst(p)
  PROVE  HasHeader'
<1>1. Block(p, 1) \in Blocks
  BY BlocksOf
<1>2. blocks'[1] = Block(p, 1) /\ Len(blocks') >= 1
  <2>1. /\ Len(PutAt(1, Block(p, 1))) = IF Len(blocks) < 1 THEN 1 ELSE Len(blocks)
        /\ PutAt(1, Block(p, 1))[1] = Block(p, 1)
    BY <1>1, PutAtPuts
  <2>2. Len(blocks) \in Nat
    BY DEF FileOK
  <2> QED BY <2>1, <2>2 DEF WriteFirst
<1>3. blocks' # <<>>
  BY <1>2
<1>4. p # Hole
  BY PagesAssumption
<1> QED BY <1>2, <1>3, <1>4 DEF HasHeader, Block

\* What a write of the second block leaves at the first one.
LEMMA FirstStays ==
  ASSUME FileOK, NEW p \in Pages, blocks' = PutAt(2, Block(p, 2))
  PROVE  HasHeader' <=> HasHeader
<1>1. Block(p, 2) \in Blocks
  BY BlocksOf
<1>p. /\ Len(blocks') = IF Len(blocks) < 2 THEN 2 ELSE Len(blocks)
      /\ \A k \in 1 .. Len(blocks) : k # 2 => blocks'[k] = blocks[k]
      /\ \A k \in 1 .. 2 - 1 : k > Len(blocks) => blocks'[k] = Block(Hole, k)
  <2> DEFINE b == Block(p, 2)
  <2>1. 2 \in 1 .. 2 /\ b \in Blocks
    BY <1>1
  <2>2. blocks' = PutAt(2, b)
    OBVIOUS
  <2> HIDE DEF b
  <2>3. /\ Len(PutAt(2, b)) = IF Len(blocks) < 2 THEN 2 ELSE Len(blocks)
        /\ \A k \in 1 .. Len(blocks) : k # 2 => PutAt(2, b)[k] = blocks[k]
        /\ \A k \in 1 .. 2 - 1 : k > Len(blocks) => PutAt(2, b)[k] = Block(Hole, k)
    BY <2>1, PutAtPuts
  <2> QED BY <2>2, <2>3
<1>l. Len(blocks) \in Nat /\ Len(blocks') >= 1 /\ (blocks = <<>> <=> Len(blocks) = 0)
  BY <1>p DEF FileOK
<1>n. blocks' # <<>>
  BY <1>l
<1>2. CASE blocks = <<>>
  <2>1. blocks'[1] = Block(Hole, 1)
    BY <1>p, <1>l, <1>2
  <2>2. blocks'[1].of = Hole
    BY <2>1 DEF Block
  <2> QED BY <1>2, <2>2 DEF HasHeader
<1>3. CASE blocks # <<>>
  <2>1. blocks'[1] = blocks[1]
    BY <1>p, <1>l, <1>3
  <2> QED BY <1>3, <1>n, <2>1 DEF HasHeader
<1> QED BY <1>2, <1>3

LEMMA EmptyInit == Init => EmptyInv
BY MirrorAssumption DEF Init, EmptyInv, EnvironmentNames

\* All other threads stay where they are.
OneMoves(t) ==
    \A u \in Threads : u # t => pc'[u] = pc[u] /\ pos'[u] = pos[u]

LEMMA Moves ==
  ASSUME LocalsOK, NEW t \in Threads
  PROVE  /\ (\E label : Proceed(t, label)) => OneMoves(t)
         /\ Finish(t) => OneMoves(t)
         /\ (\E label : Goto(t, label)) /\ UNCHANGED pos => OneMoves(t)
BY DEF Proceed, Finish, Goto, locals, OneMoves, LocalsOK

LEMMA WriteMoves ==
  ASSUME LocalsOK, NEW t \in Threads, Write(t)
  PROVE  OneMoves(t)
<1>1. CASE Fetch(t)
  BY <1>1, Moves DEF Fetch
<1>2. CASE Recheck(t) \/ Truncate(t)
  BY <1>2, Moves DEF Recheck, Truncate, Downloaded
<1>3. CASE WritePart(t)
  <2>1. CASE Downloaded(t)
    BY <2>1, Moves DEF Downloaded
  <2>2. CASE pos' = [pos EXCEPT ![t] = @ + 1] /\ pc' = pc
    BY <2>2 DEF OneMoves, LocalsOK
  <2> QED BY <1>3, <2>1, <2>2 DEF WritePart
<1> QED BY <1>1, <1>2, <1>3 DEF Write

LEMMA AnswerMoves ==
  ASSUME LocalsOK, NEW h \in Requests, Open(h) \/ Answer(h)
  PROVE  OneMoves(h)
<1>h. h \in Threads
  BY DEF Threads
<1>1. CASE Write(h)
  BY <1>1, <1>h, WriteMoves
<1>2. CASE Open(h) \/ ReadHeader(h) \/ CopyBody(h) \/ Expiry(h) \/ Clear(h) \/ Place(h)
  BY <1>2, <1>h, Moves DEF Open, ReadHeader, CopyBody, Expiry, Clear, Place
<1>3. CASE Serve(h) \/ BumpRead(h) \/ BumpWrite(h) \/ BumpClear(h) \/ BumpPlace(h)
           \/ EnqueueRefresh(h)
  BY <1>3, <1>h, Moves DEF Serve, BumpRead, BumpWrite, BumpClear, BumpPlace, EnqueueRefresh
<1> QED BY <1>1, <1>2, <1>3 DEF Answer

LEMMA OthersGoOn ==
  ASSUME NEW t \in Threads, t \notin Starting, OneMoves(t)
  PROVE  Starting \subseteq Starting'
BY DEF Starting, OneMoves

\* The file is not emptied, and who was to write its first block still is.
Held == (HasHeader => HasHeader') /\ UNCHANGED exists /\ Starting \subseteq Starting'

Covered == HasHeader' \/ Starting' # {} \/ Held

LEMMA HeldIf ==
  ASSUME NEW t \in Threads, t \notin Starting, OneMoves(t), UNCHANGED <<exists, blocks>>
  PROVE  Covered
<1>1. HasHeader' <=> HasHeader
  BY DEF HasHeader
<1> QED BY <1>1, OthersGoOn DEF Held, Covered

LEMMA WriteCovered ==
  ASSUME FileOK, LocalsOK, NEW t \in Threads, Write(t)
  PROVE  Covered
<1>1. CASE Fetch(t) \/ Recheck(t)
  <2>1. t \notin Starting /\ UNCHANGED <<exists, blocks>>
    BY <1>1 DEF Fetch, Recheck, Starting, file
  <2> QED BY <2>1, WriteMoves, HeldIf
<1>2. CASE Truncate(t)
  <2>1. pc'[t] = "write" /\ pos'[t] = 0
    BY <1>2 DEF Truncate, Proceed, Goto, locals, LocalsOK
  <2> QED BY <2>1 DEF Starting, Covered
<1>3. CASE WritePart(t)
  <2>1. CASE pos[t] = 0
    BY <1>3, <2>1, PartWritten, HeaderWritten DEF Covered, Pages
  <2>2. CASE pos[t] = 1
    <3>1. /\ page[t] \in Responses /\ blocks' = PutAt(2, Block(page[t], 2))
          /\ UNCHANGED exists
      BY <1>3, <2>2, PartWritten
    <3>p. page[t] \in Pages
      BY <3>1 DEF Pages
    <3>2. HasHeader' <=> HasHeader
      BY <3>1, <3>p, FirstStays
    <3>3. t \notin Starting
      BY <1>3, <2>2 DEF WritePart, Starting
    <3> QED BY <3>1, <3>2, <3>3, WriteMoves, OthersGoOn DEF Held, Covered
  <2> QED BY <1>3, <2>1, <2>2, PartWritten
<1> QED BY <1>1, <1>2, <1>3 DEF Write

LEMMA AnswerCovered ==
  ASSUME FileOK, LocalsOK, NEW h \in Requests, Open(h) \/ Answer(h)
  PROVE  Covered
<1>h. h \in Threads /\ OneMoves(h)
  BY AnswerMoves DEF Threads
<1>1. CASE Write(h)
  BY <1>1, <1>h, WriteCovered
<1>2. CASE Open(h) \/ ReadHeader(h) \/ CopyBody(h) \/ Expiry(h) \/ Serve(h)
           \/ BumpRead(h) \/ EnqueueRefresh(h)
  <2>1. h \notin Starting /\ UNCHANGED <<exists, blocks>>
    BY <1>2 DEF Open, ReadHeader, CopyBody, Expiry, Serve, BumpRead, EnqueueRefresh,
                Starting, file
  <2> QED BY <1>h, <2>1, HeldIf
<1>3. CASE Clear(h) \/ BumpClear(h)
  <2>1. pc'[h] \in {"place", "bumpPlace"}
    BY <1>h, <1>3 DEF Clear, BumpClear, AfterBumpClear, Proceed, Goto, LocalsOK
  <2> QED BY <1>h, <2>1 DEF Starting, Covered
<1>4. CASE Place(h) \/ BumpPlace(h)
  BY <1>4, HeaderWritten DEF Place, BumpPlace, Covered, Pages
<1>5. CASE BumpWrite(h)
  <2>1. h \notin Starting /\ UNCHANGED exists
    BY <1>5 DEF BumpWrite, Starting
  <2>2. CASE UNCHANGED blocks
    BY <1>h, <2>1, <2>2, HeldIf
  <2>3. CASE ~HasHeader
    BY <1>h, <2>1, <2>3, OthersGoOn DEF Held, Covered
  <2> QED BY <1>5, <2>2, <2>3 DEF BumpWrite
<1> QED BY <1>1, <1>2, <1>3, <1>4, <1>5 DEF Answer

LEMMA EmptyNext == Types /\ EmptyInv /\ [Next]_vars => EmptyInv'
<1> SUFFICES ASSUME Types, EmptyInv, [Next]_vars PROVE EmptyInv'
  OBVIOUS
<1>t. FileOK /\ LocalsOK /\ Spends /\ left \in [EnvironmentNames -> Nat]
  BY OthersStep DEF Types, OthersOK
<1>l. left'["restart"] <= left["restart"] /\ left["restart"] \in Nat /\ left'["restart"] \in Nat
  BY <1>t DEF Spends, Spend, EnvironmentNames
<1>b. /\ left'["restart"] <= Budget["restart"] /\ (NoRestart' => NoRestart)
      /\ Budget["restart"] \in Nat
  BY <1>l, MirrorAssumption DEF EmptyInv, NoRestart, EnvironmentNames
<1>1. CASE Covered
  BY <1>b, <1>1 DEF Covered, Held, EmptyInv
<1>2. ASSUME NEW w \in Workers, Work(w) PROVE Covered
  <2>1. CASE Take(w) \/ Check(w)
    <3>1. w \in Threads /\ w \notin Starting /\ UNCHANGED <<exists, blocks>>
      BY <2>1 DEF Take, Check, Starting, file, Threads
    <3>2. OneMoves(w)
      BY <1>t, <2>1, <3>1, Moves DEF Take, Check
    <3> QED BY <3>1, <3>2, HeldIf
  <2> QED BY <1>t, <1>2, <2>1, WriteCovered DEF Work, Threads
<1>3. ASSUME NEW h \in Requests, Open(h) \/ Answer(h) PROVE Covered
  BY <1>t, <1>3, AnswerCovered
<1>4. CASE Expire \/ (\E force \in BOOLEAN : EnqueueAgain(force)) \/ UNCHANGED vars
  <2>1. UNCHANGED <<exists, blocks, pc, pos>>
    BY <1>4 DEF Expire, EnqueueAgain, vars, file, locals
  <2>2. Starting' = Starting /\ HasHeader' = HasHeader
    BY <2>1 DEF Starting, HasHeader
  <2>3. Covered
    BY <2>1, <2>2 DEF Covered, Held
  <2> QED BY <1>1, <2>3
<1>5. CASE Restart
  <2>1. left'["restart"] = left["restart"] - 1
    BY <1>t, <1>5 DEF Restart, Spend, EnvironmentNames
  <2>2. ~NoRestart'
    BY <1>b, <1>l, <2>1 DEF NoRestart, EmptyInv
  <2> QED BY <1>b, <2>2 DEF EmptyInv
<1> QED BY <1>1, <1>2, <1>3, <1>4, <1>5 DEF Next

\* Nobody leaves an empty file behind but a process that ends: see EmptyMeansWriting
\* in Mirror.
THEOREM EmptyIsWritten == Spec => []EmptyMeansWriting
<1>1. EmptyInv => EmptyMeansWriting
  BY DEF EmptyInv, EmptyMeansWriting, NoRestart, Starting
<1> QED BY <1>1, EmptyInit, EmptyNext, TypesInvariant, PTL DEF Spec

----------------------------------------------------------------------------
(* What visitors get of pages that fit into one write.                     *)

OneWrite == \A p \in Responses : Parts[p] = 1

\* The first block of the file is the first of something.
FirstIsFirst == blocks # <<>> => blocks[1].part = 1

\* One page, or one with a damaged header.
Got(p) == {Whole(p), <<Damaged(p)>>}

\* A request has sent nothing yet, what it read, or one page.
SentSoFar(h) ==
    /\ pc[h] \in {"idle", "bump", "bumpWrite", "bumpClear", "bumpPlace", "enqueue"}
          => sent[h] = <<>> \/ \E p \in Pages : sent[h] \in Got(p)
    /\ pc[h] \in {"copyBody", "expiry"} => page[h] \in Pages /\ sent[h] \in Got(page[h])
    /\ pc[h] \in {"readHeader", "clear", "place", "fetch", "recheck", "truncate", "write",
                  "serve"} => sent[h] = <<>>

ServeInv == FirstIsFirst /\ \A h \in Requests : SentSoFar(h)

LEMMA WholeIsFirst ==
  ASSUME OneWrite, NEW p \in Pages
  PROVE  PartsOf(p) = 1 /\ Whole(p) = <<Block(p, 1)>>
<1>1. PartsOf(p) = 1
  BY DEF OneWrite, PartsOf
<1>2. Whole(p) = [n \in 1 .. 1 |-> Block(p, n)]
  BY <1>1 DEF Whole
<1> QED BY <1>1, <1>2

LEMMA FirstNext == Types /\ FirstIsFirst /\ [Next]_vars => FirstIsFirst'
<1> SUFFICES ASSUME Types, FirstIsFirst, FileStep PROVE FirstIsFirst'
  BY FileSteps
<1>t. FileOK
  BY DEF Types
<1>1. ASSUME NEW p \in Pages \cup {Hole}, NEW n \in 1 .. 2, blocks' = PutAt(n, Block(p, n))
      PROVE  FirstIsFirst'
  <2>1. Block(p, n) \in Blocks
    BY BlocksOf
  <2>2. /\ blocks'[n] = Block(p, n)
        /\ \A k \in 1 .. Len(blocks) : k # n => blocks'[k] = blocks[k]
        /\ \A k \in 1 .. n - 1 : k > Len(blocks) => blocks'[k] = Block(Hole, k)
    <3> DEFINE b == Block(p, n)
    <3>1. b \in Blocks /\ n \in 1 .. 2 /\ blocks' = PutAt(n, b)
      BY <1>1, <2>1
    <3> HIDE DEF b
    <3>2. /\ PutAt(n, b)[n] = b
          /\ \A k \in 1 .. Len(blocks) : k # n => PutAt(n, b)[k] = blocks[k]
          /\ \A k \in 1 .. n - 1 : k > Len(blocks) => PutAt(n, b)[k] = Block(Hole, k)
      BY <1>t, <3>1, PutAtPuts
    <3>3. b = Block(p, n)
      BY DEF b
    <3> QED BY <3>1, <3>2, <3>3
  <2>3. Len(blocks) \in Nat /\ (blocks = <<>> <=> Len(blocks) = 0)
    BY <1>t DEF FileOK
  <2>4. CASE n = 1
    BY <2>2, <2>4 DEF FirstIsFirst, Block
  <2>5. CASE n = 2 /\ blocks = <<>>
    <3>1. blocks'[1] = Block(Hole, 1)
      BY <2>2, <2>3, <2>5
    <3> QED BY <3>1 DEF FirstIsFirst, Block
  <2>6. CASE n = 2 /\ blocks # <<>>
    <3>1. blocks'[1] = blocks[1]
      BY <2>2, <2>3, <2>6
    <3> QED BY <2>6, <3>1 DEF FirstIsFirst
  <2> QED BY <2>4, <2>5, <2>6
<1>2. CASE WritesPage \/ WritesRest \/ LeavesHole
  BY <1>1, <1>2 DEF WritesPage, WriteFirst, WritesRest, LeavesHole, Pages
<1>3. CASE TruncateFile \/ Ages \/ UNCHANGED file
  BY <1>3 DEF TruncateFile, Ages, file, FirstIsFirst
<1> QED BY <1>2, <1>3 DEF FileStep

LEMMA ServeInit == Init => ServeInv
BY DEF Init, ServeInv, FirstIsFirst, SentSoFar, Threads

\* A request that does not move has sent what it had.
LEMMA OthersSent ==
  ASSUME LocalsOK, NEW h \in Requests, SentSoFar(h), sent'[h] = sent[h],
         pc'[h] = pc[h], page'[h] = page[h]
  PROVE  SentSoFar(h)'
BY DEF SentSoFar

\* A thread that stays where it is or that is another one has sent what it had.
LEMMA StaysSent ==
  ASSUME LocalsOK, OthersOK, NEW t \in Threads, NEW h \in Requests, h # t, SentSoFar(h),
         \/ UNCHANGED sent
         \/ t \in Requests /\ \E x : sent' = [sent EXCEPT ![t] = x],
         \E label : pc' = [pc EXCEPT ![t] = label],
         page' = page \/ \E p : page' = [page EXCEPT ![t] = p]
  PROVE  SentSoFar(h)'
<1>1. h \in Threads
  BY DEF Threads
<1>2. pc'[h] = pc[h] /\ page'[h] = page[h]
  BY <1>1 DEF LocalsOK
<1>3. sent'[h] = sent[h]
  BY DEF OthersOK
<1> QED BY <1>2, <1>3, OthersSent

\* Steps of threads are of that form.
Shape(t) ==
    /\ UNCHANGED sent \/ (t \in Requests /\ \E x : sent' = [sent EXCEPT ![t] = x])
    /\ \E label : pc' = [pc EXCEPT ![t] = label]
    /\ page' = page \/ \E p : page' = [page EXCEPT ![t] = p]

LEMMA WriteShape ==
  ASSUME LocalsOK, NEW t \in Threads, Write(t)
  PROVE  Shape(t) /\ UNCHANGED sent
<1>1. CASE Fetch(t)
  BY <1>1 DEF Fetch, Goto, Shape
<1>2. CASE Recheck(t) \/ Truncate(t)
  BY <1>2 DEF Recheck, Truncate, Downloaded, Finish, Proceed, Goto, locals, Shape
<1>3. CASE WritePart(t)
  <2>1. pc = [pc EXCEPT ![t] = pc[t]]
    BY DEF LocalsOK
  <2> QED BY <1>3, <2>1 DEF WritePart, Downloaded, Finish, Proceed, Goto, locals, Shape
<1> QED BY <1>1, <1>2, <1>3 DEF Write

LEMMA AnswerShape ==
  ASSUME LocalsOK, NEW h \in Requests, Open(h) \/ Answer(h)
  PROVE  Shape(h)
<1>1. CASE Write(h)
  BY <1>1, WriteShape DEF Threads
<1>2. CASE Open(h) \/ ReadHeader(h) \/ CopyBody(h) \/ Expiry(h) \/ Clear(h) \/ Place(h)
  BY <1>2 DEF Open, ReadHeader, CopyBody, Expiry, Clear, Place, Finish, Proceed, Goto,
              locals, Shape
<1>3. CASE Serve(h) \/ BumpRead(h) \/ BumpWrite(h) \/ BumpClear(h) \/ BumpPlace(h)
           \/ EnqueueRefresh(h)
  BY <1>3 DEF Serve, BumpRead, BumpWrite, BumpClear, BumpPlace, EnqueueRefresh, Finish,
              Proceed, Goto, locals, Shape
<1> QED BY <1>1, <1>2, <1>3 DEF Answer

\* A request that moves on.
LEMMA RequestSent ==
  ASSUME OneWrite, Types, ServeInv, NEW h \in Requests, Open(h) \/ Answer(h)
  PROVE  SentSoFar(h)'
<1>t. /\ FileOK /\ LocalsOK /\ OthersOK /\ h \in Threads /\ SentSoFar(h)
      /\ pc \in [Threads -> Labels] /\ page \in [Threads -> Pages \cup {NoPage}]
      /\ sent \in [Requests -> Seq(Blocks)]
  BY DEF Types, ServeInv, Threads, LocalsOK, OthersOK
<1>p. ASSUME NEW label, Proceed(h, label) PROVE pc'[h] = label /\ page'[h] = page[h]
  BY <1>p, <1>t DEF Proceed, Goto, locals
<1>f. Finish(h) => pc'[h] = "idle"
  BY <1>t DEF Finish, Goto
<1>1. CASE Open(h)
  <2>1. pc'[h] \in {"readHeader", "clear"} /\ sent'[h] = <<>>
    BY <1>1, <1>p, <1>t DEF Open
  <2> QED BY <2>1 DEF SentSoFar
<1>2. CASE ReadHeader(h)
  <2>1. CASE Proceed(h, "clear") /\ UNCHANGED sent
    BY <1>2, <1>p, <1>t, <2>1 DEF ReadHeader, SentSoFar
  <2>2. CASE /\ Readable /\ page' = [page EXCEPT ![h] = blocks[1].of]
             /\ sent' = [sent EXCEPT ![h] =
                             <<IF damaged THEN Damaged(blocks[1].of) ELSE blocks[1]>>]
             /\ Goto(h, "copyBody")
    <3>1. blocks[1] \in Blocks /\ blocks[1].part = 1 /\ blocks[1].of \in Pages
      BY <1>t, <2>2, FirstBlock DEF Readable, HasHeader, ServeInv, FirstIsFirst
    <3>2. blocks[1] = Block(blocks[1].of, 1)
      BY <3>1 DEF Blocks, Block
    <3>3. sent'[h] \in Got(blocks[1].of)
      <4>1. CASE damaged
        BY <1>t, <2>2, <4>1 DEF Got
      <4>2. CASE ~damaged
        BY <1>t, <2>2, <3>1, <3>2, <4>2, WholeIsFirst DEF Got
      <4> QED BY <4>1, <4>2
    <3>4. page'[h] = blocks[1].of /\ pc'[h] = "copyBody"
      BY <1>t, <2>2 DEF Goto
    <3> QED BY <3>1, <3>3, <3>4 DEF SentSoFar
  <2> QED BY <1>2, <2>1, <2>2 DEF ReadHeader
<1>3. CASE CopyBody(h)
  <2>1. page[h] \in Pages /\ PartsOf(page[h]) = 1 /\ sent[h] \in Got(page[h])
    BY <1>3, <1>t, WholeIsFirst DEF CopyBody, SentSoFar
  <2>2. \/ Proceed(h, "expiry") /\ UNCHANGED sent
        \/ Proceed(h, "clear") /\ sent' = [sent EXCEPT ![h] = <<>>]
    BY <1>3, <2>1 DEF CopyBody
  <2>3. CASE Proceed(h, "expiry") /\ UNCHANGED sent
    BY <1>p, <2>1, <2>3 DEF SentSoFar
  <2>4. CASE Proceed(h, "clear") /\ sent' = [sent EXCEPT ![h] = <<>>]
    BY <1>p, <1>t, <2>4 DEF SentSoFar
  <2> QED BY <2>2, <2>3, <2>4
<1>4. CASE Expiry(h)
  <2>1. page[h] \in Pages /\ sent'[h] \in Got(page[h])
    BY <1>4, <1>t DEF Expiry, SentSoFar
  <2>2. pc'[h] \in {"bump", "idle"}
    BY <1>4, <1>p, <1>f DEF Expiry
  <2> QED BY <2>1, <2>2 DEF SentSoFar
<1>5. CASE Clear(h) \/ Place(h)
  <2>1. pc'[h] \in {"place", "fetch"} /\ sent'[h] = <<>>
    BY <1>5, <1>p, <1>t DEF Clear, Place, SentSoFar
  <2> QED BY <2>1 DEF SentSoFar
<1>6. CASE Write(h)
  <2>1. sent'[h] = <<>>
    BY <1>6, <1>t, WriteShape DEF Write, Fetch, Recheck, Truncate, WritePart, SentSoFar
  <2>2. pc'[h] \in {"recheck", "truncate", "write", "serve", "idle"}
    <3>1. CASE Fetch(h)
      BY <1>t, <3>1 DEF Fetch, Goto
    <3>2. CASE Recheck(h) \/ Truncate(h) \/ WritePart(h)
      BY <1>p, <1>f, <3>2 DEF Recheck, Truncate, WritePart, Downloaded
    <3> QED BY <1>6, <3>1, <3>2 DEF Write
  <2> QED BY <2>1, <2>2 DEF SentSoFar
<1>7. CASE Serve(h)
  <2>1. page[h] \in Pages /\ sent[h] = <<>>
    BY <1>7, <1>t DEF Serve, SentSoFar, LocalsOK, Pages
  <2>2. sent'[h] = Whole(page[h])
    BY <1>7, <1>t, <2>1, WholeOK DEF Serve
  <2>3. pc'[h] = "idle"
    BY <1>7, <1>f DEF Serve
  <2> QED BY <2>1, <2>2, <2>3 DEF SentSoFar, Got
<1>8. CASE BumpRead(h) \/ BumpWrite(h) \/ BumpClear(h) \/ BumpPlace(h) \/ EnqueueRefresh(h)
  <2>1. pc[h] \in {"bump", "bumpWrite", "bumpClear", "bumpPlace", "enqueue"} /\ sent' = sent
    BY <1>8 DEF BumpRead, BumpWrite, BumpClear, BumpPlace, EnqueueRefresh
  <2>2. pc'[h] \in {"bumpWrite", "bumpClear", "bumpPlace", "enqueue", "idle"}
    BY <1>8, <1>p, <1>f, <1>t DEF BumpRead, BumpWrite, BumpClear, BumpPlace, EnqueueRefresh,
                                  AfterBumpClear, Goto
  <2> QED BY <1>t, <2>1, <2>2 DEF SentSoFar
<1> QED BY <1>1, <1>2, <1>3, <1>4, <1>5, <1>6, <1>7, <1>8 DEF Answer

LEMMA ServeNext == OneWrite /\ Types /\ ServeInv /\ [Next]_vars => ServeInv'
<1> SUFFICES ASSUME OneWrite, Types, ServeInv, [Next]_vars PROVE ServeInv'
  OBVIOUS
<1>t. LocalsOK /\ OthersOK /\ \A h \in Requests : SentSoFar(h)
  BY DEF Types, ServeInv
<1>f. FirstIsFirst'
  BY FirstNext DEF ServeInv
<1>1. ASSUME NEW w \in Workers, Work(w), NEW h \in Requests PROVE SentSoFar(h)'
  <2>1. w \in Threads /\ h # w
    BY MirrorAssumption DEF Threads
  <2>2. Shape(w)
    <3>1. CASE Take(w) \/ Check(w)
      BY <3>1 DEF Take, Check, Proceed, Goto, locals, Shape
    <3> QED BY <1>1, <1>t, <2>1, <3>1, WriteShape DEF Work
  <2> QED BY <1>t, <2>1, <2>2, StaysSent DEF Shape
<1>2. ASSUME NEW g \in Requests, Open(g) \/ Answer(g), NEW h \in Requests
      PROVE  SentSoFar(h)'
  <2>1. CASE h = g
    BY <1>2, <2>1, RequestSent
  <2>2. CASE h # g
    BY <1>2, <1>t, <2>2, AnswerShape, StaysSent DEF Shape, Threads
  <2> QED BY <2>1, <2>2
<1>3. ASSUME Expire \/ (\E force \in BOOLEAN : EnqueueAgain(force)) \/ UNCHANGED vars,
             NEW h \in Requests
      PROVE  SentSoFar(h)'
  BY <1>3, <1>t, OthersSent DEF Expire, EnqueueAgain, vars, locals
<1>4. ASSUME Restart, NEW h \in Requests PROVE SentSoFar(h)'
  BY <1>4 DEF Restart, SentSoFar, Threads
<1> QED BY <1>f, <1>1, <1>2, <1>3, <1>4 DEF Next, ServeInv

\* If every page fits into one write, a visitor whose header no misplaced bump has
\* damaged gets a whole response, however workers, visitors, bumps, disconnects and
\* restarts interleave: see ServedWhole in Mirror.
THEOREM ServesWhole == OneWrite => (Spec => []ServedWhole)
<1> SUFFICES ASSUME OneWrite PROVE Spec => []ServedWhole
  OBVIOUS
<1>1. ServeInv => ServedWhole
  BY DEF ServeInv, SentSoFar, ServedWhole, Got
<1>2. Types /\ ServeInv /\ [Next]_vars => ServeInv'
  BY ServeNext
<1> QED BY <1>1, <1>2, ServeInit, TypesInvariant, PTL DEF Spec

=============================================================================
