------------------------------ MODULE Serving ------------------------------
(***************************************************************************)
(* The web server (web/) with the engine's callbacks (engine/engine.go):   *)
(* listeners, the phases of a visit, the answers to server issues, and the *)
(* crawler's queue as far as the cache files go.                           *)
(*                                                                         *)
(* Visitors are answered one after the other here, with all urls, all      *)
(* kinds of answers and the lines of the files; but the goroutine of a     *)
(* visitor of an expired page goes on from there, to bump the file and to  *)
(* enqueue the page, while others come and find the page expired, or not.  *)
(* Mirror has what goroutines do to each other's writes.                   *)
(***************************************************************************)
EXTENDS CacheFile

CONSTANTS
    AllHosts,    \* the root of the listener that serves every host
    Taken,       \* ports that other programs listen on
    Refreshers,  \* bound on the visitors that have an expired page refreshed
    MaxTime,     \* bound on the time
    MaxQueue,    \* bound on the queue
    Budget       \* how often the environment does each of EnvironmentNames

EnvironmentNames == {"visit", "fault"}

Sites == {Parts[u].site : u \in URLs}

Roots == Sites \cup {AllHosts}

ASSUME ServingAssumption ==
    /\ AllHosts \notin Sites
    /\ Taken \subseteq Nat
    /\ MaxTime \in Nat \ {0} /\ MaxQueue \in Nat
    /\ Budget \in [EnvironmentNames -> Nat]

VARIABLES
    now,        \* the time
    listeners,  \* the listeners map: root -> port
    files,      \* the cache files: path -> lines
    queue,      \* the crawler's queue: url, ForceDownload, time of it or of its Bump
    visit,      \* the request: how far it is, where it came in, what it wants
    info,       \* its ServeInfo
    client,     \* what net/http has sent
    refresh,    \* goroutines in the issue CacheExpired: next step, url, time of Bump
    left,       \* what is left of the environment's budget
    good,       \* history: paths that got a good answer, and no 204 since
    excused,    \* history: paths a fault of disk, visitor or layout touched, or a
                \* Bump that found no expires line
    fetched     \* history: paths whose file was last written by a download

web == <<visit, info, client, refresh>>
history == <<good, excused, fetched>>
vars == <<now, listeners, files, queue, web, left, history>>

NewInfo == [error |-> "none", status |-> 0, headers |-> <<>>, length |-> 0,
            expires |-> <<>>, body |-> <<>>]

NoRefresh == [step |-> "idle", url |-> "none", since |-> 0]

NoVisit == [phase |-> "none", root |-> AllHosts, want |-> "none", mixed |-> FALSE]

NothingSent == [sent |-> FALSE, status |-> 0, headers |-> <<>>, length |-> 0, body |-> <<>>]

Init ==
    /\ now = 1
    /\ listeners = <<>>
    /\ files = <<>>
    /\ queue = <<>>
    /\ visit = NoVisit
    /\ info = NewInfo
    /\ client = NothingSent
    /\ refresh = [g \in Refreshers |-> NoRefresh]
    /\ left = Budget
    /\ good = {}
    /\ excused = {}
    /\ fetched = {}

\* No visitor waits for an answer.
AtRest == visit.phase = "none"

Spend(what) ==
    /\ left[what] > 0
    /\ left' = [left EXCEPT ![what] = @ - 1]

----------------------------------------------------------------------------
(* The listeners.                                                          *)

Insert(f, x, y) == [z \in DOMAIN f \cup {x} |-> IF z = x THEN y ELSE f[z]]

Listening == {listeners[root] : root \in DOMAIN listeners}

AvailableToAll(port) == port \notin Taken   \* mutant: a port is given out twice

\* Port 0 is any port that is free.
Available(port) == port = 0 \/ port \notin Taken \cup Listening

MayListen(root, port) == root \notin DOMAIN listeners /\ Available(port)

ListenAndServe(root, port) ==
    /\ MayListen(root, port)
    /\ listeners' = Insert(listeners, root, port)

----------------------------------------------------------------------------
(* The cache.                                                              *)

IsBad(a) == Answer[a].status = 0 \/ Answer[a].status >= 500

CacheExists(u) == CachePath(u) \in DOMAIN files /\ IsCache(files[CachePath(u)])

\* A response that is not bad and that has all its lines.
IsGood(file) ==
    LET blank == Position({"blank"}, file)
    IN  /\ IsCache(file)
        /\ file[1].num \in 1 .. 499
        /\ blank # 0
        /\ \A i \in 1 .. blank : file[i].key = "length" => file[i].num = Len(file) - blank

GoodPaths == {p \in DOMAIN files : IsGood(files[p])}

\* A file is written whole or, when the disk fails, up to some line: the error is
\* logged, or lost with that of the deferred Flush.
Store(u, file) ==
    \/ /\ files' = Insert(files, CachePath(u), file)
       /\ UNCHANGED <<left, excused>>
    \/ /\ Spend("fault")
       /\ \E n \in 0 .. Len(file) - 1 :
             files' = Insert(files, CachePath(u), SubSeq(file, 1, n))
       /\ excused' = excused \cup {CachePath(u)}

KeepsNothing(u, a) == FALSE   \* mutant: a bad answer replaces a good cache

\* onDownloaded: a bad answer does not replace a cache.
Keeps(u, a) == IsBad(a) /\ CacheExists(u)

OnDownloaded(u, a) ==
    \/ Keeps(u, a) /\ UNCHANGED <<files, left, history>>
    \/ /\ ~Keeps(u, a)
       /\ \E file \in WrittenFiles(u, a, now) :
             /\ Store(u, file)
             /\ good' = CASE IsGood(file) -> good \cup {CachePath(u)}
                          [] Answer[a].status = 204 -> good \ {CachePath(u)}
                          [] OTHER -> good
             /\ fetched' = fetched \cup {CachePath(u)}

\* crawler.Enqueue.
Enqueue(u, force, at) ==
    queue' = Append(queue, [url |-> u, force |-> force, at |-> at])

----------------------------------------------------------------------------
(* serveInfo: what it sends, through net/http.                             *)

\* writeHeader: without a status net/http sends 200.
WithHeader(c, i) ==
    IF c.sent THEN c
    ELSE [sent |-> TRUE, status |-> IF i.status = 0 THEN 200 ELSE i.status,
          headers |-> i.headers, length |-> i.length, body |-> <<>>]

\* io.CopyN takes no more than the header announced.
WithBody(c, lines) ==
    [c EXCEPT !.body = IF Len(@ \o lines) <= c.length THEN @ \o lines
                       ELSE SubSeq(@ \o lines, 1, c.length)]

\* WriteBody, and Flush after it: net/http writes nothing of a body that is more than
\* a header sent before had announced.
Written(c, i, lines) ==
    LET h == WithHeader(c, [i EXCEPT !.length = Len(lines)])
    IN  IF Len(h.body \o lines) <= h.length THEN WithBody(h, lines) ELSE h

Text(what) == <<Line("body", 1, <<what>>)>>

\* The visit ends with what was sent.
Answered(c) ==
    /\ visit' = [visit EXCEPT !.phase = "done"]
    /\ info' = NewInfo
    /\ client' = c

----------------------------------------------------------------------------
(* A visit.                                                                *)

Arrive(root, want) ==
    /\ AtRest
    /\ root \in DOMAIN listeners
    /\ Spend("visit")
    /\ UNCHANGED <<now, listeners, files, queue, refresh, history>>

\* Answers that need neither the cache nor the engine's help, but for the text
\* that goes with 405.
Replies ==
    [invalid  |-> [NewInfo EXCEPT !.status = 400],
     bareHost |-> [NewInfo EXCEPT !.status = 301],
     post     |-> [NewInfo EXCEPT !.status = 405],
     robots   |-> [NewInfo EXCEPT !.status = 200]]

\* What is asked for in this way has no name that a url has.
ASSUME RepliesAssumption == URLs \cap DOMAIN Replies = {}

Reply(root, what) ==
    /\ what \in {"invalid", "bareHost"} => root = AllHosts
    /\ Arrive(root, what)
    /\ visit' = [NoVisit EXCEPT !.phase = "done", !.root = root, !.want = what]
    /\ info' = NewInfo
    /\ client' = IF what \in {"post", "robots"}
                 THEN Written(NothingSent, Replies[what], Text(what))
                 ELSE WithHeader(NothingSent, Replies[what])

Opened(root, u) ==
    IF CachePath(u) \in DOMAIN files
    THEN Scan(files[CachePath(u)], root = AllHosts)
    ELSE [NewInfo EXCEPT !.error = "cacheNotFound", !.status = 404]

\* serveURL, up to the body: a single-host listener has the host itself.
Visit(root, u) ==
    /\ root \in {AllHosts, Parts[u].site}
    /\ Arrive(root, u)
    /\ info' = Opened(root, u)
    /\ visit' = [phase |-> IF info'.error = "none" THEN "copy" ELSE "issue",
                 root |-> root, want |-> u, mixed |-> info'.error # "none" /\ info'.headers # <<>>]
    /\ client' = NothingSent

\* CopyBody does not look at a body without a length.
CopyBody ==
    /\ visit.phase = "copy"
    /\ LET i == info
           copied == IF i.length = 0 THEN client
                     ELSE WithBody(WithHeader(client, i), i.body)
           fails == Len(copied.body) < i.length
       IN  \/ /\ client' = copied
              /\ visit' = [visit EXCEPT !.phase = IF fails THEN "issue" ELSE "expiry",
                                        !.mixed = fails]
              /\ info' = [i EXCEPT !.error = IF fails THEN "copyBody" ELSE "none"]
              /\ UNCHANGED <<left, excused>>
           \/ /\ i.length > 0
              /\ Spend("fault")
              /\ client' = WithHeader(client, i)
              /\ visit' = [visit EXCEPT !.phase = "issue", !.mixed = TRUE]
              /\ info' = [i EXCEPT !.error = "copyBody"]
              /\ excused' = excused \cup {CachePath(visit.want)}
    /\ UNCHANGED <<now, listeners, files, queue, refresh, good, fetched>>

HasExpired(i) == i.expires # <<>> /\ i.expires[1].num < now

\* The cache has been served.  When what was read of its expiry has passed, the
\* goroutine goes on to CacheExpired; what the visitor gets does not depend on that.
ServeCache ==
    /\ visit.phase = "expiry"
    /\ \/ /\ HasExpired(info)
          /\ \E g \in Refreshers :
                /\ refresh[g] = NoRefresh
                /\ refresh' = [refresh EXCEPT ![g] = [step |-> "bump", url |-> visit.want,
                                                      since |-> 0]]
       \/ ~HasExpired(info) /\ UNCHANGED refresh
    /\ Answered(WithHeader(client, info))
    /\ UNCHANGED <<now, listeners, files, queue, left, history>>

\* CacheExpired, first: the cache file is bumped, whatever it has become.
Bump(g) ==
    /\ refresh[g].step = "bump"
    /\ LET p == CachePath(refresh[g].url)
       IN  /\ files' = [files EXCEPT ![p] = Bumped(@, now)]
           /\ excused' = IF HasDeadline(files[p]) THEN excused ELSE excused \cup {p}
           /\ fetched' = fetched \ {p}
    /\ refresh' = [refresh EXCEPT ![g].step = "enqueue", ![g].since = now]
    /\ UNCHANGED <<now, listeners, queue, visit, info, client, left, good>>

\* CacheExpired, second: the page is to be downloaded again.
EnqueueExpired(g) ==
    /\ refresh[g].step = "enqueue"
    /\ Len(queue) < MaxQueue
    /\ Enqueue(refresh[g].url, TRUE, refresh[g].since)
    /\ refresh' = [refresh EXCEPT ![g] = NoRefresh]
    /\ UNCHANGED <<now, listeners, files, visit, info, client, left, history>>

\* downloadAndServe: the placeholder comes before the download, whatever the file
\* holds.  If it cannot be written the visitor gets the error.
Place ==
    /\ visit.phase = "issue"
    /\ LET u == visit.want
           file == PlaceholderFile(now)
       IN  \/ /\ files' = Insert(files, CachePath(u), file)
              /\ excused' = IF info.error = "crossHostRef"
                            THEN excused \cup {CachePath(u)} ELSE excused
              /\ fetched' = fetched \ {CachePath(u)}
              /\ visit' = [visit EXCEPT !.phase = "download"]
              /\ UNCHANGED <<info, client, left>>
           \/ /\ Spend("fault")
              /\ \/ UNCHANGED files
                 \/ \E n \in 0 .. Len(file) - 1 :
                       files' = Insert(files, CachePath(u), SubSeq(file, 1, n))
              /\ excused' = excused \cup {CachePath(u)}
              /\ Answered(WithHeader(client, info))
              /\ UNCHANGED fetched
    /\ UNCHANGED <<now, listeners, queue, refresh, good>>

\* ServeDownloaded: its headers join those that were read from the cache; what has
\* been sent stays.
Downloaded(u, a) ==
    Written(client,
            [info EXCEPT !.status = Answer[a].status, !.headers = @ \o MetaLines(u, a)],
            BodyLines(u, a))

Download ==
    /\ visit.phase = "download"
    /\ \E a \in Source[visit.want] :
          /\ OnDownloaded(visit.want, a)
          /\ Answered(Downloaded(visit.want, a))
    /\ UNCHANGED <<now, listeners, queue, refresh>>

\* The visitor has the answer.
Leave ==
    /\ visit.phase = "done"
    /\ visit' = NoVisit
    /\ client' = NothingSent
    /\ UNCHANGED <<now, listeners, files, queue, info, refresh, left, history>>

----------------------------------------------------------------------------
(* The crawler and the time.                                               *)

Work ==
    /\ AtRest
    /\ queue # <<>>
    /\ queue' = Tail(queue)
    /\ LET i == Head(queue)
       IN  \/ /\ ~i.force /\ CacheExists(i.url)
              /\ UNCHANGED <<files, left, history>>
           \/ /\ i.force \/ ~CacheExists(i.url)
              /\ \E a \in Source[i.url] : OnDownloaded(i.url, a)
    /\ UNCHANGED <<now, listeners, web>>

Tick ==
    /\ AtRest
    /\ now < MaxTime
    /\ now' = now + 1
    /\ UNCHANGED <<listeners, files, queue, web, left, history>>

Serve ==
    \/ \E root \in Roots, what \in DOMAIN Replies : Reply(root, what)
    \/ \E root \in Roots, u \in URLs : Visit(root, u)
    \/ CopyBody
    \/ ServeCache
    \/ \E g \in Refreshers : Bump(g) \/ EnqueueExpired(g)
    \/ Place
    \/ Download
    \/ Leave

=============================================================================
