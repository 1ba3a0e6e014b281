------------------------------ MODULE Program ------------------------------
(***************************************************************************)
(* The program (main.go) around the server of Serving: the command line    *)
(* (ParseConfig), the calls it leads to (FromConfig of engine/config.go,   *)
(* Mirror of engine/engine.go), visitors meanwhile, and the interrupt.     *)
(***************************************************************************)
EXTENDS Serving

CONSTANTS
    CommandLines  \* the command lines: sequences of flags

Flag(name, num, root) == [name |-> name, num |-> num, root |-> root]

FlagNames == {"mirror", "mirror-port", "port", "workers", "unknown"}

Flags == [name : FlagNames, num : Int, root : Sites \cup {""}]

ASSUME CommandLinesAssumption ==
    /\ CommandLines \subseteq Seq(Flags)
    /\ \A typed \in CommandLines : \A i \in DOMAIN typed :
          typed[i].name = "mirror" => typed[i].root \in Sites

\* Every site has a front page.
ASSUME FrontPageAssumption ==
    \A site \in Sites : \E u \in URLs :
        Parts[u] = [site |-> site, path |-> <<>>, query |-> <<>>]

VARIABLES
    step,    \* "parse", "setup", "run", "stop", or "over"
    typed,   \* the command line
    args,    \* what is left of it
    config,  \* the Config
    todo     \* calls of Mirror that FromConfig has yet to make

program == <<step, typed, args, config, todo>>

allVars == <<vars, program>>

ProgramInit ==
    /\ Init
    /\ step = "parse"
    /\ typed \in CommandLines
    /\ args = typed
    /\ config = [port |-> -1, workers |-> 4, urls |-> <<>>, ports |-> <<>>]
    /\ todo = <<>>

----------------------------------------------------------------------------
(* The command line.                                                       *)

ParseFlag ==
    /\ step = "parse"
    /\ args # <<>>
    /\ LET flag == Head(args)
       IN  /\ config' = CASE flag.name = "port" -> [config EXCEPT !.port = flag.num]
                          [] flag.name = "workers" -> [config EXCEPT !.workers = flag.num]
                          [] flag.name = "mirror" ->
                                [config EXCEPT !.urls = Append(@, flag.root)]
                          [] flag.name = "mirror-port" ->
                                [config EXCEPT !.ports = Append(@, flag.num)]
                          [] OTHER -> config
           /\ step' = IF flag.name = "unknown" THEN "over" ELSE "parse"
    /\ args' = Tail(args)
    /\ UNCHANGED <<vars, typed, todo>>

PortFromTheEnd(i) ==   \* mutant: ports are counted from the last url
    LET k == i - Len(config.urls) + Len(config.ports)
    IN  IF k >= 1 THEN config.ports[k] ELSE -1

\* A port belongs to the url that has its number.
PortOf(i) == IF i <= Len(config.ports) THEN config.ports[i] ELSE -1

MirrorCalls ==
    (IF config.port > -1 THEN <<[root |-> AllHosts, port |-> config.port]>> ELSE <<>>)
    \o [i \in DOMAIN config.urls |-> [root |-> config.urls[i], port |-> PortOf(i)]]

StepWith(calls) == IF calls = <<>> THEN "run" ELSE "setup"

\* FromConfig up to its calls of Mirror: it panics without workers.
ApplyConfig ==
    /\ step = "parse"
    /\ args = <<>>
    /\ todo' = IF config.workers < 1 THEN <<>> ELSE MirrorCalls
    /\ step' = IF config.workers < 1 THEN "over" ELSE StepWith(MirrorCalls)
    /\ UNCHANGED <<vars, typed, args, config>>

----------------------------------------------------------------------------
(* The calls of Mirror.                                                    *)

FrontPage(site) ==
    CHOOSE u \in URLs : Parts[u] = [site |-> site, path |-> <<>>, query |-> <<>>]

\* The process is gone, and its sockets and memory with it.
Over ==
    /\ step' = "over"
    /\ todo' = <<>>
    /\ listeners' = <<>>
    /\ queue' = <<>>
    /\ visit' = NoVisit
    /\ info' = NewInfo
    /\ client' = NothingSent
    /\ refresh' = [g \in Refreshers |-> NoRefresh]
    /\ UNCHANGED <<now, files, left, history, typed, args, config>>

EnqueuesRoot(call) ==
    IF call.root = AllHosts THEN UNCHANGED queue ELSE Enqueue(FrontPage(call.root), FALSE, now)

\* FromConfig panics when Mirror cannot listen, and main waits for the interrupt
\* after the last call.
Mirror ==
    /\ step = "setup"
    /\ LET call == Head(todo)
       IN  \/ /\ \/ call.port < 0 /\ UNCHANGED listeners
                 \/ call.port >= 0 /\ ListenAndServe(call.root, call.port)
              /\ EnqueuesRoot(call)
              /\ todo' = Tail(todo)
              /\ step' = StepWith(todo')
              /\ UNCHANGED <<now, files, web, left, history, typed, args, config>>
           \/ /\ call.port >= 0
              /\ ~MayListen(call.root, call.port)
              /\ Over

----------------------------------------------------------------------------
(* The interrupt: before signal.Notify it kills the process, after it the  *)
(* engine stops once the crawl has ended.                                  *)

Interrupt ==
    \/ /\ step \in {"parse", "setup"}
       /\ Over
    \/ /\ step = "run"
       /\ step' = "stop"
       /\ UNCHANGED <<vars, typed, args, config, todo>>

\* Visitors that are still being served are cut off.
Exit ==
    /\ step = "stop"
    /\ queue = <<>>
    /\ visit.phase # "download"
    /\ Over

Lives == step \in {"setup", "run", "stop"}

ProgramNext ==
    \/ ParseFlag
    \/ ApplyConfig
    \/ Mirror
    \/ Interrupt
    \/ Exit
    \/ Lives /\ (Serve \/ Work \/ Tick) /\ UNCHANGED program

ProgramSpec == ProgramInit /\ [][ProgramNext]_allVars

----------------------------------------------------------------------------
(* Properties.                                                             *)

Lines == [key : Keys, num : Int, of : {<<>>} \cup (URLs \X Answers)
                                        \cup {<<what>> : what \in DOMAIN Replies}]

Infos == [error : {"none", "noStatusCode", "brokenHeader", "crossHostRef", "cacheNotFound",
                   "copyBody"},
          status : Nat, headers : Seq(Lines), length : Nat, expires : Seq(Lines),
          body : Seq(Lines)]

\* No two listeners have one port, but for those the system chose.
ListenersOK ==
    /\ DOMAIN listeners \subseteq Roots
    /\ \A r, s \in DOMAIN listeners : r # s => listeners[r] = 0 \/ listeners[r] # listeners[s]

\* Type invariant of the program's state: a visit has an error exactly while the
\* engine answers an issue.
TypeOK ==
    /\ ListenersOK
    /\ now \in 1 .. MaxTime
    /\ DOMAIN files \subseteq CachePaths
    /\ \A p \in DOMAIN files : files[p] \in Seq(Lines)
    /\ queue \in Seq([url : URLs, force : BOOLEAN, at : 1 .. MaxTime])
    /\ visit.phase \in {"none", "copy", "issue", "expiry", "download", "done"}
    /\ visit.phase \notin {"none", "done"} => visit.want \in URLs /\ visit.root \in Roots
    /\ info \in Infos
    /\ (info.error # "none") = (visit.phase \in {"issue", "download"})
    /\ client \in [sent : BOOLEAN, status : Nat, headers : Seq(Lines), length : Nat,
                   body : Seq(Lines)]
    /\ refresh \in [Refreshers -> [step : {"idle", "bump", "enqueue"},
                                   url : URLs \cup {"none"}, since : 0 .. MaxTime]]
    /\ step \in {"parse", "setup", "run", "stop", "over"}
    /\ typed \in CommandLines
    /\ config.port \in Int /\ config.workers \in Int
    /\ Len(config.urls) <= Len(typed) /\ Len(config.ports) <= Len(typed)

\* Urls that differ only in characters that names of files lose.
Alike(u, v) ==
    /\ Parts[u].path = Parts[v].path
    /\ SafeName(Parts[u].site) = SafeName(Parts[v].site)
    /\ SafeNames(Parts[u].query) = SafeNames(Parts[v].query)

\* The answer a of the source, for the page v, as it should arrive: without a
\* status from the source the visitor gets 200 all the same.
IsAnswer(c, v, a) ==
    /\ c.status = IF Answer[a].status = 0 THEN 200 ELSE Answer[a].status
    /\ c.headers = MetaLines(v, a)
    /\ c.body = BodyLines(v, a)
    /\ c.length = Answer[a].length

ErrorStatuses == {404, 500, 501, 205}

\* README.md, "priority for response consistency": whatever is in the cache file,
\* also after a failed write, a visitor gets status, header and body of one answer
\* to what was asked for, an empty placeholder, or, once a placeholder could not
\* be written, an error without a body.  Excepted are visits for which the cache
\* was found to be broken after some of it had been passed on.
AnswersWhole ==
    visit.phase = "done" /\ visit.want \in URLs /\ ~visit.mixed =>
        \/ \E v \in URLs, a \in Answers : Alike(visit.want, v) /\ IsAnswer(client, v, a)
        \/ client.status = 204 /\ client.headers = <<>> /\ client.body = <<>>
        \/ /\ left["fault"] < Budget["fault"]
           /\ client.status \in ErrorStatuses /\ client.body = <<>>

\* engine_test.go, "should not overwrite cache with bad data": a good cache is there
\* for good, also when the source is down, unless the disk failed, a visitor left
\* in the middle of the page, a page with references to other hosts was asked for
\* where only one host is served, or a late Bump found a page that never expires.
GoodKept == AtRest => good \ excused \subseteq GoodPaths

\* README.md, "in case the source server / network goes down": a page that has been
\* mirrored stays there to be browsed.
KeptOffline == AtRest => good \subseteq GoodPaths

\* What the source allows, or the default when it allows nothing.
Allowance(a) ==
    LET named == {Answer[a].expires - now, Answer[a].maxAge} \cap (Nat \ {0})
    IN  IF named = {} THEN {DefaultTTL} ELSE named

\* Every file that a download writes is fresh for as long as the source allows and
\* no longer, or for good where the default names no time; unless that is beyond what
\* an int64 of nanoseconds can say.
WrittenFresh ==
    [][UNCHANGED refresh =>
          \A p \in DOMAIN files' : p \notin DOMAIN files \/ files'[p] # files[p] =>
              \A i \in DOMAIN files'[p] : files'[p][i].key = "meta" =>
                  \E ttl \in Allowance(files'[p][i].of[2]) :
                      \/ now + ttl >= Half
                      \/ The("expires", files'[p])
                             = IF ttl > 0 THEN <<ExpiresLine(now + ttl)>> ELSE <<>>]_allVars

\* When the file was bumped for the refreshes that are waiting: in the queue, or in
\* the hands of those who are about to enqueue them.
BumpedAt(p) ==
    {i.at : i \in {queue[k] : k \in {k \in DOMAIN queue :
                                     queue[k].force /\ CachePath(queue[k].url) = p}}}
    \cup {refresh[g].since : g \in {g \in Refreshers : refresh[g].step = "enqueue"
                                             /\ CachePath(refresh[g].url) = p}}

\* The visitor of a step is going to have the page refreshed.
Asks(g) == refresh[g].step = "idle" /\ refresh'[g].step = "bump"

\* Bump is there so that visitors of an expired page do not all have it downloaded
\* again: while a refresh of its file waits, another visitor asks for one only when
\* the TTL of Bump is over, when a download came in between, or when the visitor
\* had read another expiry than the file has by now.
NoStampede ==
    [][\A g \in Refreshers :
          Asks(g) =>
              LET p == CachePath(visit.want)
              IN  \A t \in BumpedAt(p) :
                     \/ now > t + BumpTTL
                     \/ p \in fetched
                     \/ info.expires # Opened(visit.root, visit.want).expires]_allVars

\* config.go, "each port number should immediately follow its URL": the port typed
\* after the i-th flag, if that is a url.
PortTyped(i) ==
    IF i < Len(typed) /\ typed[i + 1].name = "mirror-port" THEN typed[i + 1].num ELSE -1

Mirrored == {i \in DOMAIN typed : typed[i].name = "mirror"}

\* A url without a port comes after those that have one, every port after a url.
PortsFirst ==
    /\ \A i, j \in Mirrored : i < j /\ PortTyped(j) # -1 => PortTyped(i) # -1
    /\ \A i \in DOMAIN typed : typed[i].name = "mirror-port" => i - 1 \in Mirrored

\* The listener for every host, if the last flag of its kind asks for it.
EverythingTyped ==
    \E i \in DOMAIN typed :
        /\ typed[i].name = "port" /\ typed[i].num >= 0
        /\ \A j \in DOMAIN typed : j > i => typed[j].name # "port"

\* A program that runs listens for every url that was typed with a port, on that
\* port, and for no other; one that cannot does not run.
ListensAsTyped ==
    step \in {"run", "stop"} =>
        /\ (AllHosts \in DOMAIN listeners) = EverythingTyped
        /\ PortsFirst => \A site \in Sites :
              LET ports == {PortTyped(i) : i \in {j \in Mirrored : typed[j].root = site}} \cap Nat
              IN  IF site \in DOMAIN listeners THEN ports = {listeners[site]} ELSE ports = {}

=============================================================================
