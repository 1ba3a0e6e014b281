----------------------------- MODULE CacheFile -----------------------------
(***************************************************************************)
(* Cache files: how they are named (cacher/fileop.go), what is written to  *)
(* them (cacher/http.go, cacher/cacher.go) and what the server reads there *)
(* (web/http.go).  A file is a sequence of lines.                          *)
(*                                                                         *)
(* Left out are the lines that repeat others (X-Mirror-Url, Last-Modified, *)
(* Cache-Control, Expires), collisions of the short hash, and names of     *)
(* more than 32 characters, which a hash shortens.                         *)
(***************************************************************************)
EXTENDS Integers, SequencesExt

CONSTANTS
    URLs,        \* the urls that are mirrored, by name
    Parts,       \* what they consist of: url -> site, path and sorted query
    Stripped,    \* names that lose characters: name -> what is left of it
    Answers,     \* what the source may answer, by name
    Answer,      \* answer -> its status, length, cross-host flag and lifetime
    Source,      \* the answers for each url
    DefaultTTL,  \* for answers that name no lifetime
    BumpTTL,     \* for placeholders, and for caches that are being refreshed
    Half         \* times wrap there: an int64 of nanoseconds is half full

ASSUME NamesAssumption ==
    /\ Parts \in [URLs -> [site : STRING, path : Seq(STRING), query : Seq(STRING)]]
    /\ Answer \in [Answers -> [status : Nat, length : Nat, crossRef : BOOLEAN,
                               expires : Int, maxAge : Nat]]
    /\ Source \in [URLs -> SUBSET Answers]

ASSUME TimesAssumption ==
    /\ DefaultTTL \in Nat
    /\ BumpTTL \in Nat
    /\ Half \in Nat \ {0}

----------------------------------------------------------------------------
(* Names.                                                                  *)

\* GetSafePathName.
SafeName(name) == IF name \in DOMAIN Stripped THEN Stripped[name] ELSE name

SafeNames(names) == [i \in DOMAIN names |-> SafeName(names[i])]

NameWithoutHash(u) ==   \* mutant: /a?b and /a/b share a file
    [site |-> SafeName(Parts[u].site),
     name |-> Parts[u].path \o SafeNames(Parts[u].query),
     hash |-> <<>>]

\* GenerateHTTPCachePath: the hash is that of the path, without the query.
CachePath(u) ==
    [site |-> SafeName(Parts[u].site),
     name |-> Parts[u].path \o SafeNames(Parts[u].query),
     hash |-> Parts[u].path]

CachePaths == {CachePath(u) : u \in URLs}

----------------------------------------------------------------------------
(* Lines.                                                                  *)

Keys == {"status", "expires", "meta", "crossRef", "length", "blank", "body"}

\* A line that belongs to a response says of which url and answer it is.
Line(key, num, of) == [key |-> key, num |-> num, of |-> of]

Plain(key, num) == Line(key, num, <<>>)

Blank == Plain("blank", 0)

\* Where the first line with one of these keys is, or 0.
Position(keys, lines) == SelectInSeq(lines, LAMBDA l : l.key \in keys)

\* The line with this key, which is there once at most, or none.
The(key, lines) ==
    LET k == Position({key}, lines) IN IF k = 0 THEN <<>> ELSE <<lines[k]>>

\* The wrap of time.Duration and of UnixNano.
Wrap(t) == ((t + Half) % (2 * Half)) - Half

ExpiresLine(t) == Plain("expires", Wrap(t))

LifetimeOrPast(a, now) ==   \* mutant: a date that has passed counts
    CASE Answer[a].expires # 0 -> Answer[a].expires - now
      [] Answer[a].expires = 0 /\ Answer[a].maxAge > 0 -> Answer[a].maxAge
      [] OTHER -> DefaultTTL

\* WriteHTTPCachingHeaders takes the first of the header Expires, max-age and the
\* default that lies in the future.
Lifetime(a, now) ==
    CASE Answer[a].expires > now -> Answer[a].expires - now
      [] Answer[a].expires <= now /\ Answer[a].maxAge > 0 -> Answer[a].maxAge
      [] OTHER -> DefaultTTL

ExpiresLines(a, now) ==
    IF Lifetime(a, now) > 0 THEN <<ExpiresLine(now + Lifetime(a, now))>> ELSE <<>>

\* Content-Type, or Location: answers of other kinds have no header.
MetaLines(u, a) ==
    IF Answer[a].status \in 200 .. 399 THEN <<Line("meta", 0, <<u, a>>)>> ELSE <<>>

CrossRefLines(a) ==
    IF Answer[a].crossRef THEN <<Plain("crossRef", 0)>> ELSE <<>>

BodyLines(u, a) == [n \in 1 .. Answer[a].length |-> Line("body", n, <<u, a>>)]

LengthLines(a) ==
    IF Answer[a].length > 0 THEN <<Plain("length", Answer[a].length)>> ELSE <<>>

\* WriteHTTP.  The headers of the response come in any order.
WrittenFiles(u, a, now) ==
    {<<Plain("status", Answer[a].status)>>
         \o ExpiresLines(a, now) \o headers \o LengthLines(a) \o <<Blank>> \o BodyLines(u, a)
     : headers \in {MetaLines(u, a) \o CrossRefLines(a), CrossRefLines(a) \o MetaLines(u, a)}}

PlaceholderStatus == Plain("status", 204)

PlaceholderFile(now) == <<PlaceholderStatus, ExpiresLine(now + BumpTTL), Blank>>

\* CheckCacheExists, of a file that can be opened.
IsCache(file) == file # <<>> /\ file[1] # PlaceholderStatus

NotBumped(file, now) == file   \* mutant: the line is not replaced

\* Where Bump stops reading: at the expires line, or without one at the blank.
Deadline(file) == Position({"expires", "blank"}, file)

HasDeadline(file) == Deadline(file) # 0 /\ file[Deadline(file)].key = "expires"

\* Bump: the line is replaced, all lines having one length; a file without it
\* becomes a placeholder.
Bumped(file, now) ==
    IF HasDeadline(file)
    THEN [file EXCEPT ![Deadline(file)] = ExpiresLine(now + BumpTTL)]
    ELSE PlaceholderFile(now)

----------------------------------------------------------------------------
(* Reading.                                                                *)

\* ServeHTTPGetStatusCode and ServeHTTPAddHeaders: what they note of the file up to
\* the line where they stop, and the error they stop with.
Scan(file, crossHost) ==
    LET stop == Position(IF crossHost THEN {"blank"} ELSE {"blank", "crossRef"}, file)
        header == SubSeq(file, 1, IF stop = 0 THEN Len(file) ELSE stop - 1)
        length == Position({"length"}, header)
        error == CASE file = <<>> -> "noStatusCode"
                   [] file # <<>> /\ stop = 0 -> "brokenHeader"
                   [] stop # 0 /\ file[stop].key = "crossRef" -> "crossHostRef"
                   [] OTHER -> "none"
    IN  [error |-> error,
         status |-> CASE error = "noStatusCode" -> 501
                      [] error = "brokenHeader" -> 500
                      [] error = "crossHostRef" -> 205
                      [] OTHER -> file[1].num,
         headers |-> The("meta", header),
         length |-> IF length = 0 THEN 0 ELSE header[length].num,
         expires |-> The("expires", header),
         body |-> IF error = "none" THEN SubSeq(file, stop + 1, Len(file)) ELSE <<>>]

=============================================================================
