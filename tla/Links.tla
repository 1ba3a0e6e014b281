------------------------------- MODULE Links -------------------------------
(***************************************************************************)
(* URLs and the references that stand for them in a page: ReduceURL of     *)
(* crawler/utils.go and Reduce of crawler/downloaded.go, which write       *)
(* references, and the resolution of references that a browser and         *)
(* net/url do.                                                             *)
(*                                                                         *)
(* A path is the sequence of what stands between its slashes: <<>> is no   *)
(* path at all, <<"">> is "/", <<"a", "">> is "/a/".  Only the last name   *)
(* may be empty.  Queries and fragments travel with the last name.         *)
(***************************************************************************)
EXTENDS Integers, Sequences

CONSTANTS
    Names,   \* what stands between the slashes of paths
    Sites,   \* records with a scheme and a host
    Cross    \* the site cross.localhost of the paths that name a host

ASSUME SitesAssumption ==
    /\ "" \in Names
    /\ Sites \subseteq [scheme : Names, host : Names]
    /\ Cross \notin Sites

URL(site, path) == [site |-> site, path |-> path]

URLSet == [site : Sites, path : Seq(Names)]

\* References: "../../x/y" has two ups and the names <<"x", "y">>.
Relative(ups, names) == [kind |-> "relative", ups |-> ups, names |-> names]
Rooted(path) == [kind |-> "rooted", path |-> path]
Absolute(url) == [kind |-> "absolute", url |-> url]
Foreign == [kind |-> "foreign"]   \* mailto: and the like
Invalid == [kind |-> "invalid"]   \* empty, or not a reference

References ==
    [kind : {"relative"}, ups : Nat, names : Seq(Names)]
        \cup [kind : {"rooted"}, path : Seq(Names)]
        \cup [kind : {"absolute"}, url : URLSet]
        \cup {Foreign, Invalid}

Meaningful(ref) == ref.kind \in {"relative", "rooted", "absolute"}

\* The url a reference means in the page at base.
Resolve(base, ref) ==
    CASE ref.kind = "absolute" -> ref.url
      [] ref.kind = "rooted" -> URL(base.site, ref.path)
      [] ref.kind = "relative" ->
            URL(base.site, SubSeq(base.path, 1, Len(base.path) - 1 - ref.ups) \o ref.names)

----------------------------------------------------------------------------
(* Writing references.                                                     *)

\* strings.Split(path, "/").
Parts(path) == <<"">> \o path

PrefixesOf(x, y) ==
    {n \in 0 .. Len(x) - 1 : n < Len(y) /\ \A i \in 1 .. n : x[i] = y[i]}

\* How many parts the directory of LongestCommonPrefix has.
CommonParts(x, y) ==
    CHOOSE n \in PrefixesOf(x, y) : \A m \in PrefixesOf(x, y) : m <= n

OneUpLess(x, y) == Len(x) - CommonParts(x, y) - 2   \* mutant: the loop starts at 2

\* The loop over basePathParts.
Ups(x, y) == Len(x) - CommonParts(x, y) - 1

\* ReduceURL, for two urls of one site.  Without a path there is no common
\* directory, not even the root, and path.Join and TrimLeft drop the empty part.  Only
\* the last name of a path is ever empty here: of a//b path.Join would leave a/b.
ReducePath(base, path) ==
    LET common == CommonParts(Parts(base), Parts(path)) IN
    Relative(Ups(Parts(base), Parts(path)),
             CASE path = <<>> -> <<"">>
               [] path # <<>> /\ common = 0 -> path
               [] path # <<>> /\ common > 0 -> SubSeq(path, common, Len(path)))

ReduceURL(base, url) ==
    IF base.site = url.site THEN ReducePath(base.path, url.path) ELSE Absolute(url)

\* The path that names scheme and host, of the server for every host.
CrossHostOf(url) == URL(Cross, <<url.site.scheme, url.site.host>> \o url.path)

NeedsCrossHost(page, noCrossHost, url) == ~noCrossHost /\ page.site # url.site

Reduce(page, noCrossHost, url) ==
    IF NeedsCrossHost(page, noCrossHost, url)
    THEN ReduceURL(CrossHostOf(page), CrossHostOf(url))
    ELSE ReduceURL(page, url)

----------------------------------------------------------------------------
(* Where the mirror shows a url.                                           *)

Layouts == {"single", "cross"}

\* The root of a host and no path are one.
Home(url) == IF url.path = <<>> THEN URL(url.site, <<"">>) ELSE url

\* A listener for one host shows its pages at their own paths.
Location(layout, url) ==
    IF layout = "single" THEN Home(url) ELSE CrossHostOf(Home(url))

\* A request for /https/host is redirected to /https/host/.
Redirected(url) ==
    IF url.site = Cross /\ Len(url.path) = 2 THEN URL(Cross, Append(url.path, "")) ELSE Home(url)

============================================================================
