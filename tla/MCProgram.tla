----------------------------- MODULE MCProgram -----------------------------
(* Instances of Program for TLC.                                           *)
EXTENDS Program, TLC

\* Two sites.  Below the second: a page with two queries that keep their difference
\* or lose it, and a page whose file would be that of a query.
SmallParts ==
    LET At(site, path, query) == [site |-> site, path |-> path, query |-> query]
    IN  [home  |-> At("a", <<>>, <<>>),
         plain |-> At("b", <<"p">>, <<"q">>),
         lossy |-> At("b", <<"p">>, <<"q!">>),
         deep  |-> At("b", <<"p", "q">>, <<>>),
         other |-> At("b", <<>>, <<>>)]
SmallURLs == DOMAIN SmallParts
SmallStripped == [x \in {"q!"} |-> "q"]

Reply200(length, crossRef, expires, maxAge) ==
    [status |-> 200, length |-> length, crossRef |-> crossRef, expires |-> expires,
     maxAge |-> maxAge]
OfStatus(status) == [Reply200(0, FALSE, 0, 0) EXCEPT !.status = status]

\* A page with a header Expires that passes and a max-age, one with references to
\* other hosts that lives longer than an int64 of nanoseconds, a redirect, an empty
\* answer, and none.
AllAnswers ==
    [page  |-> Reply200(2, FALSE, 2, 1),
     cross |-> Reply200(1, TRUE, 0, 10),
     moved |-> OfStatus(302),
     empty |-> OfStatus(204),
     down  |-> OfStatus(0)]
AnswerNames == DOMAIN AllAnswers
\* The first front page is there, in two forms, moved, or not; a page may become empty.
AllSources ==
    [home |-> {"page", "moved", "cross", "down"}, plain |-> {"page"}, lossy |-> {"page"},
     deep |-> {"moved", "empty"}, other |-> {"moved"}]
\* A source that breaks down.
FewSources == [u \in SmallURLs |-> {"cross", "down"}]

Mirrors(site) == Flag("mirror", 0, site)
OnPort(n) == Flag("mirror-port", n, "")
Everything(n) == Flag("port", n, "")

\* A listener for everything, one for a site.
Usual == <<Everything(2), Mirrors("a"), OnPort(1)>>

\* Others: a second site without its own listener; and wrong ones: a port that is
\* given out, one that another program has, a site twice, no workers, an unknown
\* flag.
AllLines ==
    {Usual,
     <<Mirrors("a"), OnPort(1), Mirrors("b")>>,
     <<Everything(1), Mirrors("a"), OnPort(1)>>,
     <<Everything(0), Mirrors("b"), Mirrors("a"), OnPort(9)>>,
     <<Mirrors("a"), OnPort(1), Mirrors("a"), OnPort(2)>>,
     <<Mirrors("a"), OnPort(1), Flag("workers", 0, "")>>,
     <<Mirrors("a"), Flag("unknown", 0, "")>>}
OneLine == {<<Mirrors("a"), OnPort(1)>>}

CONSTANTS r1, r2
Symmetry == Permutations({r1, r2})

NoFaults == [visit |-> 2, fault |-> 0]
OneFault == [visit |-> 2, fault |-> 1]

============================================================================
