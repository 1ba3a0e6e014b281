----------------------------- MODULE MCCrawler -----------------------------
(* Instances of Crawler for TLC.                                           *)
EXTENDS CrawlerPool, TLC

CONSTANTS w1, w2, c1, c2

\* A page with an asset and a link to a second page, which links back to it
\* and to another site.
SmallURLs == {"page", "asset", "next", "other"}
SmallAssets == [u \in SmallURLs |-> IF u = "page" THEN {"asset"} ELSE {}]
SmallPages == [u \in SmallURLs |->
                 CASE u = "page" -> {"next"}
                   [] u = "next" -> {"page", "other"}
                   [] OTHER -> {}]
SmallSite == SmallURLs \ {"other"}

Seed == [url |-> "page", depth |-> 0, force |-> FALSE]
OneSeed == {Seed}
Forced == [url |-> "asset", depth |-> 1, force |-> TRUE]
TwoSeeds == {Seed, Forced}

\* No API function is called unless the instance says so.
Calls(some) == [f \in APINames |-> IF f \in DOMAIN some THEN some[f] ELSE 0]

\* Two enqueues, racing with the first calls and with one Stop.
BudgetStop == Calls([Start |-> 1, SetWorkerCount |-> 1, Enqueue |-> 2, Stop |-> 1])
\* Two enqueues and a Stop, for liveness.
BudgetLive == Calls([Enqueue |-> 2, Stop |-> 1])
\* The output channel and a direct download, up to a second Stop.
BudgetOutput == Calls([Enqueue |-> 1, Download |-> 1, Downloaded |-> 1,
                       DownloadedNotBlocking |-> 1, SetOnDownloaded |-> 1,
                       Stop |-> 2])
\* A second Stop at once.
BudgetStopTwice == Calls([Start |-> 1, Stop |-> 2])

Symmetry == Permutations(Workers) \cup Permutations(Callers)

============================================================================
