------------------------------ MODULE MCEngine ------------------------------
(* Instances of Engine for TLC.                                            *)
EXTENDS Engine, TLC

CONSTANTS w1, main, ticker, visitor, other

\* A page without links: the crawler follows links by itself (MCCrawler).
OnePage == {"page"}
NoLinks == [u \in OnePage |-> {}]

AllSeeds == {Root(u) : u \in OnePage} \cup {Refresh(u) : u \in OnePage}

Calls(some) == [f \in APINames |-> IF f \in DOMAIN some THEN some[f] ELSE 0]
BudgetEngine == Calls([Enqueue |-> 2, Download |-> 1, Stop |-> 2])

============================================================================
