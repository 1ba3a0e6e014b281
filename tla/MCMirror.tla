------------------------------ MODULE MCMirror ------------------------------
(* Instances of Mirror for TLC.                                            *)
EXTENDS Mirror, TLC

CONSTANTS w1, w2, h1, h2, old, new, error

\* Two versions of a page and an error page.
OneGood == {new, error}
TwoGood == {old, new, error}

\* Responses that fit into one write, and longer ones.
Short == [p \in Responses |-> 1]
Long == [p \in Responses |-> IF p = error THEN 1 ELSE 2]

\* All expire lines at one offset, and each at an offset of its own.
SameLayout == [p \in Responses |-> 1]
OwnLayout == [p \in Responses |-> p]

Times(some) ==
    [e \in EnvironmentNames |-> IF e \in DOMAIN some THEN some[e] ELSE 0]
BudgetServe == Times([bad |-> 1, restart |-> 1, disconnect |-> 1, enqueue |-> 1])
BudgetKeep == Times([bad |-> 1])

Symmetry == Permutations(Requests)

============================================================================
