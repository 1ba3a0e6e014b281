------------------------------ MODULE WorkPool ------------------------------
(***************************************************************************)
(* What the crawler promises, without its counters, callbacks and output   *)
(* channel: a pool of workers that opens once, hands each item it accepts  *)
(* to one worker in the order of acceptance, and once closed accepts       *)
(* nothing more, works off what it accepted and lets its workers go.       *)
(***************************************************************************)
EXTENDS Sequences

CONSTANTS
    Workers,  \* the workers the pool may have
    Items,    \* what may be offered to it
    NoItem    \* what a worker holds that works on nothing

VARIABLES
    state,    \* "new", "open", "closed", or "broken" after a panic
    backlog,  \* accepted items no worker has taken
    stage,    \* what each worker does
    hold      \* the item it works on

vars == <<state, backlog, stage, hold>>

Stages == {"absent", "idle", "working", "following", "gone"}

TypeOK ==
    /\ state \in {"new", "open", "closed", "broken"}
    /\ backlog \in Seq(Items)
    /\ stage \in [Workers -> Stages]
    /\ hold \in [Workers -> Items \cup {NoItem}]

Init ==
    /\ state = "new"
    /\ backlog = <<>>
    /\ stage = [w \in Workers |-> "absent"]
    /\ hold = [w \in Workers |-> NoItem]

Open(some) ==
    /\ state = "new"
    /\ some # {}
    /\ state' = "open"
    /\ stage' = [w \in Workers |-> IF w \in some THEN "idle" ELSE stage[w]]
    /\ UNCHANGED <<backlog, hold>>

Accept(i) ==
    /\ state = "open"
    /\ backlog' = Append(backlog, i)
    /\ UNCHANGED <<state, stage, hold>>

Close ==
    /\ state = "open"
    /\ state' = "closed"
    /\ UNCHANGED <<backlog, stage, hold>>

Break ==
    /\ state # "broken"
    /\ state' = "broken"
    /\ UNCHANGED <<backlog, stage, hold>>

\* A worker that is at its stage goes on, unless the pool is broken.
Step(w, from, to) ==
    /\ state # "broken"
    /\ stage[w] = from
    /\ stage' = [stage EXCEPT ![w] = to]
    /\ UNCHANGED state

Take(w) ==
    /\ Step(w, "idle", "working")
    /\ backlog # <<>>
    /\ backlog' = Tail(backlog)
    /\ hold' = [hold EXCEPT ![w] = Head(backlog)]

\* The item is downloaded or refused; its links are looked at next.
Complete(w) ==
    /\ Step(w, "working", "following")
    /\ hold' = [hold EXCEPT ![w] = NoItem]
    /\ UNCHANGED backlog

Return(w) ==
    /\ Step(w, "following", "idle")
    /\ UNCHANGED <<backlog, hold>>

Leave(w) ==
    /\ Step(w, "idle", "gone")
    /\ state = "closed"
    /\ backlog = <<>>
    /\ UNCHANGED <<backlog, hold>>

Work(w) == Take(w) \/ Complete(w) \/ Return(w) \/ Leave(w)

Next ==
    \/ \E some \in SUBSET Workers : Open(some)
    \/ \E i \in Items : Accept(i)
    \/ Close
    \/ Break
    \/ \E w \in Workers : Work(w)

Spec == Init /\ [][Next]_vars

\* A worker with something to do does it.
FairSpec == Spec /\ \A w \in Workers : WF_vars(Work(w))

=============================================================================
