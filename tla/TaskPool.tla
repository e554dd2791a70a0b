----------------------------- MODULE TaskPool -----------------------------
(***************************************************************************)
(* What the scheduler of the actor runtime promises: a closure handed to   *)
(* it waits until some worker that runs nothing takes it, runs on that     *)
(* worker until it returns, and runs once.  ActorSystem relies on no more  *)
(* (its Start, its idle).                                                  *)
(***************************************************************************)
CONSTANTS
    Tasks,     \* closures, each submitted at most once
    Pool,      \* worker threads
    NoTask     \* what a worker runs when it runs nothing

VARIABLES
    submitted, \* the closures handed in
    waiting,   \* those not started yet
    runs       \* what each worker runs

pool == <<submitted, waiting, runs>>

Init ==
    /\ submitted = {}
    /\ waiting = {}
    /\ runs = [w \in Pool |-> NoTask]

Submit(t) ==
    /\ t \notin submitted
    /\ submitted' = submitted \cup {t}
    /\ waiting' = waiting \cup {t}
    /\ UNCHANGED runs

Start(w, t) ==
    /\ runs[w] = NoTask /\ t \in waiting
    /\ waiting' = waiting \ {t}
    /\ runs' = [runs EXCEPT ![w] = t]
    /\ UNCHANGED submitted

Finish(w) ==
    /\ runs[w] # NoTask
    /\ runs' = [runs EXCEPT ![w] = NoTask]
    /\ UNCHANGED <<submitted, waiting>>

Next ==
    \/ \E t \in Tasks : Submit(t)
    \/ \E w \in Pool, t \in Tasks : Start(w, t)
    \/ \E w \in Pool : Finish(w)

Spec == Init /\ [][Next]_pool

=============================================================================
