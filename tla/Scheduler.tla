----------------------------- MODULE Scheduler -----------------------------
(***************************************************************************)
(* The scheduler of the actor runtime (Scheduler, WorkStealingQueue and    *)
(* worker_loop in runtime/src/actor.rs).  Each worker has an injector, into *)
(* which submit pushes, and a local deque; it takes work from its deque,   *)
(* its injector, the deques of its peers and their injectors, in this      *)
(* order, and otherwise sleeps on a condition variable for 1 ms.           *)
(*                                                                         *)
(* The deques are crossbeam_deque's: steal_batch_and_pop moves a batch of  *)
(* unspecified size and runs its first element, or loses a race (Retry).   *)
(* As the sleep is timed, the notification only shortens it.               *)
(***************************************************************************)
EXTENDS Naturals, Sequences, FiniteSets

CONSTANTS
    Tasks,       \* closures
    N,           \* worker_count
    NoTask,      \* what a worker runs when it runs nothing
    Endless,     \* closures that never return (an actor that is never stopped)
    Panics       \* closures that may panic

ASSUME SchedulerAssumption ==
    /\ N \in Nat \ {0}
    /\ NoTask \notin Tasks
    /\ Endless \subseteq Tasks /\ Panics \subseteq Tasks

Workers == 0..(N - 1)

\* Two queues for each worker.
Local(w)    == <<"local", w>>
Injector(w) == <<"injector", w>>
Queues      == {"local", "injector"} \X Workers

VARIABLES
    queue,      \* the contents of the deques and of the injectors
    next,       \* next_worker, modulo worker_count
    down,       \* the shutdown flag
    pc,         \* where each worker is in worker_loop
    peers,      \* peers it has still to try in the current loop
    resume,     \* where it goes on after the closure it runs
    runs,       \* the closure it runs
    submitted,  \* history: closures handed in
    extra       \* history: closures started after the shutdown flag was set

vars == <<queue, next, down, pc, peers, resume, runs, submitted, extra>>

Places == {"top", "local", "injector", "again", "stealLocal", "stealInjector",
           "park", "running", "ended", "dead"}

TypeOK ==
    /\ queue \in [Queues -> Seq(Tasks)]
    /\ next \in Workers
    /\ down \in {"no", "yes"}
    /\ pc \in [Workers -> Places]
    /\ peers \in [Workers -> SUBSET Workers]
    /\ resume \in [Workers -> {"top", "again"}]
    /\ runs \in [Workers -> Tasks \cup {NoTask}]
    /\ submitted \subseteq Tasks
    /\ extra \in [Workers -> Nat]

Init ==
    /\ queue = [q \in Queues |-> <<>>]
    /\ next = 0
    /\ down = "no"
    /\ pc = [w \in Workers |-> "top"]
    /\ peers = [w \in Workers |-> {}]
    /\ resume = [w \in Workers |-> "top"]
    /\ runs = [w \in Workers |-> NoTask]
    /\ submitted = {}
    /\ extra = [w \in Workers |-> 0]

\* Mutant of Submit: the index is not reduced modulo worker_count.
SubmitUnreduced(t) ==
    /\ t \notin submitted
    /\ submitted' = submitted \cup {t}
    /\ queue' = [queue EXCEPT ![Injector(next)] = Append(@, t)]
    /\ next' = next + 1
    /\ UNCHANGED <<down, pc, peers, resume, runs, extra>>

\* assign_worker and submit_pinned, as spawn_with_config calls them.
Submit(t) ==
    /\ t \notin submitted
    /\ submitted' = submitted \cup {t}
    /\ queue' = [queue EXCEPT ![Injector(next)] = Append(@, t)]
    /\ next' = (next + 1) % N
    /\ UNCHANGED <<down, pc, peers, resume, runs, extra>>

\* Scheduler::shutdown sets the flag and wakes everybody; it joins nobody.
Shutdown ==
    /\ down' = "yes"
    /\ UNCHANGED <<queue, next, pc, peers, resume, runs, submitted, extra>>

\* Worker w runs t and then goes on at r.
Run(w, t, r) ==
    /\ runs' = [runs EXCEPT ![w] = t]
    /\ pc' = [pc EXCEPT ![w] = "running"]
    /\ resume' = [resume EXCEPT ![w] = r]
    /\ extra' = [extra EXCEPT ![w] = IF down = "yes" THEN @ + 1 ELSE @]

Goto(w, p) ==
    /\ pc' = [pc EXCEPT ![w] = p]
    /\ UNCHANGED <<resume, runs, extra>>

\* Mutant of Look: the flag is read only before the wait.
LookAway(w) ==
    /\ pc[w] = "top"
    /\ Goto(w, "local")
    /\ UNCHANGED <<queue, next, down, peers, submitted>>

\* The head of the loop.
Look(w) ==
    /\ pc[w] = "top"
    /\ Goto(w, IF down = "yes" THEN "ended" ELSE "local")
    /\ UNCHANGED <<queue, next, down, peers, submitted>>

\* local.pop(), at the head of the loop and after the injector.
PopLocal(w) ==
    /\ pc[w] \in {"local", "again"}
    /\ queue[Local(w)] # <<>>
    /\ queue' = [queue EXCEPT ![Local(w)] = Tail(@)]
    /\ Run(w, Head(queue[Local(w)]), "top")
    /\ UNCHANGED <<next, down, peers, submitted>>

\* Mutant of PopNothing: a worker with nothing of its own goes to sleep.
PopNothingParks(w) ==
    /\ pc[w] \in {"local", "again"}
    /\ queue[Local(w)] = <<>>
    /\ Goto(w, IF pc[w] = "local" THEN "injector" ELSE "park")
    /\ UNCHANGED <<queue, next, down, peers, submitted>>

PopNothing(w) ==
    /\ pc[w] \in {"local", "again"}
    /\ queue[Local(w)] = <<>>
    /\ Goto(w, IF pc[w] = "local" THEN "injector"
               ELSE IF N > 1 THEN "stealLocal" ELSE "park")
    /\ peers' = [peers EXCEPT ![w] =
           IF pc[w] = "again" /\ N > 1 THEN Workers \ {w} ELSE {}]
    /\ UNCHANGED <<queue, next, down, submitted>>

\* Mutant of StealBatch: the element that is run stays in the batch.
StealBatchKeeps(w, q, k, r) ==
    /\ k \in 1..Len(queue[q])
    /\ queue' = [p \in Queues |->
           CASE p = q        -> SubSeq(queue[q], k + 1, Len(queue[q]))
             [] p = Local(w) -> queue[p] \o SubSeq(queue[q], 1, k)
             [] OTHER        -> queue[p]]
    /\ Run(w, Head(queue[q]), r)

\* steal_batch_and_pop: w takes the first k of queue q, runs the first of
\* them, then goes on at r, and keeps the rest in its deque.
StealBatch(w, q, k, r) ==
    /\ k \in 1..Len(queue[q])
    /\ queue' = [p \in Queues |->
           CASE p = q        -> SubSeq(queue[q], k + 1, Len(queue[q]))
             [] p = Local(w) -> queue[p] \o SubSeq(queue[q], 2, k)
             [] OTHER        -> queue[p]]
    /\ Run(w, Head(queue[q]), r)

TakeInjected(w, k) ==
    /\ pc[w] = "injector"
    /\ StealBatch(w, Injector(w), k, "again")
    /\ UNCHANGED <<next, down, peers, submitted>>

InjectorEmpty(w) ==
    /\ pc[w] = "injector"
    /\ queue[Injector(w)] = <<>>
    /\ Goto(w, "again")
    /\ UNCHANGED <<queue, next, down, peers, submitted>>

\* The queue of peer v that w tries in the loop it is in.
Victim(w, v) == IF pc[w] = "stealLocal" THEN Local(v) ELSE Injector(v)

Steal(w, v, k) ==
    /\ pc[w] \in {"stealLocal", "stealInjector"}
    /\ v \in peers[w]
    /\ StealBatch(w, Victim(w, v), k, "top")
    /\ peers' = [peers EXCEPT ![w] = {}]
    /\ UNCHANGED <<next, down, submitted>>

\* The peer's queue is empty, or another thief was faster (Retry).
Pass(w, v) ==
    /\ pc[w] \in {"stealLocal", "stealInjector"}
    /\ v \in peers[w]
    /\ \/ queue[Victim(w, v)] = <<>>
       \/ \E u \in Workers \ {w} : pc[u] \in {"injector", "stealLocal", "stealInjector"}
    /\ peers' = [peers EXCEPT ![w] = @ \ {v}]
    /\ UNCHANGED <<queue, next, down, pc, resume, runs, submitted, extra>>

\* All the peers were tried in this loop.
Tried(w) ==
    /\ pc[w] \in {"stealLocal", "stealInjector"}
    /\ peers[w] = {}
    /\ Goto(w, IF pc[w] = "stealLocal" THEN "stealInjector" ELSE "park")
    /\ peers' = [peers EXCEPT ![w] = IF pc[w] = "stealLocal" THEN Workers \ {w} ELSE {}]
    /\ UNCHANGED <<queue, next, down, submitted>>

\* The second look at the flag, and the end of the timed wait.
Wake(w) ==
    /\ pc[w] = "park"
    /\ Goto(w, IF down = "yes" THEN "ended" ELSE "top")
    /\ UNCHANGED <<queue, next, down, peers, submitted>>

Finish(w) ==
    /\ pc[w] = "running" /\ runs[w] \notin Endless
    /\ runs' = [runs EXCEPT ![w] = NoTask]
    /\ pc' = [pc EXCEPT ![w] = resume[w]]
    /\ resume' = [resume EXCEPT ![w] = "top"]
    /\ UNCHANGED <<queue, next, down, peers, submitted, extra>>

\* A panic unwinds through worker_loop; the deque stays with its stealers.
Panic(w) ==
    /\ pc[w] = "running" /\ runs[w] \in Panics
    /\ runs' = [runs EXCEPT ![w] = NoTask]
    /\ pc' = [pc EXCEPT ![w] = "dead"]
    /\ UNCHANGED <<queue, next, down, peers, resume, submitted, extra>>

Gain(w) ==
    \/ PopLocal(w)
    \/ \E k \in 1..Cardinality(Tasks) :
          TakeInjected(w, k) \/ \E v \in Workers : Steal(w, v, k)

Step(w) ==
    \/ Look(w) \/ PopNothing(w) \/ InjectorEmpty(w)
    \/ (\E v \in Workers : Pass(w, v)) \/ Tried(w) \/ Wake(w)
    \/ Finish(w)

Next ==
    \/ \E t \in Tasks : Submit(t)
    \/ Shutdown
    \/ \E w \in Workers : Gain(w) \/ Step(w) \/ Panic(w)

Spec == Init /\ [][Next]_vars

\* Worker threads run; a thief that can steal again and again does in the
\* end (the deques are lock-free, a Retry means that another one succeeded).
FairSpec ==
    /\ Spec
    /\ \A w \in Workers : WF_vars(Gain(w) \/ Step(w)) /\ SF_vars(Gain(w))

-----------------------------------------------------------------------------
\* The closures that are in some queue.
Queued == {t \in Tasks : \E q \in Queues : \E i \in 1..Len(queue[q]) : queue[q][i] = t}

\* The abstract pool: what waits is what is in the queues.
Pool == INSTANCE TaskPool WITH Pool <- Workers, waiting <- Queued

(***************************************************************************)
(* However work is stolen, each closure handed in is started once, by a    *)
(* worker that runs nothing: none is lost, none is run twice.              *)
(***************************************************************************)
ImplementsPool == Pool!Spec

(***************************************************************************)
(* After the shutdown flag is set a worker starts at most two closures (it *)
(* may be between the head of the loop and its injector, and finds one     *)
(* more in its deque or with a peer).                                      *)
(***************************************************************************)
TwoAfterShutdown == \A w \in Workers : extra[w] <= 2

(***************************************************************************)
(* A closure handed in is started, even if it was moved to the deque of a  *)
(* worker that never finishes, unless every worker is taken or shut down.  *)
(***************************************************************************)
EveryTaskStarts ==
    \A t \in Tasks :
        t \in Queued ~>
            \/ t \notin Queued
            \/ down = "yes"
            \/ \A w \in Workers : runs[w] \in Endless \/ pc[w] = "dead"

=============================================================================
