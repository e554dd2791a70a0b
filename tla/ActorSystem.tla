---------------------------- MODULE ActorSystem ----------------------------
(***************************************************************************)
(* The actor runtime of Coral: runtime/src/actor.rs (ActorSystem and       *)
(* ActorContext) driven by the message loop of runtime/src/actor_ops.rs    *)
(* (coral_actor_spawn).                                                    *)
(*                                                                         *)
(* Threads are the program's own threads (Clients: the main thread, the    *)
(* timer worker, a remote connection) and one thread per running actor: an *)
(* actor occupies a worker of the pool from its start until its body       *)
(* returns.  The registry is a hash map behind one mutex, regLock; a       *)
(* critical section that cannot block is one step, and the two that can    *)
(* (a send to a full mailbox, the failure report) hold regLock across      *)
(* steps.  A call that needs the mutex is first made (Invoke, the thread   *)
(* is committed to it) and completes in a later step.                      *)
(*                                                                         *)
(* accepted, taken and delivered are history variables.                    *)
(***************************************************************************)
EXTENDS Naturals, Sequences, FiniteSets

CONSTANTS
    Actors,       \* actor ids, handed out once each (Scheduler::next_id)
    Clients,      \* threads that are not actors
    NoActor,      \* parent of an actor spawned outside any actor
    NoThread,     \* owner of a free mutex
    Capacity,     \* mailbox capacity (sync_channel bound)
    PoolSizes,    \* numbers of worker threads the scheduler may have, one
                  \* for each core of the machine
    ClientOps,    \* operations that Clients perform
    HandlerOps,   \* operations that actor handlers perform
    Panics,       \* whether a handler written in Rust may panic
    MaxOps        \* bound on the operations of one behaviour

ASSUME ConstantsAssumption ==
    /\ NoActor \notin Actors
    /\ NoThread \notin Actors \cup Clients
    /\ Actors \cap Clients = {}
    /\ Capacity \in Nat \ {0}
    /\ PoolSizes \subseteq Nat
    /\ Panics \in BOOLEAN
    /\ MaxOps \in Nat

Threads == Actors \cup Clients

Kinds == {"User", "Exit", "GracefulStop", "Failure", "ChildFailure", "ActorDown"}

\* A message: its kind and, for an ActorDown, the actor it is about.  Which
\* user message it is follows from its position in accepted.
Message == [kind : Kinds, who : Actors \cup {NoActor}]

Msg(k)       == [kind |-> k, who |-> NoActor]
ActorDown(a) == [kind |-> "ActorDown", who |-> a]

\* What a thread is inside of: nothing, or an operation on an actor.
NoCall == [op |-> "none", to |-> NoActor, msg |-> Msg("Exit")]
Call   == {NoCall} \cup [op : {"send", "try_send", "spawn"}, to : Actors,
                         msg : {Msg(k) : k \in Kinds \ {"ActorDown"}}]

VARIABLES
    registry,   \* ids with an entry in ActorSystem.registry
    regLock,    \* the thread that holds the registry mutex
    parent,     \* ActorContext.parent
    phase,      \* where the actor's task is
    draining,   \* the actor has entered drain_and_stop
    mailbox,    \* contents of the bounded channel
    monitors,   \* ActorSystem.monitors: watched -> watchers
    watchers,   \* the clone notify_monitors iterates over
    call,       \* the call a thread is inside of
    idle,       \* workers that run no task
    ops,        \* operations performed so far
    accepted,   \* history: all that was ever put in the mailbox
    taken,      \* history: how many of them the actor has received
    delivered   \* history: the positions of the user messages handled

vars == <<registry, regLock, parent, phase, draining, mailbox, monitors,
          watchers, call, idle, ops, accepted, taken, delivered>>

mons    == <<monitors, watchers>>
history == <<accepted, taken, delivered>>

(***************************************************************************)
(* Where the task of an actor can be:                                      *)
(*   unborn      no such id yet                                            *)
(*   spawning    id allocated, not registered yet                          *)
(*   queued      registered, its closure waits in the scheduler            *)
(*   recv        in ctx.recv()                                             *)
(*   handle      in the handler, called from recv or from the drain loop   *)
(*   failing, escalating   in the Failure / ChildFailure arm of the loop   *)
(*   drain       in the loop of drain_and_stop                             *)
(*   drained     before registry.remove of drain_and_stop                  *)
(*   leaving, tellingStop  in the notify_monitors of drain_and_stop        *)
(*   returned, telling     the body has returned and dropped the receiver; *)
(*                         in the notify_monitors of the spawn closure     *)
(*   remove, forget        before its two removals                         *)
(*   done        the closure has returned                                  *)
(*   crashed     the handler panicked and took the worker thread with it   *)
(***************************************************************************)
LivePhases     == {"recv", "handle", "failing", "escalating", "drain"}
StoppingPhases == {"drained", "leaving", "tellingStop"}
AfterPhases    == {"returned", "telling", "remove", "forget", "done", "crashed"}
Phases         == {"unborn", "spawning", "queued"} \cup LivePhases \cup StoppingPhases \cup AfterPhases

\* Mutant of HasRx: the receiver lives until the closure has cleaned up.
HasRxTooLong(a) == phase[a] \notin {"unborn", "spawning", "forget", "done", "crashed"}

\* The receiving half of the channel still exists: sends do not fail.
HasRx(a) == phase[a] \in {"queued"} \cup LivePhases \cup StoppingPhases

Room(a) == Len(mailbox[a]) < Capacity
Born    == {a \in Actors : phase[a] \notin {"unborn", "spawning"}}

TypeOK ==
    /\ registry \subseteq Actors
    /\ regLock \in Threads \cup {NoThread}
    /\ parent \in [Actors -> Actors \cup {NoActor}]
    /\ phase \in [Actors -> Phases]
    /\ draining \in [Actors -> BOOLEAN]
    /\ mailbox \in [Actors -> Seq(Message)]
    /\ monitors \in [Actors -> SUBSET Actors]
    /\ watchers \in [Actors -> SUBSET Actors]
    /\ call \in [Threads -> Call]
    /\ idle \in Nat
    /\ ops \in Nat
    /\ accepted \in [Actors -> Seq(Message)]
    /\ taken \in [Actors -> Nat]
    /\ delivered \in [Actors -> Seq(Nat)]

Init ==
    /\ registry = {}
    /\ regLock = NoThread
    /\ parent = [a \in Actors |-> NoActor]
    /\ phase = [a \in Actors |-> "unborn"]
    /\ draining = [a \in Actors |-> FALSE]
    /\ mailbox = [a \in Actors |-> <<>>]
    /\ monitors = [a \in Actors |-> {}]
    /\ watchers = [a \in Actors |-> {}]
    /\ call = [t \in Threads |-> NoCall]
    /\ idle \in PoolSizes
    /\ ops = 0
    /\ accepted = [a \in Actors |-> <<>>]
    /\ taken = [a \in Actors |-> 0]
    /\ delivered = [a \in Actors |-> <<>>]

(***************************************************************************)
(* Calls.  A client, or a handler on its actor's thread, makes one at a    *)
(* time; it may name any actor whose handle was ever handed out.           *)
(***************************************************************************)
May(t, op) ==
    /\ call[t] = NoCall
    /\ ops < MaxOps
    /\ \/ t \in Clients /\ op \in ClientOps
       \/ t \in Actors /\ phase[t] = "handle" /\ op \in HandlerOps

\* The message that a sending operation sends.
Kind(op) ==
    CASE op \in {"send", "try_send"} -> "User"
      [] op = "stop"                 -> "Exit"
      [] op = "graceful_stop"        -> "GracefulStop"
      [] op = "fail"                 -> "Failure"
      [] op = "child_fail"           -> "ChildFailure"

SendOps == {"send", "stop", "graceful_stop", "fail", "child_fail", "try_send"}

InvokeSend(t, op, a) ==
    /\ May(t, op)
    /\ a \in Born
    /\ call' = [call EXCEPT ![t] =
           [op |-> IF op = "try_send" THEN "try_send" ELSE "send",
            to |-> a, msg |-> Msg(Kind(op))]]
    /\ ops' = ops + 1
    /\ UNCHANGED <<registry, regLock, parent, phase, draining, mailbox, mons,
                   idle, history>>

\* spawn_with_config allocates the id, then registers the actor and submits
\* its closure; only then does its caller have a handle.
InvokeSpawn(t, a) ==
    /\ May(t, "spawn")
    /\ phase[a] = "unborn"
    /\ phase' = [phase EXCEPT ![a] = "spawning"]
    /\ call' = [call EXCEPT ![t] = [NoCall EXCEPT !.op = "spawn", !.to = a]]
    /\ ops' = ops + 1
    /\ UNCHANGED <<registry, regLock, parent, draining, mailbox, mons, idle,
                   history>>

\* Mutant of Spawn: the entry is inserted under the parent's id.
SpawnUnderParent(t) ==
    /\ call[t].op = "spawn"
    /\ regLock = NoThread
    /\ registry' = registry \cup {IF t \in Actors THEN t ELSE NoActor}
    /\ phase' = [phase EXCEPT ![call[t].to] = "queued"]
    /\ call' = [call EXCEPT ![t] = NoCall]
    /\ UNCHANGED <<regLock, parent, draining, mailbox, mons, idle, ops, history>>

Spawn(t) ==
    /\ call[t].op = "spawn"
    /\ regLock = NoThread
    /\ registry' = registry \cup {call[t].to}
    /\ parent' = [parent EXCEPT ![call[t].to] = IF t \in Actors THEN t ELSE NoActor]
    /\ phase' = [phase EXCEPT ![call[t].to] = "queued"]
    /\ call' = [call EXCEPT ![t] = NoCall]
    /\ UNCHANGED <<regLock, draining, mailbox, mons, idle, ops, history>>

\* Put m in the mailbox of a.
Put(a, m) ==
    /\ mailbox' = [mailbox EXCEPT ![a] = Append(@, m)]
    /\ accepted' = [accepted EXCEPT ![a] = Append(@, m)]

(***************************************************************************)
(* ActorSystem::send looks the target up and calls the blocking            *)
(* SyncSender::send inside the same critical section, so that a full       *)
(* mailbox keeps the registry locked until the target receives or goes.    *)
(***************************************************************************)
InSend(t) == call[t].op = "send" /\ regLock \in {NoThread, t}

\* Mutant of Found: a sender kept from an earlier lookup is used.
FoundCached(t) == call[t].to \in Born

\* The lookup found the target, now or (entry still borrowed) when t locked.
Found(t) == regLock = t \/ call[t].to \in registry

\* Mutant of SendFails: a sender waiting for room is not woken when the
\* receiver is dropped.
SendFailsUnwoken(t) ==
    /\ InSend(t)
    /\ ~Found(t)
    /\ regLock' = NoThread
    /\ call' = [call EXCEPT ![t] = NoCall]
    /\ UNCHANGED <<registry, parent, phase, draining, mailbox, mons, idle,
                   ops, history>>

SendFails(t) ==
    /\ InSend(t)
    /\ ~Found(t) \/ ~HasRx(call[t].to)
    /\ regLock' = NoThread
    /\ call' = [call EXCEPT ![t] = NoCall]
    /\ UNCHANGED <<registry, parent, phase, draining, mailbox, mons, idle,
                   ops, history>>

SendSucceeds(t) ==
    /\ InSend(t)
    /\ Found(t) /\ HasRx(call[t].to) /\ Room(call[t].to)
    /\ Put(call[t].to, call[t].msg)
    /\ regLock' = NoThread
    /\ call' = [call EXCEPT ![t] = NoCall]
    /\ UNCHANGED <<registry, parent, phase, draining, mons, idle, ops, taken,
                   delivered>>

SendBlocks(t) ==
    /\ InSend(t) /\ regLock = NoThread
    /\ Found(t) /\ HasRx(call[t].to) /\ ~Room(call[t].to)
    /\ regLock' = t
    /\ UNCHANGED <<registry, parent, phase, draining, mailbox, mons, call,
                   idle, ops, history>>

\* ActorSystem::try_send never waits for room.
TrySend(t) ==
    /\ call[t].op = "try_send" /\ regLock = NoThread
    /\ IF Found(t) /\ HasRx(call[t].to) /\ Room(call[t].to)
         THEN Put(call[t].to, call[t].msg)
         ELSE UNCHANGED <<mailbox, accepted>>
    /\ call' = [call EXCEPT ![t] = NoCall]
    /\ UNCHANGED <<registry, regLock, parent, phase, draining, mons, idle,
                   ops, taken, delivered>>

Monitor(t, w, a) ==
    /\ May(t, "monitor")
    /\ w \in Born /\ a \in Born
    /\ monitors' = [monitors EXCEPT ![a] = @ \cup {w}]
    /\ ops' = ops + 1
    /\ UNCHANGED <<registry, regLock, parent, phase, draining, mailbox,
                   watchers, call, idle, history>>

Demonitor(t, w, a) ==
    /\ May(t, "demonitor")
    /\ w \in Born /\ a \in Born
    /\ monitors' = [monitors EXCEPT ![a] = @ \ {w}]
    /\ ops' = ops + 1
    /\ UNCHANGED <<registry, regLock, parent, phase, draining, mailbox,
                   watchers, call, idle, history>>

(***************************************************************************)
(* The actor's task.                                                       *)
(***************************************************************************)

\* A free worker takes the closure; it keeps the worker until it is done.
Start(a) ==
    /\ phase[a] = "queued" /\ idle > 0
    /\ phase' = [phase EXCEPT ![a] = "recv"]
    /\ idle' = idle - 1
    /\ UNCHANGED <<registry, regLock, parent, draining, mailbox, mons, call,
                   ops, history>>

\* Take the first message, of one of the kinds ks, and go to phase ph.
Take(a, ks, ph) ==
    /\ mailbox[a] # <<>> /\ Head(mailbox[a]).kind \in ks
    /\ mailbox' = [mailbox EXCEPT ![a] = Tail(@)]
    /\ taken' = [taken EXCEPT ![a] = @ + 1]
    /\ phase' = [phase EXCEPT ![a] = ph]

\* The handler is invoked on the user message just taken.
Deliver(a) == delivered' = [delivered EXCEPT ![a] = Append(@, taken[a] + 1)]

\* The body of the actor returns: the receiver and all it holds are dropped.
Return(a) ==
    /\ mailbox' = [mailbox EXCEPT ![a] = <<>>]
    /\ phase' = [phase EXCEPT ![a] = "returned"]

RecvUser(a) ==
    /\ phase[a] = "recv"
    /\ Take(a, {"User"}, "handle")
    /\ Deliver(a)
    /\ UNCHANGED <<registry, regLock, parent, draining, mons, call, idle, ops,
                   accepted>>

RecvActorDown(a) ==
    /\ phase[a] = "recv"
    /\ Take(a, {"ActorDown"}, "handle")
    /\ UNCHANGED <<registry, regLock, parent, draining, mons, call, idle, ops,
                   accepted, delivered>>

RecvExit(a) ==
    /\ phase[a] = "recv"
    /\ mailbox[a] # <<>> /\ Head(mailbox[a]).kind = "Exit"
    /\ taken' = [taken EXCEPT ![a] = @ + 1]
    /\ Return(a)
    /\ UNCHANGED <<registry, regLock, parent, draining, mons, call, idle, ops,
                   accepted, delivered>>

\* A failure reaches the actor: without a parent it just stops.
RecvFailure(a) ==
    /\ phase[a] = "recv"
    /\ mailbox[a] # <<>> /\ Head(mailbox[a]).kind = "Failure"
    /\ IF parent[a] # NoActor
         THEN Take(a, {"Failure"}, "failing")
         ELSE taken' = [taken EXCEPT ![a] = @ + 1] /\ Return(a)
    /\ UNCHANGED <<registry, regLock, parent, draining, mons, call, idle, ops,
                   accepted, delivered>>

RecvChildFailure(a) ==
    /\ phase[a] = "recv"
    /\ Take(a, {"ChildFailure"}, IF parent[a] # NoActor THEN "escalating" ELSE "recv")
    /\ UNCHANGED <<registry, regLock, parent, draining, mons, call, idle, ops,
                   accepted, delivered>>

\* The two failure arms lock the registry and, when the parent is found in
\* it, call ActorSystem::send, which locks it again: the thread waits for
\* itself and the mutex is never released.
Report(a) ==
    /\ phase[a] \in {"failing", "escalating"}
    /\ regLock = NoThread
    /\ IF parent[a] \in registry
         THEN regLock' = a /\ UNCHANGED <<mailbox, phase>>
         ELSE /\ IF phase[a] = "failing"
                   THEN Return(a)
                   ELSE phase' = [phase EXCEPT ![a] = "recv"] /\ UNCHANGED mailbox
              /\ UNCHANGED regLock
    /\ UNCHANGED <<registry, parent, draining, mons, call, idle, ops,
                   history>>

RecvGracefulStop(a) ==
    /\ phase[a] = "recv"
    /\ Take(a, {"GracefulStop"}, "drain")
    /\ draining' = [draining EXCEPT ![a] = TRUE]
    /\ UNCHANGED <<registry, regLock, parent, mons, call, idle, ops, accepted,
                   delivered>>

HandlerReturns(a) ==
    /\ phase[a] = "handle" /\ call[a] = NoCall
    /\ phase' = [phase EXCEPT ![a] = IF draining[a] THEN "drain" ELSE "recv"]
    /\ UNCHANGED <<registry, regLock, parent, draining, mailbox, mons, call,
                   idle, ops, history>>

\* A Rust panic unwinds out of the task: the receiver is dropped, none of
\* the closure's clean-up runs and the worker thread ends.
HandlerPanics(a) ==
    /\ Panics
    /\ phase[a] = "handle" /\ call[a] = NoCall
    /\ phase' = [phase EXCEPT ![a] = "crashed"]
    /\ mailbox' = [mailbox EXCEPT ![a] = <<>>]
    /\ UNCHANGED <<registry, regLock, parent, draining, mons, call, idle, ops,
                   history>>

\* Mutant of DrainSkip: the catch-all arm comes first.
DrainSkipAll(a) ==
    /\ phase[a] = "drain"
    /\ Take(a, Kinds \ {"Exit"}, "drain")
    /\ UNCHANGED <<registry, regLock, parent, draining, mons, call, idle, ops,
                   accepted, delivered>>

\* drain_and_stop: user messages are handled, others skipped, Exit and an
\* empty mailbox end the loop.
DrainUser(a) ==
    /\ phase[a] = "drain"
    /\ Take(a, {"User"}, "handle")
    /\ Deliver(a)
    /\ UNCHANGED <<registry, regLock, parent, draining, mons, call, idle, ops,
                   accepted>>

DrainSkip(a) ==
    /\ phase[a] = "drain"
    /\ Take(a, {"GracefulStop", "Failure", "ChildFailure", "ActorDown"}, "drain")
    /\ UNCHANGED <<registry, regLock, parent, draining, mons, call, idle, ops,
                   accepted, delivered>>

DrainEnds(a) ==
    /\ phase[a] = "drain"
    /\ \/ Take(a, {"Exit"}, "drained")
       \/ /\ mailbox[a] = <<>>
          /\ phase' = [phase EXCEPT ![a] = "drained"] /\ UNCHANGED <<mailbox, taken>>
    /\ UNCHANGED <<registry, regLock, parent, draining, mons, call, idle, ops,
                   accepted, delivered>>

\* Mutant of Deregister: the entry is removed without the mutex.
DeregisterUnlocked(a) ==
    /\ phase[a] = "drained"
    /\ registry' = registry \ {a}
    /\ phase' = [phase EXCEPT ![a] = "leaving"]
    /\ UNCHANGED <<regLock, parent, draining, mailbox, mons, call, idle, ops,
                   history>>

Deregister(a) ==
    /\ phase[a] = "drained" /\ regLock = NoThread
    /\ registry' = registry \ {a}
    /\ phase' = [phase EXCEPT ![a] = "leaving"]
    /\ UNCHANGED <<regLock, parent, draining, mailbox, mons, call, idle, ops,
                   history>>

\* Mutant of CloneWatchers: an actor that is no longer registered does not
\* notify a second time.
CloneWatchersOnce(a) ==
    /\ phase[a] \in {"leaving", "returned"}
    /\ watchers' = [watchers EXCEPT ![a] = monitors[a]]
    /\ IF phase[a] = "leaving"
         THEN IF monitors[a] = {}
                THEN Return(a)
                ELSE phase' = [phase EXCEPT ![a] = "tellingStop"] /\ UNCHANGED mailbox
         ELSE /\ phase' = [phase EXCEPT ![a] =
                    IF a \notin registry \/ monitors[a] = {} THEN "remove" ELSE "telling"]
              /\ UNCHANGED mailbox
    /\ UNCHANGED <<registry, regLock, parent, draining, monitors, call, idle,
                   ops, history>>

\* notify_monitors, first half: clone the set of watchers.
CloneWatchers(a) ==
    /\ phase[a] \in {"leaving", "returned"}
    /\ watchers' = [watchers EXCEPT ![a] = monitors[a]]
    /\ IF phase[a] = "leaving"
         THEN IF monitors[a] = {}
                THEN Return(a)
                ELSE phase' = [phase EXCEPT ![a] = "tellingStop"] /\ UNCHANGED mailbox
         ELSE /\ phase' = [phase EXCEPT ![a] = IF monitors[a] = {} THEN "remove" ELSE "telling"]
              /\ UNCHANGED mailbox
    /\ UNCHANGED <<registry, regLock, parent, draining, monitors, call, idle,
                   ops, history>>

\* The watchers that take the ActorDown: registered, alive and not full.
Told(a) == {w \in watchers[a] : w \in registry /\ HasRx(w) /\ Room(w)}

\* Mutant of TellWatchers: drain_and_stop notifies again after it has notified.
TellWatchersAgain(a) ==
    /\ phase[a] \in {"tellingStop", "telling"}
    /\ regLock = NoThread
    /\ accepted' = [w \in Actors |->
           IF w \in Told(a) THEN Append(accepted[w], ActorDown(a)) ELSE accepted[w]]
    /\ mailbox' = [w \in Actors |->
           IF w \in Told(a) THEN Append(mailbox[w], ActorDown(a)) ELSE mailbox[w]]
    /\ phase' = [phase EXCEPT ![a] = IF @ = "tellingStop" THEN "leaving" ELSE "remove"]
    /\ watchers' = [watchers EXCEPT ![a] = {}]
    /\ UNCHANGED <<registry, regLock, parent, draining, monitors, call, idle,
                   ops, taken, delivered>>

\* notify_monitors, second half: try_send to each clone, results ignored.
TellWatchers(a) ==
    /\ phase[a] \in {"tellingStop", "telling"}
    /\ regLock = NoThread
    /\ accepted' = [w \in Actors |->
           IF w \in Told(a) THEN Append(accepted[w], ActorDown(a)) ELSE accepted[w]]
    /\ mailbox' = [w \in Actors |->
           IF w = a THEN <<>>
           ELSE IF w \in Told(a) THEN Append(mailbox[w], ActorDown(a)) ELSE mailbox[w]]
    /\ phase' = [phase EXCEPT ![a] = IF @ = "tellingStop" THEN "returned" ELSE "remove"]
    /\ watchers' = [watchers EXCEPT ![a] = {}]
    /\ UNCHANGED <<registry, regLock, parent, draining, monitors, call, idle,
                   ops, taken, delivered>>

\* Mutant of Remove: only drain_and_stop removes the entry.
RemoveNothing(a) ==
    /\ phase[a] = "remove"
    /\ phase' = [phase EXCEPT ![a] = "forget"]
    /\ UNCHANGED <<registry, regLock, parent, draining, mailbox, mons, call,
                   idle, ops, history>>

Remove(a) ==
    /\ phase[a] = "remove" /\ regLock = NoThread
    /\ registry' = registry \ {a}
    /\ phase' = [phase EXCEPT ![a] = "forget"]
    /\ UNCHANGED <<regLock, parent, draining, mailbox, mons, call, idle, ops,
                   history>>

\* Mutant of Forget: the worker thread ends with the actor it ran.
ForgetWorkerEnds(a) ==
    /\ phase[a] = "forget"
    /\ monitors' = [monitors EXCEPT ![a] = {}]
    /\ phase' = [phase EXCEPT ![a] = "done"]
    /\ UNCHANGED <<registry, regLock, parent, draining, mailbox, watchers,
                   call, idle, ops, history>>

\* monitors.remove, and the worker is free for the next task.
Forget(a) ==
    /\ phase[a] = "forget"
    /\ monitors' = [monitors EXCEPT ![a] = {}]
    /\ phase' = [phase EXCEPT ![a] = "done"]
    /\ idle' = idle + 1
    /\ UNCHANGED <<registry, regLock, parent, draining, mailbox, watchers,
                   call, ops, history>>

(***************************************************************************)
(* The specification.                                                      *)
(***************************************************************************)
Invocation(t) ==
    \/ \E op \in SendOps, a \in Actors : InvokeSend(t, op, a)
    \/ \E a \in Actors : InvokeSpawn(t, a)
    \/ \E w, a \in Actors : Monitor(t, w, a) \/ Demonitor(t, w, a)

Completion(t) ==
    \/ Spawn(t)
    \/ SendFails(t) \/ SendSucceeds(t) \/ SendBlocks(t)
    \/ TrySend(t)

TaskStep(a) ==
    \/ Start(a)
    \/ RecvUser(a) \/ RecvActorDown(a) \/ RecvExit(a)
    \/ RecvFailure(a) \/ RecvChildFailure(a) \/ Report(a)
    \/ RecvGracefulStop(a)
    \/ HandlerReturns(a)
    \/ DrainUser(a) \/ DrainSkip(a) \/ DrainEnds(a)
    \/ Deregister(a) \/ CloneWatchers(a) \/ TellWatchers(a)
    \/ Remove(a) \/ Forget(a)

Next ==
    \/ \E t \in Threads : Invocation(t) \/ Completion(t)
    \/ \E a \in Actors : TaskStep(a) \/ HandlerPanics(a)

Spec == Init /\ [][Next]_vars

\* A call that can complete does, a worker with work runs it, a handler
\* returns: nothing else is promised (a program need not make calls).
Fairness ==
    /\ \A t \in Threads : WF_vars(Completion(t))
    /\ \A a \in Actors : WF_vars(TaskStep(a))

FairSpec == Spec /\ Fairness

-----------------------------------------------------------------------------
(***************************************************************************)
(* Safety.                                                                 *)
(***************************************************************************)

\* Of the sequence acc that was accepted, n were received and box waits.
Waiting(acc, n, box) ==
    /\ Len(acc) = n + Len(box)
    /\ \A i \in 1..Len(box) : box[i] = acc[n + i]

\* The user messages among the first n of acc are at the positions done, in order.
Handled(acc, n, done) ==
    /\ n <= Len(acc)
    /\ \A i, j \in 1..Len(done) : i < j => done[i] < done[j]
    /\ \A i \in 1..Len(done) : done[i] \in 1..n /\ acc[done[i]].kind = "User"
    /\ \A k \in 1..n : acc[k].kind = "User" => \E i \in 1..Len(done) : done[i] = k

(***************************************************************************)
(* Every user message that send or try_send accepted is handled exactly    *)
(* once and in the order of acceptance, whatever the interleaving of       *)
(* senders, of the receive loop and of the drain loop; only what the actor *)
(* never received, because it stopped first, is not handled.               *)
(***************************************************************************)
ExactlyOnceInOrder ==
    \A a \in Actors :
        /\ HasRx(a) => Waiting(accepted[a], taken[a], mailbox[a])
        /\ Handled(accepted[a], taken[a], delivered[a])

(***************************************************************************)
(* The registry names exactly the actors that have a task to come or       *)
(* running: an entry is removed before a graceful stop is announced,       *)
(* after a plain return is announced, and never when a handler panicked.   *)
(***************************************************************************)
RegistryExact ==
    \A a \in Actors : a \in registry <=>
        \/ phase[a] \in {"queued", "drained", "crashed"} \cup LivePhases
        \/ phase[a] \in {"returned", "telling", "remove"} /\ ~draining[a]

(***************************************************************************)
(* A thread that holds the registry across steps is in send, or in the     *)
(* failure report, and the actor it waits for cannot leave the registry    *)
(* under its feet.                                                         *)
(***************************************************************************)
LockOwner ==
    regLock # NoThread =>
        \/ call[regLock].op = "send" /\ call[regLock].to \in registry
        \/ /\ regLock \in Actors
           /\ phase[regLock] \in {"failing", "escalating"}
           /\ parent[regLock] \in registry

\* How many times w was told that a is down.
TimesTold(w, a) ==
    Cardinality({i \in 1..Len(accepted[w]) : accepted[w][i] = ActorDown(a)})

(***************************************************************************)
(* A watcher hears of a death at most once from the spawn closure, and     *)
(* once more when the actor was stopped gracefully (drain_and_stop and the *)
(* closure both call notify_monitors).                                     *)
(***************************************************************************)
DownCount ==
    \A w, a \in Actors : TimesTold(w, a) <= IF draining[a] THEN 2 ELSE 1

\* Some watcher has been sent an ActorDown for a.
Announced(a) ==
    \E w \in Actors : \E i \in 1..Len(accepted[w]) : accepted[w][i] = ActorDown(a)

(***************************************************************************)
(* ActorDown is final: once anyone was told that a is down, a neither      *)
(* accepts nor handles another message and performs no further operation.  *)
(***************************************************************************)
DownIsFinal ==
    [][\A a \in Actors : Announced(a) =>
          /\ accepted'[a] = accepted[a]
          /\ delivered'[a] = delivered[a]
          /\ call'[a] = call[a]]_vars

(***************************************************************************)
(* Nothing is put into the mailbox of an actor that left the registry: a   *)
(* send that found the entry, and then waited for room, keeps the entry.   *)
(***************************************************************************)
NothingAfterDeregistration ==
    [][\A a \in Born \ registry : accepted'[a] = accepted[a]]_vars

(***************************************************************************)
(* Liveness, under FairSpec.                                               *)
(***************************************************************************)

\* t holds the registry and waits for room in the mailbox of b.
WaitsForRoom(t, b) ==
    regLock = t /\ call[t].op = "send" /\ call[t].to = b /\ HasRx(b) /\ ~Room(b)

\* b can do nothing before the registry is unlocked.
WaitsForRegistry(b) == call[b] # NoCall \/ phase[b] = "drained"

\* The registry is locked for ever: by a send to an actor that itself needs
\* the registry, or by an actor inside its failure report.
CircularWait ==
    \/ \E t \in Threads, b \in Actors : WaitsForRoom(t, b) /\ WaitsForRegistry(b)
    \/ \E a \in Actors : regLock = a /\ phase[a] \in {"failing", "escalating"}

\* The task of a has begun and a worker is still taken by it.
Occupies(a) == phase[a] \notin {"unborn", "spawning", "queued", "done", "crashed"}

\* There is no worker for a: other actors have them, for as long as they live.
WaitsForWorker(a) == phase[a] = "queued" /\ idle = 0 /\ \E b \in Actors : Occupies(b)

\* The registry is locked by a send to an actor that nothing will run.
Starved == \E t \in Threads, a \in Actors : WaitsForRoom(t, a) /\ WaitsForWorker(a)

(***************************************************************************)
(* Although send waits for room with the registry locked, every call       *)
(* returns: a receiver that goes away wakes the sender, a full mailbox is  *)
(* emptied, and an actor that waited for a worker is run when one is free. *)
(* The two ways in which it does not are threads that wait for each other  *)
(* in a circle, and a send to an actor whose turn never comes because      *)
(* every worker keeps the actor it has.                                    *)
(***************************************************************************)
CallsReturn ==
    \A t \in Threads : call[t] # NoCall ~> call[t] = NoCall \/ CircularWait \/ []Starved

(***************************************************************************)
(* An actor that accepted a stop request ends and gives its worker back,   *)
(* also when it was queued at the time: unless there is never a worker for *)
(* it (a worker runs its actor for the actor's whole life), or the         *)
(* registry it has to leave stays locked.                                  *)
(***************************************************************************)
StopIsObeyed ==
    \A a \in Actors :
        (\E i \in 1..Len(accepted[a]) : accepted[a][i].kind \in {"Exit", "GracefulStop"})
            ~> \/ phase[a] = "done" \/ CircularWait
               \/ []WaitsForWorker(a) \/ []Starved

(***************************************************************************)
(* A watcher registered when the body of a returns is told, unless its     *)
(* mailbox is full or it is itself gone by then, or the registry stays     *)
(* locked.                                                                 *)
(***************************************************************************)
WatcherLearns ==
    \A w, a \in Actors :
        phase[a] = "returned" /\ w \in monitors[a]
            ~> \/ TimesTold(w, a) > 0
               \/ ~HasRx(w) \/ w \notin registry \/ ~Room(w)
               \/ CircularWait \/ []Starved

-----------------------------------------------------------------------------
(***************************************************************************)
(* What the repository's documents and tests say of the actor system and   *)
(* the code does not do; each has a run that exhibits the counterexample.  *)
(***************************************************************************)

\* docs/CORAL_LANGUAGE_SHOWCASE.md:350, "No deadlocks - actors never block
\* waiting for each other".
ActorsNeverWaitForEachOther ==
    \A a, b \in Actors : a # b => ~(WaitsForRoom(a, b) /\ WaitsForRegistry(b))

\* docs/LANGUAGE_EVOLUTION_ROADMAP.md:296, of graceful stop: "Flush mailbox
\* before termination. Ensure in-flight messages are processed".  An actor
\* that drained its mailbox, and was not told to exit, handled all it accepted.
GracefulStopLosesNothing ==
    \A a \in Actors :
        /\ phase[a] = "done" /\ draining[a]
        /\ \A i \in 1..Len(accepted[a]) : accepted[a][i].kind # "Exit"
        => \A i \in 1..Len(accepted[a]) :
              accepted[a][i].kind = "User" => \E j \in 1..Len(delivered[a]) : delivered[a][j] = i

\* docs/ACTOR_SYSTEM_COMPLETION.md:18, "Failure propagation | Basic | Failure
\* message to parent".
FailureReachesParent ==
    \A a \in Actors, p \in Actors :
        phase[a] = "failing" /\ parent[a] = p
            ~> \/ \E i \in 1..Len(accepted[p]) : accepted[p][i].kind = "Failure"
               \/ ~HasRx(p)

=============================================================================
