------------------------- MODULE ActorSystemProofs -------------------------
(***************************************************************************)
(* Proofs about ActorSystem, for any set of actors and threads, any        *)
(* capacity, any number of workers and any repertoire of operations.       *)
(***************************************************************************)
EXTENDS ActorSystem, FiniteSetTheorems, TLAPS

(***************************************************************************)
(* Type correctness: every variable of the actor system keeps its type     *)
(* through every call, receive, drain and clean-up step.                   *)
(***************************************************************************)
LEMMA TypeInit == Init => TypeOK
<1> SUFFICES ASSUME Init PROVE TypeOK
  OBVIOUS
<1>1. NoCall \in Call
  BY DEF Call
<1> QED
  BY <1>1, ConstantsAssumption DEF Init, TypeOK, Phases

\* A call other than NoCall names an actor and carries no ActorDown.
LEMMA CallTyped ==
    ASSUME TypeOK, NEW t \in Threads, call[t].op # "none"
    PROVE  call[t].to \in Actors /\ call[t].msg \in Message /\ call[t].msg.kind # "ActorDown"
BY DEF TypeOK, Call, NoCall, Msg, Message

\* Putting a message in a mailbox keeps the mailbox and the history typed.
LEMMA PutType ==
    ASSUME TypeOK, NEW a \in Actors, NEW m \in Message, Put(a, m)
    PROVE  mailbox' \in [Actors -> Seq(Message)] /\ accepted' \in [Actors -> Seq(Message)]
<1>1. Append(mailbox[a], m) \in Seq(Message) /\ Append(accepted[a], m) \in Seq(Message)
  BY DEF TypeOK
<1> QED
  BY <1>1 DEF Put, TypeOK

\* So does taking the first message, and dropping the receiver.
LEMMA TakeType ==
    ASSUME TypeOK, NEW a \in Actors, NEW ks, NEW ph \in Phases, Take(a, ks, ph)
    PROVE  /\ mailbox' \in [Actors -> Seq(Message)]
           /\ taken' \in [Actors -> Nat]
           /\ phase' \in [Actors -> Phases]
<1>1. mailbox[a] \in Seq(Message) /\ mailbox[a] # <<>> /\ taken[a] \in Nat
  BY DEF TypeOK, Take
<1>2. Tail(mailbox[a]) \in Seq(Message) /\ taken[a] + 1 \in Nat
  BY <1>1
<1> QED
  BY <1>2 DEF TypeOK, Take

\* Dropping the receiver keeps the mailbox typed.
LEMMA ReturnType ==
    ASSUME TypeOK, NEW a \in Actors, Return(a)
    PROVE  mailbox' \in [Actors -> Seq(Message)] /\ phase' \in [Actors -> Phases]
<1>1. <<>> \in Seq(Message) /\ "returned" \in Phases
  BY DEF Phases, AfterPhases
<1> QED
  BY <1>1 DEF TypeOK, Return

\* Every step of a caller and of a task keeps TypeOK.
LEMMA TypeStep == TypeOK /\ [Next]_vars => TypeOK'
<1> SUFFICES ASSUME TypeOK, [Next]_vars PROVE TypeOK'
  OBVIOUS
<1> USE DEF TypeOK, mons, history
<1>a. NoCall \in Call
  BY DEF Call
<1>b. ASSUME NEW t \in Threads, call[t].op # "none"
      PROVE  call[t].to \in Actors /\ call[t].msg \in Message
  BY <1>b, CallTyped
<1>c. ASSUME NEW t \in Threads, call' = [call EXCEPT ![t] = NoCall]
      PROVE  call' \in [Threads -> Call]
  BY <1>a, <1>c
<1>1. ASSUME NEW t \in Threads, NEW op \in SendOps, NEW a \in Actors, InvokeSend(t, op, a)
      PROVE  TypeOK'
  <2>1. Kind(op) \in Kinds \ {"ActorDown"}
    BY DEF Kind, Kinds, SendOps
  <2>2. [op |-> IF op = "try_send" THEN "try_send" ELSE "send", to |-> a, msg |-> Msg(Kind(op))] \in Call
    BY <2>1 DEF Call
  <2> QED
    BY <1>1, <2>2 DEF InvokeSend
<1>2. ASSUME NEW t \in Threads, NEW a \in Actors, InvokeSpawn(t, a)
      PROVE  TypeOK'
  <2>1. [NoCall EXCEPT !.op = "spawn", !.to = a] \in Call
    BY DEF NoCall, Call, Kinds
  <2> QED
    BY <1>2, <2>1 DEF InvokeSpawn, Phases
<1>3. ASSUME NEW t \in Threads, NEW w \in Actors, NEW a \in Actors, Monitor(t, w, a)
      PROVE  TypeOK'
  BY <1>3 DEF Monitor
<1>4. ASSUME NEW t \in Threads, NEW w \in Actors, NEW a \in Actors, Demonitor(t, w, a)
      PROVE  TypeOK'
  BY <1>4 DEF Demonitor
<1>5. ASSUME NEW t \in Threads, Spawn(t)
      PROVE  TypeOK'
  BY <1>5, <1>b, <1>c DEF Spawn, Phases
<1>6. ASSUME NEW t \in Threads, SendFails(t)
      PROVE  TypeOK'
  BY <1>6, <1>c DEF SendFails
<1>7. ASSUME NEW t \in Threads, SendSucceeds(t)
      PROVE  TypeOK'
  <2>1. call[t].to \in Actors /\ call[t].msg \in Message
    BY <1>7, <1>b DEF SendSucceeds, InSend
  <2>2. mailbox' \in [Actors -> Seq(Message)] /\ accepted' \in [Actors -> Seq(Message)]
    BY <1>7, <2>1, PutType DEF SendSucceeds
  <2> QED
    BY <1>7, <2>2, <1>c DEF SendSucceeds
<1>8. ASSUME NEW t \in Threads, SendBlocks(t)
      PROVE  TypeOK'
  BY <1>8 DEF SendBlocks
<1>9. ASSUME NEW t \in Threads, TrySend(t)
      PROVE  TypeOK'
  <2>1. call[t].to \in Actors /\ call[t].msg \in Message
    BY <1>9, <1>b DEF TrySend
  <2>2. mailbox' \in [Actors -> Seq(Message)] /\ accepted' \in [Actors -> Seq(Message)]
    BY <1>9, <2>1, PutType DEF TrySend
  <2> QED
    BY <1>9, <2>2, <1>c DEF TrySend
<1>10. ASSUME NEW a \in Actors, Start(a)
       PROVE  TypeOK'
  BY <1>10 DEF Start, Phases, LivePhases
<1>p. {"recv", "handle", "failing", "escalating", "drain", "drained", "tellingStop", "telling", "remove"}
        \subseteq Phases
  BY DEF Phases, LivePhases, StoppingPhases, AfterPhases
<1>11. ASSUME NEW a \in Actors, RecvUser(a) \/ DrainUser(a)
       PROVE  TypeOK'
  <2>1. Take(a, {"User"}, "handle") /\ Deliver(a)
    BY <1>11 DEF RecvUser, DrainUser
  <2>2. taken[a] + 1 \in Nat /\ delivered[a] \in Seq(Nat)
    OBVIOUS
  <2>3. delivered' \in [Actors -> Seq(Nat)]
    BY <2>1, <2>2 DEF Deliver
  <2> QED
    BY <1>11, <1>p, <2>1, <2>3, TakeType DEF RecvUser, DrainUser
<1>12. ASSUME NEW a \in Actors, RecvActorDown(a) \/ RecvChildFailure(a)
       PROVE  TypeOK'
  <2>1. \E ks : \E ph \in Phases : Take(a, ks, ph)
    BY <1>12, <1>p DEF RecvActorDown, RecvChildFailure
  <2> QED
    BY <1>12, <2>1, TakeType DEF RecvActorDown, RecvChildFailure
<1>13. ASSUME NEW a \in Actors, RecvExit(a) \/ RecvFailure(a)
       PROVE  TypeOK'
  <2>1. CASE Return(a) /\ taken' = [taken EXCEPT ![a] = @ + 1]
    BY <1>13, <2>1, ReturnType, SMTT(30) DEF RecvExit, RecvFailure
  <2>2. CASE Take(a, {"Failure"}, "failing")
    BY <1>13, <1>p, <2>2, TakeType DEF RecvExit, RecvFailure
  <2> QED
    BY <1>13, <2>1, <2>2 DEF RecvExit, RecvFailure
<1>14. ASSUME NEW a \in Actors, Report(a)
       PROVE  TypeOK'
  <2>1. CASE Return(a)
    BY <1>14, <2>1, ReturnType DEF Report, Threads
  <2>2. CASE UNCHANGED mailbox /\ \E ph \in Phases : phase' = [phase EXCEPT ![a] = ph]
    BY <1>14, <2>2 DEF Report, Threads
  <2>3. CASE UNCHANGED <<mailbox, phase>>
    BY <1>14, <2>3 DEF Report, Threads
  <2> QED
    BY <1>14, <1>p, <2>1, <2>2, <2>3 DEF Report
<1>15. ASSUME NEW a \in Actors, RecvGracefulStop(a)
       PROVE  TypeOK'
  BY <1>15, <1>p, TakeType DEF RecvGracefulStop
<1>16. ASSUME NEW a \in Actors, HandlerReturns(a)
       PROVE  TypeOK'
  BY <1>16 DEF HandlerReturns, Phases, LivePhases
<1>17. ASSUME NEW a \in Actors, HandlerPanics(a)
       PROVE  TypeOK'
  BY <1>17 DEF HandlerPanics, Phases, AfterPhases
<1>18. ASSUME NEW a \in Actors, DrainSkip(a) \/ DrainEnds(a)
       PROVE  TypeOK'
  <2>1. CASE \E ks : \E ph \in Phases : Take(a, ks, ph)
    BY <1>18, <2>1, TakeType DEF DrainSkip, DrainEnds
  <2>2. CASE phase' = [phase EXCEPT ![a] = "drained"] /\ UNCHANGED <<mailbox, taken>>
    BY <1>18, <1>p, <2>2 DEF DrainSkip, DrainEnds
  <2> QED
    BY <1>18, <1>p, <2>1, <2>2 DEF DrainSkip, DrainEnds
<1>19. ASSUME NEW a \in Actors, Deregister(a) \/ Remove(a)
       PROVE  TypeOK'
  BY <1>19 DEF Deregister, Remove, Phases, StoppingPhases, AfterPhases
<1>20. ASSUME NEW a \in Actors, CloneWatchers(a)
       PROVE  TypeOK'
  <2>1. CASE Return(a)
    BY <1>20, <2>1, ReturnType DEF CloneWatchers
  <2>2. CASE UNCHANGED mailbox /\ \E ph \in Phases : phase' = [phase EXCEPT ![a] = ph]
    BY <1>20, <2>2 DEF CloneWatchers
  <2> QED
    BY <1>20, <1>p, <2>1, <2>2 DEF CloneWatchers
<1>21. ASSUME NEW a \in Actors, TellWatchers(a)
       PROVE  TypeOK'
  <2>1. ActorDown(a) \in Message
    BY DEF ActorDown, Message, Kinds
  <2> QED
    BY <1>21, <2>1 DEF TellWatchers, Phases, AfterPhases
<1>22. ASSUME NEW a \in Actors, Forget(a)
       PROVE  TypeOK'
  BY <1>22 DEF Forget, Phases, AfterPhases
<1>23. CASE UNCHANGED vars
  BY <1>23 DEF vars
<1> QED
  BY <1>1, <1>2, <1>3, <1>4, <1>5, <1>6, <1>7, <1>8, <1>9, <1>10, <1>11, <1>12,
     <1>13, <1>14, <1>15, <1>16, <1>17, <1>18, <1>19, <1>20, <1>21, <1>22, <1>23
     DEF Next, Invocation, Completion, TaskStep

\* TypeOK is an invariant of the actor system, for any number of actors,
\* clients and workers and any mailbox capacity.
THEOREM TypeCorrect == Spec => []TypeOK
BY TypeInit, TypeStep, PTL DEF Spec

(***************************************************************************)
(* The control part of the inductive invariant: who may be inside a call,  *)
(* which phases a graceful stop goes through, and the two invariants of    *)
(* the registry themselves.                                                *)
(***************************************************************************)
CallInv ==
    /\ \A a \in Actors : call[a] # NoCall => phase[a] = "handle"
    /\ \A t \in Threads : call[t].op = "spawn" => phase[call[t].to] = "spawning"
    /\ \A t, u \in Threads :
          call[t].op = "spawn" /\ call[u].op = "spawn" /\ call[t].to = call[u].to => t = u

DrainInv ==
    \A a \in Actors :
        /\ draining[a] =>
              phase[a] \notin {"unborn", "spawning", "queued", "recv", "failing", "escalating"}
        /\ phase[a] \in {"drain"} \cup StoppingPhases => draining[a]

ControlInv == CallInv /\ DrainInv /\ RegistryExact /\ LockOwner

\* ControlInv holds at first.
LEMMA ControlInit == Init => ControlInv
BY ConstantsAssumption DEF Init, ControlInv, CallInv, DrainInv, RegistryExact, LockOwner,
   NoCall, LivePhases, StoppingPhases, AfterPhases, Threads

\* A task that is inside no call and does not hold the registry moves on to
\* phase ph ...
Moves(a, ph) ==
    phase' = [phase EXCEPT ![a] = ph] /\ UNCHANGED <<registry, regLock, parent, draining, call>>

\* ... and may, the registry being already as RegistryExact wants it.
CanMove(a, ph) ==
    /\ call[a] = NoCall
    /\ phase[a] \notin {"failing", "escalating"} \/ regLock = NoThread
    /\ phase[a] \notin {"unborn", "spawning"} /\ ph \notin {"unborn", "spawning"}
    /\ draining[a] => ph \notin {"queued", "recv", "failing", "escalating"}
    /\ ph \in {"drain"} \cup StoppingPhases => draining[a]
    /\ a \in registry <=>
          \/ ph \in {"queued", "drained", "crashed"} \cup LivePhases
          \/ ph \in {"returned", "telling", "remove"} /\ ~draining[a]

\* Such a move keeps ControlInv.
LEMMA PhaseMove ==
    ASSUME TypeOK, ControlInv, NEW a \in Actors, NEW ph, Moves(a, ph), CanMove(a, ph)
    PROVE  ControlInv'
<1> USE DEF Moves, CanMove
<1>0. \A t \in Threads : call[t].op = "spawn" => call[t].to \in Actors /\ call[t].to # a
  <2>1. \A t \in Threads : call[t].op = "spawn" => call[t].to \in Actors
    BY CallTyped
  <2> QED
    BY <2>1 DEF ControlInv, CallInv
<1>1. CallInv'
  <2>1. \A b \in Actors : call'[b] # NoCall => phase'[b] = "handle"
    BY DEF ControlInv, CallInv, TypeOK
  <2>2. \A t \in Threads : call'[t].op = "spawn" => phase'[call'[t].to] = "spawning"
    BY <1>0 DEF ControlInv, CallInv, TypeOK
  <2> QED
    BY <2>1, <2>2 DEF ControlInv, CallInv
<1>2. DrainInv'
  BY DEF ControlInv, DrainInv, TypeOK
<1>3. RegistryExact'
  BY DEF ControlInv, RegistryExact, TypeOK
<1>4. LockOwner'
  BY DEF ControlInv, LockOwner, NoCall, TypeOK
<1> QED
  BY <1>1, <1>2, <1>3, <1>4 DEF ControlInv

\* Every step keeps ControlInv.
LEMMA ControlStep == TypeOK /\ ControlInv /\ [Next]_vars => ControlInv'
<1> SUFFICES ASSUME TypeOK, ControlInv, [Next]_vars PROVE ControlInv'
  OBVIOUS
<1>f. ASSUME NEW a \in Actors
      PROVE  /\ phase[a] # "handle" => call[a] = NoCall
             /\ draining[a] => phase[a] \notin {"queued", "recv", "failing", "escalating"}
             /\ phase[a] \in {"drain"} \cup StoppingPhases => draining[a]
             /\ a \in registry <=>
                   \/ phase[a] \in {"queued", "drained", "crashed"} \cup LivePhases
                   \/ phase[a] \in {"returned", "telling", "remove"} /\ ~draining[a]
  BY DEF ControlInv, CallInv, DrainInv, RegistryExact
<1>1. ASSUME NEW a \in Actors, Start(a)
      PROVE  ControlInv'
  <2> DEFINE ph == "recv"
  <2>1. Moves(a, ph)
    BY <1>1 DEF Moves, mons, history, Start
  <2>2. CanMove(a, ph)
    BY <1>1, <1>f DEF CanMove, LivePhases, StoppingPhases, Start
  <2> HIDE DEF ph
  <2> QED
    BY <2>1, <2>2, PhaseMove
<1>2. ASSUME NEW a \in Actors, RecvUser(a) \/ RecvActorDown(a) \/ DrainUser(a)
      PROVE  ControlInv'
  <2> DEFINE ph == "handle"
  <2>1. Moves(a, ph)
    BY <1>2 DEF Moves, mons, history, RecvUser, RecvActorDown, DrainUser, Take
  <2>2. CanMove(a, ph)
    BY <1>2, <1>f DEF CanMove, LivePhases, StoppingPhases, RecvUser, RecvActorDown, DrainUser, Take
  <2> HIDE DEF ph
  <2> QED
    BY <2>1, <2>2, PhaseMove
<1>3. ASSUME NEW a \in Actors, RecvExit(a)
      PROVE  ControlInv'
  <2> DEFINE ph == "returned"
  <2>1. Moves(a, ph)
    BY <1>3 DEF Moves, mons, history, RecvExit, Return
  <2>2. CanMove(a, ph)
    BY <1>3, <1>f DEF CanMove, LivePhases, StoppingPhases, RecvExit, Return
  <2> HIDE DEF ph
  <2> QED
    BY <2>1, <2>2, PhaseMove
<1>4. ASSUME NEW a \in Actors, RecvFailure(a)
      PROVE  ControlInv'
  <2> DEFINE ph == IF parent[a] # NoActor THEN "failing" ELSE "returned"
  <2>1. Moves(a, ph)
    BY <1>4 DEF Moves, mons, history, RecvFailure, Take, Return
  <2>2. CanMove(a, ph)
    BY <1>4, <1>f DEF CanMove, LivePhases, StoppingPhases, RecvFailure, Take, Return
  <2> HIDE DEF ph
  <2> QED
    BY <2>1, <2>2, PhaseMove
<1>5. ASSUME NEW a \in Actors, RecvChildFailure(a)
      PROVE  ControlInv'
  <2> DEFINE ph == IF parent[a] # NoActor THEN "escalating" ELSE "recv"
  <2>1. Moves(a, ph)
    BY <1>5 DEF Moves, mons, history, RecvChildFailure, Take
  <2>2. CanMove(a, ph)
    BY <1>5, <1>f DEF CanMove, LivePhases, StoppingPhases, RecvChildFailure, Take
  <2> HIDE DEF ph
  <2> QED
    BY <2>1, <2>2, PhaseMove
<1>6. ASSUME NEW a \in Actors, HandlerReturns(a)
      PROVE  ControlInv'
  <2> DEFINE ph == IF draining[a] THEN "drain" ELSE "recv"
  <2>1. Moves(a, ph)
    BY <1>6 DEF Moves, mons, history, HandlerReturns
  <2>2. CanMove(a, ph)
    BY <1>6, <1>f DEF CanMove, LivePhases, StoppingPhases, HandlerReturns
  <2> HIDE DEF ph
  <2> QED
    BY <2>1, <2>2, PhaseMove
<1>7. ASSUME NEW a \in Actors, HandlerPanics(a)
      PROVE  ControlInv'
  <2> DEFINE ph == "crashed"
  <2>1. Moves(a, ph)
    BY <1>7 DEF Moves, mons, history, HandlerPanics
  <2>2. CanMove(a, ph)
    BY <1>7, <1>f DEF CanMove, LivePhases, StoppingPhases, HandlerPanics
  <2> HIDE DEF ph
  <2> QED
    BY <2>1, <2>2, PhaseMove
<1>8. ASSUME NEW a \in Actors, DrainSkip(a)
      PROVE  ControlInv'
  <2> DEFINE ph == "drain"
  <2>1. Moves(a, ph)
    BY <1>8 DEF Moves, mons, history, DrainSkip, Take
  <2>2. CanMove(a, ph)
    BY <1>8, <1>f DEF CanMove, LivePhases, StoppingPhases, DrainSkip, Take
  <2> HIDE DEF ph
  <2> QED
    BY <2>1, <2>2, PhaseMove
<1>9. ASSUME NEW a \in Actors, DrainEnds(a)
      PROVE  ControlInv'
  <2> DEFINE ph == "drained"
  <2>1. Moves(a, ph)
    BY <1>9 DEF Moves, mons, history, DrainEnds, Take
  <2>2. CanMove(a, ph)
    BY <1>9, <1>f DEF CanMove, LivePhases, StoppingPhases, DrainEnds, Take
  <2> HIDE DEF ph
  <2> QED
    BY <2>1, <2>2, PhaseMove
<1>10. ASSUME NEW a \in Actors, CloneWatchers(a)
      PROVE  ControlInv'
  <2> DEFINE ph == IF monitors[a] = {} THEN IF phase[a] = "leaving" THEN "returned" ELSE "remove"
                              ELSE IF phase[a] = "leaving" THEN "tellingStop" ELSE "telling"
  <2>1. Moves(a, ph)
    BY <1>10 DEF Moves, mons, history, CloneWatchers, Return
  <2>2. CanMove(a, ph)
    BY <1>10, <1>f DEF CanMove, LivePhases, StoppingPhases, CloneWatchers, Return
  <2> HIDE DEF ph
  <2> QED
    BY <2>1, <2>2, PhaseMove
<1>11. ASSUME NEW a \in Actors, TellWatchers(a)
      PROVE  ControlInv'
  <2> DEFINE ph == IF phase[a] = "tellingStop" THEN "returned" ELSE "remove"
  <2>1. Moves(a, ph)
    BY <1>11 DEF Moves, mons, history, TellWatchers
  <2>2. CanMove(a, ph)
    BY <1>11, <1>f DEF CanMove, LivePhases, StoppingPhases, TellWatchers
  <2> HIDE DEF ph
  <2> QED
    BY <2>1, <2>2, PhaseMove
<1>12. ASSUME NEW a \in Actors, Forget(a)
      PROVE  ControlInv'
  <2> DEFINE ph == "done"
  <2>1. Moves(a, ph)
    BY <1>12 DEF Moves, mons, history, Forget
  <2>2. CanMove(a, ph)
    BY <1>12, <1>f DEF CanMove, LivePhases, StoppingPhases, Forget
  <2> HIDE DEF ph
  <2> QED
    BY <2>1, <2>2, PhaseMove
<1> USE ConstantsAssumption
    DEF TypeOK, mons, history, ControlInv, CallInv, DrainInv, RegistryExact, LockOwner,
        LivePhases, StoppingPhases, Threads
<1>a. /\ NoCall.op = "none"
      /\ \A t \in Threads : call[t].op # "none" => call[t].to \in Actors
  BY CallTyped DEF NoCall
<1>13. ASSUME NEW t \in Threads, NEW op \in SendOps, NEW a \in Actors, InvokeSend(t, op, a)
      PROVE  ControlInv'
  BY <1>13, <1>a DEF InvokeSend, May, Born, SendOps
<1>14. ASSUME NEW t \in Threads, NEW a \in Actors, InvokeSpawn(t, a)
      PROVE  ControlInv'
  <2>1. call'[t].op = "spawn" /\ call'[t].to = a /\ phase'[a] = "spawning"
    BY <1>14 DEF InvokeSpawn, NoCall
  <2>2. \A u \in Threads \ {t} : call'[u] = call[u] /\ (call[u].op = "spawn" => call[u].to # a)
    BY <1>14 DEF InvokeSpawn
  <2>3. t \in Actors => phase[t] = "handle" /\ t # a
    BY <1>14 DEF InvokeSpawn, May
  <2>4. CallInv'
    <3>1. \A b \in Actors : call'[b] # NoCall => phase'[b] = "handle"
      BY <1>14, <2>2, <2>3 DEF InvokeSpawn
    <3>2. \A u \in Threads : call'[u].op = "spawn" => phase'[call'[u].to] = "spawning"
      BY <1>14, <1>a, <2>1, <2>2 DEF InvokeSpawn
    <3>3. ASSUME NEW u \in Threads, NEW v \in Threads,
                 call'[u].op = "spawn", call'[v].op = "spawn", call'[u].to = call'[v].to
          PROVE  u = v
      <4>1. CASE u = t \/ v = t
        BY <2>1, <2>2, <3>3, <4>1
      <4>2. CASE u # t /\ v # t
        BY <2>2, <3>3, <4>2
      <4> QED
        BY <4>1, <4>2
    <3> QED
      BY <3>1, <3>2, <3>3
  <2>5. DrainInv' /\ RegistryExact'
    BY <1>14, <2>3, ZenonT(30) DEF InvokeSpawn
  <2>6. LockOwner'
    BY <1>14, <1>a, <2>3 DEF InvokeSpawn, May
  <2> QED
    BY <2>4, <2>5, <2>6
<1>15. ASSUME NEW t \in Threads, NEW w \in Actors, NEW a \in Actors, Monitor(t, w, a)
      PROVE  ControlInv'
  BY <1>15, <1>a DEF Monitor
<1>16. ASSUME NEW t \in Threads, NEW w \in Actors, NEW a \in Actors, Demonitor(t, w, a)
      PROVE  ControlInv'
  BY <1>16, <1>a DEF Demonitor
<1>17. ASSUME NEW t \in Threads, Spawn(t)
      PROVE  ControlInv'
  BY <1>17, <1>a, SMTT(60) DEF Spawn
<1>18. ASSUME NEW t \in Threads, SendFails(t)
      PROVE  ControlInv'
  BY <1>18, <1>a DEF SendFails, InSend
<1>19. ASSUME NEW t \in Threads, SendSucceeds(t)
      PROVE  ControlInv'
  BY <1>19, <1>a DEF SendSucceeds, InSend, Put
<1>20. ASSUME NEW t \in Threads, SendBlocks(t)
      PROVE  ControlInv'
  BY <1>20, <1>a DEF SendBlocks, InSend, Found
<1>21. ASSUME NEW t \in Threads, TrySend(t)
      PROVE  ControlInv'
  BY <1>21, <1>a DEF TrySend, Put
<1>22. ASSUME NEW a \in Actors, Report(a)
      PROVE  ControlInv'
  <2>1. CASE parent[a] \in registry
    <3>1. regLock' = a /\ UNCHANGED <<phase, registry, parent, draining, call>>
      BY <1>22, <2>1 DEF Report
    <3> QED
      BY <1>22, <2>1, <3>1, SMTT(60) DEF Report
  <2>2. CASE parent[a] \notin registry
    <3> DEFINE ph == IF phase[a] = "failing" THEN "returned" ELSE "recv"
    <3>1. Moves(a, ph)
      BY <1>22, <2>2 DEF Moves, Report, Return
    <3>2. CanMove(a, ph)
      BY <1>22, <1>a DEF CanMove, Report
    <3> HIDE DEF ph
    <3> QED
      BY <3>1, <3>2, PhaseMove
  <2> QED
    BY <2>1, <2>2
<1>23. ASSUME NEW a \in Actors, RecvGracefulStop(a)
      PROVE  ControlInv'
  BY <1>23, <1>a, SMTT(60) DEF RecvGracefulStop, Take
<1>24. ASSUME NEW a \in Actors, Deregister(a)
      PROVE  ControlInv'
  BY <1>24, <1>a DEF Deregister
<1>25. ASSUME NEW a \in Actors, Remove(a)
      PROVE  ControlInv'
  BY <1>25, <1>a DEF Remove
<1>26. CASE UNCHANGED vars
  BY <1>26 DEF vars
<1> QED
  BY <1>1, <1>2, <1>3, <1>4, <1>5, <1>6, <1>7, <1>8, <1>9, <1>10, <1>11, <1>12, <1>13, <1>14, <1>15, <1>16, <1>17, <1>18, <1>19, <1>20, <1>21, <1>22, <1>23, <1>24, <1>25, <1>26
     DEF Next, Invocation, Completion, TaskStep

(***************************************************************************)
(* Facts about the sequences of a channel and its history.                 *)
(***************************************************************************)

\* Appending to both the history and the mailbox.
LEMMA WaitingPut ==
    ASSUME NEW acc \in Seq(Message), NEW box \in Seq(Message), NEW n \in Nat, NEW m \in Message,
           Waiting(acc, n, box)
    PROVE  Waiting(Append(acc, m), n, Append(box, m))
BY DEF Waiting

\* A message put in the mailbox does not change what was handled.
LEMMA HandledPut ==
    ASSUME NEW acc \in Seq(Message), NEW n \in Nat, NEW done \in Seq(Nat), NEW m \in Message,
           Handled(acc, n, done)
    PROVE  Handled(Append(acc, m), n, done)
<1>1. Len(Append(acc, m)) = Len(acc) + 1 /\ \A k \in 1..n : Append(acc, m)[k] = acc[k]
  BY DEF Handled
<1> QED
  BY <1>1, SMTT(30) DEF Handled

\* Taking the first message of a mailbox.
LEMMA WaitingTake ==
    ASSUME NEW acc \in Seq(Message), NEW box \in Seq(Message), NEW n \in Nat,
           Waiting(acc, n, box), box # <<>>
    PROVE  /\ Waiting(acc, n + 1, Tail(box))
           /\ n + 1 <= Len(acc)
           /\ Head(box) = acc[n + 1]
<1>1. Len(box) > 0 /\ Head(box) = box[1] /\ Len(Tail(box)) = Len(box) - 1
  OBVIOUS
<1>2. \A i \in 1..Len(Tail(box)) : Tail(box)[i] = box[i + 1]
  OBVIOUS
<1> QED
  BY <1>1, <1>2 DEF Waiting

\* The message received is not for the handler, or goes to it.
LEMMA HandledSkip ==
    ASSUME NEW acc \in Seq(Message), NEW n \in Nat, NEW done \in Seq(Nat),
           Handled(acc, n, done), n + 1 <= Len(acc), acc[n + 1].kind # "User"
    PROVE  Handled(acc, n + 1, done)
BY DEF Handled

\* A user message that is received is handed to the handler.
LEMMA HandledTake ==
    ASSUME NEW acc \in Seq(Message), NEW n \in Nat, NEW done \in Seq(Nat),
           Handled(acc, n, done), n + 1 <= Len(acc), acc[n + 1].kind = "User"
    PROVE  Handled(acc, n + 1, Append(done, n + 1))
<1> DEFINE d == Append(done, n + 1)
<1>1. /\ Len(d) = Len(done) + 1
      /\ d[Len(done) + 1] = n + 1
      /\ \A i \in 1..Len(done) : d[i] = done[i]
  OBVIOUS
<1>0. Len(done) \in Nat /\ \A i \in 1..Len(done) : done[i] \in 1..n /\ acc[done[i]].kind = "User"
  BY DEF Handled
<1> HIDE DEF d
<1>2. ASSUME NEW i \in 1..Len(d), NEW j \in 1..Len(d), i < j
      PROVE  d[i] < d[j]
  <2>1. i \in 1..Len(done) /\ d[i] = done[i] /\ d[i] \in 1..n
    BY <1>0, <1>1, <1>2
  <2>2. CASE j = Len(done) + 1
    BY <1>1, <2>1, <2>2
  <2>3. CASE j \in 1..Len(done)
    BY <1>1, <1>2, <2>1, <2>3 DEF Handled
  <2> QED
    BY <1>0, <1>1, <2>2, <2>3
<1>3. ASSUME NEW i \in 1..Len(d)
      PROVE  d[i] \in 1..(n + 1) /\ acc[d[i]].kind = "User"
  <2>1. CASE i = Len(done) + 1
    <3>1. d[i] = n + 1
      BY <1>1, <2>1
    <3> QED
      BY <3>1
  <2>2. CASE i \in 1..Len(done)
    <3>1. d[i] \in 1..n /\ acc[d[i]].kind = "User"
      BY <1>0, <1>1, <2>2
    <3> QED
      BY <3>1
  <2> QED
    BY <1>0, <1>1, <2>1, <2>2
<1>4. ASSUME NEW k \in 1..(n + 1), acc[k].kind = "User"
      PROVE  \E i \in 1..Len(d) : d[i] = k
  <2>1. CASE k = n + 1
    BY <1>0, <1>1, <2>1
  <2>2. CASE k \in 1..n
    <3>1. PICK i \in 1..Len(done) : done[i] = k
      BY <1>4, <2>2 DEF Handled
    <3> QED
      BY <1>0, <1>1, <3>1
  <2> QED
    BY <2>1, <2>2
<1>5. Handled(acc, n + 1, d)
  BY <1>2, <1>3, <1>4 DEF Handled
<1> QED
  BY <1>5 DEF d

(***************************************************************************)
(* The data part of the inductive invariant: what ExactlyOnceInOrder says  *)
(* of an actor, and that the channel of one that does not exist is empty.  *)
(***************************************************************************)
Unborn(a) == phase[a] \in {"unborn", "spawning"}

DataFor(a) ==
    /\ Unborn(a) => accepted[a] = <<>> /\ mailbox[a] = <<>> /\ taken[a] = 0
    /\ HasRx(a) => Waiting(accepted[a], taken[a], mailbox[a])
    /\ Handled(accepted[a], taken[a], delivered[a])

DataInv == \A a \in Actors : DataFor(a)

\* DataInv holds at first.
LEMMA DataInit == Init => DataInv
BY DEF Init, DataInv, DataFor, Unborn, HasRx, Waiting, Handled, LivePhases, StoppingPhases

\* A step that leaves the channel and the history of a alone, and at most
\* drops the receiver.
LEMMA DataSame ==
    ASSUME NEW a \in Actors, DataFor(a),
           accepted'[a] = accepted[a], taken'[a] = taken[a], delivered'[a] = delivered[a],
           HasRx(a)' => mailbox'[a] = mailbox[a] /\ (HasRx(a) \/ Unborn(a)),
           Unborn(a)' => mailbox'[a] = mailbox[a] /\ Unborn(a)
    PROVE  DataFor(a)'
<1>1. Unborn(a) => Waiting(accepted[a], taken[a], mailbox[a])
  BY DEF DataFor, Waiting
<1> QED
  BY <1>1 DEF DataFor

\* A message is put in the mailbox of a.
LEMMA DataPut ==
    ASSUME TypeOK, NEW a \in Actors, NEW m \in Message, DataFor(a), HasRx(a),
           accepted'[a] = Append(accepted[a], m), mailbox'[a] = Append(mailbox[a], m),
           taken'[a] = taken[a], delivered'[a] = delivered[a], phase'[a] = phase[a]
    PROVE  DataFor(a)'
<1>0. /\ accepted[a] \in Seq(Message) /\ mailbox[a] \in Seq(Message) /\ taken[a] \in Nat
      /\ delivered[a] \in Seq(Nat)
  BY DEF TypeOK
<1>1. ~Unborn(a)'
  BY DEF Unborn, HasRx, LivePhases, StoppingPhases
<1> QED
  BY <1>0, <1>1, WaitingPut, HandledPut DEF DataFor

\* The actor a takes its first message; a user message goes to the handler.
LEMMA DataTake ==
    ASSUME TypeOK, NEW a \in Actors, DataFor(a), HasRx(a), mailbox[a] # <<>>,
           accepted'[a] = accepted[a], taken'[a] = taken[a] + 1,
           HasRx(a)' => mailbox'[a] = Tail(mailbox[a]),
           ~Unborn(a)',
           \/ Head(mailbox[a]).kind # "User" /\ delivered'[a] = delivered[a]
           \/ Head(mailbox[a]).kind = "User" /\ delivered'[a] = Append(delivered[a], taken[a] + 1)
    PROVE  DataFor(a)'
<1>0. /\ accepted[a] \in Seq(Message) /\ mailbox[a] \in Seq(Message) /\ taken[a] \in Nat
      /\ delivered[a] \in Seq(Nat)
  BY DEF TypeOK
<1>1. /\ Waiting(accepted[a], taken[a] + 1, Tail(mailbox[a]))
      /\ taken[a] + 1 <= Len(accepted[a])
      /\ Head(mailbox[a]) = accepted[a][taken[a] + 1]
  BY <1>0, WaitingTake DEF DataFor
<1>2. Handled(accepted[a], taken[a] + 1, delivered'[a])
  BY <1>0, <1>1, HandledSkip, HandledTake DEF DataFor
<1> QED
  BY <1>1, <1>2 DEF DataFor

\* The hypotheses of DataSame for b.
Undisturbed(b) ==
    /\ accepted'[b] = accepted[b] /\ taken'[b] = taken[b] /\ delivered'[b] = delivered[b]
    /\ HasRx(b)' => mailbox'[b] = mailbox[b] /\ (HasRx(b) \/ Unborn(b))
    /\ Unborn(b)' => mailbox'[b] = mailbox[b] /\ Unborn(b)

\* Every step keeps DataInv.
LEMMA DataStep == TypeOK /\ ControlInv /\ DataInv /\ [Next]_vars => DataInv'
<1> SUFFICES ASSUME TypeOK, ControlInv, DataInv, [Next]_vars, NEW b \in Actors
             PROVE  DataFor(b)'
  BY DEF DataInv
<1>a. DataFor(b)
  BY DEF DataInv
<1>b. Undisturbed(b) => DataFor(b)'
  BY <1>a, DataSame DEF Undisturbed
<1>c. ASSUME NEW a \in Actors, NEW m \in Message, Put(a, m), HasRx(a), UNCHANGED <<phase, taken, delivered>>
      PROVE  DataFor(b)'
  <2>1. CASE a = b
    <3>1. accepted'[b] = Append(accepted[b], m) /\ mailbox'[b] = Append(mailbox[b], m)
      BY <1>c, <2>1 DEF Put, TypeOK
    <3> QED
      BY <1>a, <1>c, <2>1, <3>1, DataPut
  <2>2. CASE a # b
    <3>1. accepted'[b] = accepted[b] /\ mailbox'[b] = mailbox[b]
      BY <1>c, <2>2 DEF Put, TypeOK
    <3> QED
      BY <1>b, <1>c, <3>1 DEF Undisturbed, HasRx, Unborn
  <2> QED
    BY <2>1, <2>2
<1>d. ASSUME NEW a \in Actors, a # b,
             UNCHANGED accepted,
             mailbox'[b] = mailbox[b], taken'[b] = taken[b], delivered'[b] = delivered[b], phase'[b] = phase[b]
      PROVE  DataFor(b)'
  BY <1>b, <1>d DEF Undisturbed, HasRx, Unborn
<1>1. ASSUME NEW t \in Threads, NEW op \in SendOps, NEW a \in Actors, InvokeSend(t, op, a)
      PROVE  DataFor(b)'
  <2>1. Undisturbed(b)
    BY <1>1 DEF Undisturbed, HasRx, Unborn, LivePhases, StoppingPhases, TypeOK, mons, history, InvokeSend
  <2> QED
    BY <1>b, <2>1
<1>2. ASSUME NEW t \in Threads, NEW a \in Actors, InvokeSpawn(t, a)
      PROVE  DataFor(b)'
  <2>1. Undisturbed(b)
    BY <1>2 DEF Undisturbed, HasRx, Unborn, LivePhases, StoppingPhases, TypeOK, mons, history, InvokeSpawn
  <2> QED
    BY <1>b, <2>1
<1>3. ASSUME NEW t \in Threads, NEW w \in Actors, NEW a \in Actors, Monitor(t, w, a) \/ Demonitor(t, w, a)
      PROVE  DataFor(b)'
  <2>1. Undisturbed(b)
    BY <1>3 DEF Undisturbed, HasRx, Unborn, LivePhases, StoppingPhases, TypeOK, mons, history, Monitor, Demonitor
  <2> QED
    BY <1>b, <2>1
<1>4. ASSUME NEW t \in Threads, SendFails(t) \/ SendBlocks(t)
      PROVE  DataFor(b)'
  <2>1. Undisturbed(b)
    BY <1>4 DEF Undisturbed, HasRx, Unborn, LivePhases, StoppingPhases, TypeOK, mons, history, SendFails, SendBlocks
  <2> QED
    BY <1>b, <2>1
<1>5. ASSUME NEW a \in Actors, Start(a)
      PROVE  DataFor(b)'
  <2>1. Undisturbed(b)
    BY <1>5 DEF Undisturbed, HasRx, Unborn, LivePhases, StoppingPhases, TypeOK, mons, history, Start
  <2> QED
    BY <1>b, <2>1
<1>6. ASSUME NEW a \in Actors, HandlerReturns(a)
      PROVE  DataFor(b)'
  <2>1. Undisturbed(b)
    BY <1>6 DEF Undisturbed, HasRx, Unborn, LivePhases, StoppingPhases, TypeOK, mons, history, HandlerReturns
  <2> QED
    BY <1>b, <2>1
<1>7. ASSUME NEW a \in Actors, HandlerPanics(a)
      PROVE  DataFor(b)'
  <2>1. Undisturbed(b)
    BY <1>7 DEF Undisturbed, HasRx, Unborn, LivePhases, StoppingPhases, TypeOK, mons, history, HandlerPanics
  <2> QED
    BY <1>b, <2>1
<1>8. ASSUME NEW a \in Actors, Report(a)
      PROVE  DataFor(b)'
  <2>1. Undisturbed(b)
    BY <1>8 DEF Undisturbed, HasRx, Unborn, LivePhases, StoppingPhases, TypeOK, mons, history, Report, Return
  <2> QED
    BY <1>b, <2>1
<1>9. ASSUME NEW a \in Actors, Deregister(a) \/ Remove(a) \/ Forget(a)
      PROVE  DataFor(b)'
  <2>1. Undisturbed(b)
    BY <1>9 DEF Undisturbed, HasRx, Unborn, LivePhases, StoppingPhases, TypeOK, mons, history, Deregister, Remove, Forget
  <2> QED
    BY <1>b, <2>1
<1>10. ASSUME NEW a \in Actors, CloneWatchers(a)
      PROVE  DataFor(b)'
  <2>1. Undisturbed(b)
    BY <1>10 DEF Undisturbed, HasRx, Unborn, LivePhases, StoppingPhases, TypeOK, mons, history, CloneWatchers, Return
  <2> QED
    BY <1>b, <2>1
<1>11. ASSUME NEW t \in Threads, Spawn(t)
      PROVE  DataFor(b)'
  <2>1. call[t].to \in Actors /\ phase[call[t].to] = "spawning"
    BY <1>11, CallTyped DEF Spawn, ControlInv, CallInv
  <2>2. Undisturbed(b)
    BY <1>11, <2>1 DEF Undisturbed, HasRx, Unborn, LivePhases, StoppingPhases, TypeOK, mons, history, Spawn
  <2> QED
    BY <1>b, <2>2
<1>12. ASSUME NEW t \in Threads, SendSucceeds(t)
      PROVE  DataFor(b)'
  <2>1. call[t].to \in Actors /\ call[t].msg \in Message
    BY <1>12, CallTyped DEF SendSucceeds, InSend
  <2> QED
    BY <1>12, <1>c, <2>1 DEF SendSucceeds
<1>13. ASSUME NEW t \in Threads, TrySend(t)
      PROVE  DataFor(b)'
  <2>1. call[t].to \in Actors /\ call[t].msg \in Message
    BY <1>13, CallTyped DEF TrySend
  <2>2. CASE HasRx(call[t].to) /\ Put(call[t].to, call[t].msg)
    BY <1>13, <1>c, <2>1, <2>2 DEF TrySend
  <2>3. CASE UNCHANGED <<mailbox, accepted>>
    BY <1>13, <1>b, <2>3 DEF TrySend, Undisturbed, HasRx, Unborn
  <2> QED
    BY <1>13, <2>2, <2>3 DEF TrySend
<1>14. ASSUME NEW a \in Actors, RecvUser(a) \/ DrainUser(a)
      PROVE  DataFor(b)'
  <2>1. CASE a # b
    BY <1>14, <1>d, <2>1 DEF TypeOK, RecvUser, DrainUser, Take, Deliver
  <2>2. CASE a = b
    <3>1. /\ HasRx(b) /\ mailbox[b] # <<>>
          /\ accepted'[b] = accepted[b] /\ taken'[b] = taken[b] + 1
          /\ HasRx(b)' => mailbox'[b] = Tail(mailbox[b])
          /\ ~Unborn(b)'
      BY <1>14, <2>2 DEF HasRx, Unborn, LivePhases, StoppingPhases, TypeOK, RecvUser, DrainUser, Take, Deliver
    <3>2. \/ Head(mailbox[b]).kind # "User" /\ delivered'[b] = delivered[b]
          \/ Head(mailbox[b]).kind = "User" /\ delivered'[b] = Append(delivered[b], taken[b] + 1)
      BY <1>14, <2>2 DEF TypeOK, RecvUser, DrainUser, Take, Deliver
    <3> QED
      BY <1>a, <3>1, <3>2, DataTake
  <2> QED
    BY <2>1, <2>2
<1>15. ASSUME NEW a \in Actors, RecvActorDown(a) \/ RecvChildFailure(a) \/ RecvGracefulStop(a) \/ DrainSkip(a)
      PROVE  DataFor(b)'
  <2>1. CASE a # b
    BY <1>15, <1>d, <2>1 DEF TypeOK, RecvActorDown, RecvChildFailure, RecvGracefulStop, DrainSkip, Take
  <2>2. CASE a = b
    <3>1. /\ HasRx(b) /\ mailbox[b] # <<>>
          /\ accepted'[b] = accepted[b] /\ taken'[b] = taken[b] + 1
          /\ HasRx(b)' => mailbox'[b] = Tail(mailbox[b])
          /\ ~Unborn(b)'
      BY <1>15, <2>2 DEF HasRx, Unborn, LivePhases, StoppingPhases, TypeOK, RecvActorDown, RecvChildFailure, RecvGracefulStop, DrainSkip, Take
    <3>2. \/ Head(mailbox[b]).kind # "User" /\ delivered'[b] = delivered[b]
          \/ Head(mailbox[b]).kind = "User" /\ delivered'[b] = Append(delivered[b], taken[b] + 1)
      BY <1>15, <2>2 DEF TypeOK, RecvActorDown, RecvChildFailure, RecvGracefulStop, DrainSkip, Take
    <3> QED
      BY <1>a, <3>1, <3>2, DataTake
  <2> QED
    BY <2>1, <2>2
<1>16. ASSUME NEW a \in Actors, RecvExit(a) \/ RecvFailure(a)
      PROVE  DataFor(b)'
  <2>1. CASE a # b
    BY <1>16, <1>d, <2>1 DEF TypeOK, RecvExit, RecvFailure, Take, Return
  <2>2. CASE a = b
    <3>1. /\ HasRx(b) /\ mailbox[b] # <<>>
          /\ accepted'[b] = accepted[b] /\ taken'[b] = taken[b] + 1
          /\ HasRx(b)' => mailbox'[b] = Tail(mailbox[b])
          /\ ~Unborn(b)'
      BY <1>16, <2>2, SMTT(30) DEF HasRx, Unborn, LivePhases, StoppingPhases, TypeOK, RecvExit, RecvFailure, Take, Return
    <3>2. \/ Head(mailbox[b]).kind # "User" /\ delivered'[b] = delivered[b]
          \/ Head(mailbox[b]).kind = "User" /\ delivered'[b] = Append(delivered[b], taken[b] + 1)
      BY <1>16, <2>2 DEF TypeOK, RecvExit, RecvFailure, Take, Return
    <3> QED
      BY <1>a, <3>1, <3>2, DataTake
  <2> QED
    BY <2>1, <2>2
<1>17. ASSUME NEW a \in Actors, DrainEnds(a)
      PROVE  DataFor(b)'
  <2>1. CASE a # b
    BY <1>17, <1>d, <2>1 DEF TypeOK, DrainEnds, Take
  <2>2. CASE a = b /\ Take(a, {"Exit"}, "drained")
    <3>1. /\ HasRx(b) /\ mailbox[b] # <<>> /\ Head(mailbox[b]).kind # "User"
          /\ accepted'[b] = accepted[b] /\ taken'[b] = taken[b] + 1
          /\ mailbox'[b] = Tail(mailbox[b]) /\ delivered'[b] = delivered[b]
          /\ ~Unborn(b)'
      BY <1>17, <2>2 DEF HasRx, Unborn, LivePhases, StoppingPhases, TypeOK, DrainEnds, Take
    <3> QED
      BY <1>a, <3>1, DataTake
  <2>3. CASE a = b /\ UNCHANGED <<mailbox, taken>>
    <3>1. Undisturbed(b)
      BY <1>17, <2>3 DEF Undisturbed, HasRx, Unborn, LivePhases, StoppingPhases, TypeOK, DrainEnds, Take
    <3> QED
      BY <1>b, <3>1
  <2> QED
    BY <1>17, <2>1, <2>2, <2>3 DEF DrainEnds
<1>18. ASSUME NEW a \in Actors, TellWatchers(a)
      PROVE  DataFor(b)'
  <2>0. phase[a] \in {"tellingStop", "telling"} /\ phase' = [phase EXCEPT ![a] = IF @ = "tellingStop" THEN "returned" ELSE "remove"]
    BY <1>18 DEF TellWatchers
  <2>r. a \notin Told(a)
    BY <2>0 DEF Told, HasRx, LivePhases, StoppingPhases, ControlInv, RegistryExact, DrainInv
  <2>1. CASE a = b
    <3>1. Undisturbed(b)
      BY <1>18, <2>0, <2>1, <2>r DEF Undisturbed, HasRx, Unborn, LivePhases, StoppingPhases, TypeOK, TellWatchers
    <3> QED
      BY <1>b, <3>1
  <2>2. CASE a # b /\ b \in Told(a)
    <3>1. HasRx(b) /\ ActorDown(a) \in Message
      BY <2>2 DEF Told, ActorDown, Message, Kinds
    <3>2. /\ accepted'[b] = Append(accepted[b], ActorDown(a)) /\ mailbox'[b] = Append(mailbox[b], ActorDown(a))
          /\ phase'[b] = phase[b] /\ taken'[b] = taken[b] /\ delivered'[b] = delivered[b]
      BY <1>18, <2>2 DEF TellWatchers, TypeOK
    <3> QED
      BY <1>a, <3>1, <3>2, DataPut
  <2>3. CASE a # b /\ b \notin Told(a)
    <3>1. Undisturbed(b)
      BY <1>18, <2>3 DEF Undisturbed, HasRx, Unborn, TypeOK, TellWatchers
    <3> QED
      BY <1>b, <3>1
  <2> QED
    BY <2>1, <2>2, <2>3
<1>19. CASE UNCHANGED vars
  BY <1>19, <1>b DEF vars, Undisturbed, HasRx, Unborn
<1> QED
  BY <1>1, <1>2, <1>3, <1>4, <1>5, <1>6, <1>7, <1>8, <1>9, <1>10, <1>11, <1>12, <1>13, <1>14, <1>15, <1>16, <1>17, <1>18, <1>19
     DEF Next, Invocation, Completion, TaskStep

(***************************************************************************)
(* Who changes accepted: a completed send, of the mailbox of an actor      *)
(* that is registered and alive, and notify_monitors.                      *)
(***************************************************************************)
SendsTo(a) ==
    \E t \in Threads :
        /\ call[t].op # "none" /\ call[t].to = a /\ Put(a, call[t].msg)
        /\ a \in registry /\ HasRx(a)

\* Only a send to a registered actor, try_send and notify_monitors fill mailboxes.
LEMMA AcceptedStep ==
    ASSUME TypeOK, ControlInv, [Next]_vars
    PROVE  \/ accepted' = accepted
           \/ (\E a \in Actors : SendsTo(a)) /\ UNCHANGED <<phase, delivered>>
           \/ \E a \in Actors : TellWatchers(a)
<1> USE DEF mons, history
<1>1. ASSUME NEW t \in Threads, NEW op \in SendOps, NEW a \in Actors, InvokeSend(t, op, a)
      PROVE  accepted' = accepted
  BY <1>1 DEF InvokeSend
<1>2. ASSUME NEW t \in Threads, NEW a \in Actors, InvokeSpawn(t, a)
      PROVE  accepted' = accepted
  BY <1>2 DEF InvokeSpawn
<1>3. ASSUME NEW t \in Threads, NEW w \in Actors, NEW a \in Actors, Monitor(t, w, a) \/ Demonitor(t, w, a)
      PROVE  accepted' = accepted
  BY <1>3 DEF Monitor, Demonitor
<1>4. ASSUME NEW t \in Threads, Spawn(t)
      PROVE  accepted' = accepted
  BY <1>4 DEF Spawn
<1>5. ASSUME NEW t \in Threads, SendFails(t) \/ SendBlocks(t)
      PROVE  accepted' = accepted
  BY <1>5 DEF SendFails, SendBlocks
<1>6. ASSUME NEW a \in Actors, Start(a) \/ HandlerReturns(a) \/ HandlerPanics(a)
      PROVE  accepted' = accepted
  BY <1>6 DEF Start, HandlerReturns, HandlerPanics
<1>7. ASSUME NEW a \in Actors, RecvUser(a) \/ DrainUser(a)
      PROVE  accepted' = accepted
  BY <1>7 DEF RecvUser, DrainUser, Take, Deliver
<1>8. ASSUME NEW a \in Actors, RecvActorDown(a) \/ RecvChildFailure(a) \/ RecvGracefulStop(a) \/ DrainSkip(a)
      PROVE  accepted' = accepted
  BY <1>8 DEF RecvActorDown, RecvChildFailure, RecvGracefulStop, DrainSkip, Take
<1>9. ASSUME NEW a \in Actors, RecvExit(a) \/ RecvFailure(a)
      PROVE  accepted' = accepted
  BY <1>9 DEF RecvExit, RecvFailure, Take, Return
<1>10. ASSUME NEW a \in Actors, DrainEnds(a)
      PROVE  accepted' = accepted
  BY <1>10 DEF DrainEnds, Take
<1>11. ASSUME NEW a \in Actors, Report(a)
      PROVE  accepted' = accepted
  BY <1>11 DEF Report, Return
<1>12. ASSUME NEW a \in Actors, Deregister(a) \/ Remove(a) \/ Forget(a)
      PROVE  accepted' = accepted
  BY <1>12 DEF Deregister, Remove, Forget
<1>13. ASSUME NEW a \in Actors, CloneWatchers(a)
      PROVE  accepted' = accepted
  BY <1>13 DEF CloneWatchers, Return
<1>14. ASSUME NEW t \in Threads, SendSucceeds(t)
      PROVE  (\E a \in Actors : SendsTo(a)) /\ UNCHANGED <<phase, delivered>>
  <2>1. call[t].op = "send" /\ call[t].to \in Actors
    BY <1>14, CallTyped DEF SendSucceeds, InSend
  <2>2. call[t].to \in registry
    <3>1. CASE regLock = t
      <4>1. t \in Actors => call[t] = NoCall \/ phase[t] = "handle"
        BY DEF ControlInv, CallInv
      <4>2. call[t] # NoCall /\ regLock # NoThread
        BY <2>1, <3>1, ConstantsAssumption DEF NoCall, Threads
      <4> QED
        BY <3>1, <4>1, <4>2 DEF ControlInv, LockOwner
    <3>2. CASE regLock # t
      BY <1>14, <3>2 DEF SendSucceeds, Found
    <3> QED
      BY <3>1, <3>2
  <2> QED
    BY <1>14, <2>1, <2>2 DEF SendSucceeds, SendsTo
<1>15. ASSUME NEW t \in Threads, TrySend(t)
      PROVE  \/ accepted' = accepted
             \/ (\E a \in Actors : SendsTo(a)) /\ UNCHANGED <<phase, delivered>>
  <2>1. call[t].op = "try_send" /\ call[t].to \in Actors /\ regLock # t
    BY <1>15, CallTyped, ConstantsAssumption DEF TrySend, Threads
  <2> QED
    BY <1>15, <2>1 DEF TrySend, SendsTo, Found
<1>16. CASE UNCHANGED vars
  BY <1>16 DEF vars
<1> QED
  BY <1>1, <1>2, <1>3, <1>4, <1>5, <1>6, <1>7, <1>8, <1>9, <1>10, <1>11, <1>12, <1>13, <1>14, <1>15, <1>16
     DEF Next, Invocation, Completion, TaskStep

(***************************************************************************)
(* An actor of which an ActorDown was sent has left its loop for good.     *)
(***************************************************************************)
FinalPhases == {"returned", "telling", "remove", "forget", "done"}

\* The spawn closure has made its own round of notifications.
ClosurePhases == {"remove", "forget", "done"}

DownInv == \A a \in Actors : Announced(a) => phase[a] \in FinalPhases

\* DownInv holds at first.
LEMMA DownInit == Init => DownInv
BY DEF Init, DownInv, Announced

\* A task that has left its loop handles nothing more and makes no call.
LEMMA FinalStays ==
    ASSUME TypeOK, ControlInv, [Next]_vars, NEW b \in Actors, phase[b] \in FinalPhases
    PROVE  /\ phase'[b] \in FinalPhases /\ delivered'[b] = delivered[b] /\ call'[b] = call[b]
           /\ phase[b] \in ClosurePhases => phase'[b] \in ClosurePhases
           /\ draining'[b] = draining[b]
<1> USE DEF mons, history, FinalPhases, ClosurePhases
<1>c. call[b] = NoCall /\ NoCall.op = "none"
  BY DEF ControlInv, CallInv, NoCall
<1> DEFINE Goal == /\ phase'[b] \in FinalPhases /\ delivered'[b] = delivered[b] /\ call'[b] = call[b]
                   /\ phase[b] \in ClosurePhases => phase'[b] \in ClosurePhases
                   /\ draining'[b] = draining[b]
<1>1. ASSUME NEW t \in Threads, NEW op \in SendOps, NEW a \in Actors, InvokeSend(t, op, a)
      PROVE  Goal
  <2>1. t # b
    BY <1>1, ConstantsAssumption DEF InvokeSend, May
  <2> QED
    BY <1>1, <2>1 DEF TypeOK, Threads, InvokeSend
<1>2. ASSUME NEW t \in Threads, NEW a \in Actors, InvokeSpawn(t, a)
      PROVE  Goal
  <2>1. t # b
    BY <1>2, ConstantsAssumption DEF InvokeSpawn, May
  <2> QED
    BY <1>2, <2>1 DEF TypeOK, Threads, InvokeSpawn
<1>3. ASSUME NEW t \in Threads, NEW w \in Actors, NEW a \in Actors, Monitor(t, w, a) \/ Demonitor(t, w, a)
      PROVE  Goal
  BY <1>3, <1>c DEF TypeOK, Threads, Monitor, Demonitor
<1>4. ASSUME NEW t \in Threads, Spawn(t)
      PROVE  Goal
  <2>1. call[t].to \in Actors /\ call[t].to # b
    BY <1>4, CallTyped DEF Spawn, ControlInv, CallInv
  <2> QED
    BY <1>4, <1>c, <2>1 DEF TypeOK, Spawn, Threads
<1>5. ASSUME NEW t \in Threads, SendFails(t) \/ SendBlocks(t)
      PROVE  Goal
  BY <1>5, <1>c DEF TypeOK, Threads, SendFails, SendBlocks, InSend
<1>6. ASSUME NEW a \in Actors, Start(a) \/ HandlerReturns(a) \/ HandlerPanics(a)
      PROVE  Goal
  BY <1>6, <1>c DEF TypeOK, Threads, Start, HandlerReturns, HandlerPanics
<1>7. ASSUME NEW a \in Actors, RecvUser(a) \/ DrainUser(a)
      PROVE  Goal
  BY <1>7, <1>c DEF TypeOK, Threads, RecvUser, DrainUser, Take, Deliver
<1>8. ASSUME NEW a \in Actors, RecvActorDown(a) \/ RecvChildFailure(a) \/ RecvGracefulStop(a) \/ DrainSkip(a)
      PROVE  Goal
  BY <1>8, <1>c DEF TypeOK, Threads, RecvActorDown, RecvChildFailure, RecvGracefulStop, DrainSkip, Take
<1>9. ASSUME NEW a \in Actors, RecvExit(a) \/ RecvFailure(a)
      PROVE  Goal
  BY <1>9, <1>c DEF TypeOK, Threads, RecvExit, RecvFailure, Take, Return
<1>10. ASSUME NEW a \in Actors, DrainEnds(a)
      PROVE  Goal
  BY <1>10, <1>c DEF TypeOK, Threads, DrainEnds, Take
<1>11. ASSUME NEW a \in Actors, Report(a)
      PROVE  Goal
  BY <1>11, <1>c DEF TypeOK, Threads, Report, Return
<1>12. ASSUME NEW a \in Actors, Deregister(a) \/ Remove(a) \/ Forget(a)
      PROVE  Goal
  BY <1>12, <1>c DEF TypeOK, Threads, Deregister, Remove, Forget
<1>13. ASSUME NEW a \in Actors, CloneWatchers(a)
      PROVE  Goal
  BY <1>13, <1>c DEF TypeOK, Threads, CloneWatchers, Return
<1>14. ASSUME NEW t \in Threads, SendSucceeds(t) \/ TrySend(t)
      PROVE  Goal
  BY <1>14, <1>c DEF TypeOK, Threads, SendSucceeds, TrySend, InSend
<1>15. ASSUME NEW a \in Actors, TellWatchers(a)
      PROVE  Goal
  BY <1>15, <1>c DEF TypeOK, Threads, TellWatchers
<1>16. CASE UNCHANGED vars
  BY <1>16 DEF vars
<1> QED
  BY <1>1, <1>2, <1>3, <1>4, <1>5, <1>6, <1>7, <1>8, <1>9, <1>10, <1>11, <1>12, <1>13, <1>14, <1>15, <1>16
     DEF Next, Invocation, Completion, TaskStep

\* Every step keeps DownInv.
LEMMA DownStep == TypeOK /\ ControlInv /\ DownInv /\ [Next]_vars => DownInv'
<1> SUFFICES ASSUME TypeOK, ControlInv, DownInv, [Next]_vars, NEW b \in Actors, Announced(b)'
             PROVE  phase'[b] \in FinalPhases
  BY DEF DownInv
<1>1. CASE Announced(b)
  BY <1>1, FinalStays DEF DownInv
<1>2. CASE accepted' = accepted
  BY <1>1, <1>2 DEF Announced
<1>3. ASSUME NEW a \in Actors, SendsTo(a)
      PROVE  phase'[b] \in FinalPhases
  <2>1. PICK t \in Threads : call[t].op # "none" /\ call[t].to = a /\ Put(a, call[t].msg)
    BY <1>3 DEF SendsTo
  <2>2. call[t].msg # ActorDown(b)
    BY <2>1, CallTyped DEF ActorDown
  <2>w. PICK w \in Actors : \E j \in 1..Len(accepted'[w]) : accepted'[w][j] = ActorDown(b)
    BY DEF Announced
  <2>3. PICK i \in 1..Len(accepted'[w]) : accepted'[w][i] = ActorDown(b)
    BY <2>w
  <2>4. w = a => i \in 1..Len(accepted[a]) /\ accepted[a][i] = ActorDown(b)
    <3> SUFFICES ASSUME w = a PROVE i \in 1..Len(accepted[a]) /\ accepted[a][i] = ActorDown(b)
      OBVIOUS
    <3>1. accepted'[a] = Append(accepted[a], call[t].msg) /\ accepted[a] \in Seq(Message)
      BY <2>1 DEF Put, TypeOK
    <3>2. call[t].msg \in Message
      BY <2>1, CallTyped
    <3> QED
      BY <2>2, <2>3, <3>1, <3>2
  <2>5. w # a => accepted'[w] = accepted[w]
    BY <2>1 DEF Put, TypeOK
  <2> QED
    BY <1>1, <2>3, <2>4, <2>5 DEF Announced
<1>4. ASSUME NEW a \in Actors, TellWatchers(a)
      PROVE  phase'[b] \in FinalPhases
  <2>1. CASE a = b
    BY <1>4, <2>1 DEF TellWatchers, TypeOK, FinalPhases
  <2>2. CASE a # b
    <3>w. PICK w \in Actors : \E j \in 1..Len(accepted'[w]) : accepted'[w][j] = ActorDown(b)
      BY DEF Announced
    <3>1. PICK i \in 1..Len(accepted'[w]) : accepted'[w][i] = ActorDown(b)
      BY <3>w
    <3>2. accepted'[w] = accepted[w] \/ accepted'[w] = Append(accepted[w], ActorDown(a))
      BY <1>4 DEF TellWatchers
    <3>3. ActorDown(a) # ActorDown(b) /\ accepted[w] \in Seq(Message) /\ ActorDown(a) \in Message
      BY <2>2 DEF ActorDown, TypeOK, Message, Kinds
    <3>4. i \in 1..Len(accepted[w]) /\ accepted[w][i] = ActorDown(b)
      BY <3>1, <3>2, <3>3
    <3> QED
      BY <1>1, <3>4 DEF Announced
  <2> QED
    BY <2>1, <2>2
<1> QED
  BY <1>2, <1>3, <1>4, AcceptedStep

(***************************************************************************)
(* How often a watcher can have been told of a: once by drain_and_stop,    *)
(* when a was stopped gracefully and has left it, and once by the closure. *)
(***************************************************************************)
TellsMade(a) ==
    (IF draining[a] /\ phase[a] \in FinalPhases THEN 1 ELSE 0)
        + (IF phase[a] \in ClosurePhases THEN 1 ELSE 0)

TellInv == \A w, a \in Actors : TimesTold(w, a) \in Nat /\ TimesTold(w, a) <= TellsMade(a)

\* The positions at which m stands in s.
At(s, m) == {i \in 1..Len(s) : s[i] = m}

\* They are finitely many; appending another message leaves them as they
\* are, and appending m adds one.
LEMMA AtAppend ==
    ASSUME NEW s \in Seq(Message), NEW m \in Message, NEW n \in Message
    PROVE  /\ IsFiniteSet(At(s, m)) /\ Cardinality(At(s, m)) \in Nat
           /\ n # m => At(Append(s, n), m) = At(s, m)
           /\ Cardinality(At(Append(s, m), m)) = Cardinality(At(s, m)) + 1
<1>1. IsFiniteSet(At(s, m))
  <2>1. IsFiniteSet(1..Len(s)) /\ At(s, m) \subseteq 1..Len(s)
    BY FS_Interval DEF At
  <2> QED
    BY <2>1, FS_Subset
<1>2. Cardinality(At(s, m)) \in Nat
  BY <1>1, FS_CardinalityType
<1>3. n # m => At(Append(s, n), m) = At(s, m)
  BY DEF At
<1>4. At(Append(s, m), m) = At(s, m) \cup {Len(s) + 1}
  BY DEF At
<1>5. Len(s) + 1 \notin At(s, m)
  BY DEF At
<1>6. Cardinality(At(s, m) \cup {Len(s) + 1}) = Cardinality(At(s, m)) + 1
  BY <1>1, <1>5, FS_AddElement
<1> QED
  BY <1>1, <1>2, <1>3, <1>4, <1>6

\* TellInv holds at first.
LEMMA TellInit == Init => TellInv
<1> SUFFICES ASSUME Init, NEW w \in Actors, NEW a \in Actors
             PROVE  TimesTold(w, a) = 0 /\ TellsMade(a) = 0
  BY DEF TellInv
<1>1. {i \in 1..Len(accepted[w]) : accepted[w][i] = ActorDown(a)} = {}
  BY DEF Init
<1>2. TimesTold(w, a) = 0
  BY <1>1, FS_EmptySet DEF TimesTold
<1> QED
  BY <1>2 DEF Init, TellsMade, FinalPhases, ClosurePhases

\* No step takes back the notifications made.
LEMMA TellsStay ==
    ASSUME TypeOK, ControlInv, [Next]_vars, NEW b \in Actors
    PROVE  /\ TellsMade(b) \in Nat /\ TellsMade(b)' \in Nat
           /\ TellsMade(b) <= TellsMade(b)'
<1>1. CASE phase[b] \in FinalPhases
  <2>1. /\ phase'[b] \in FinalPhases /\ draining'[b] = draining[b]
        /\ phase[b] \in ClosurePhases => phase'[b] \in ClosurePhases
    BY <1>1, FinalStays
  <2> QED
    BY <2>1 DEF TellsMade
<1>2. CASE phase[b] \notin FinalPhases
  BY <1>2 DEF TellsMade, FinalPhases, ClosurePhases
<1> QED
  BY <1>1, <1>2

\* Every step keeps TellInv.
LEMMA TellStep == TypeOK /\ ControlInv /\ DownInv /\ TellInv /\ [Next]_vars => TellInv'
<1> SUFFICES ASSUME TypeOK, ControlInv, DownInv, TellInv, [Next]_vars,
                    NEW w \in Actors, NEW b \in Actors
             PROVE  TimesTold(w, b)' \in Nat /\ TimesTold(w, b)' <= TellsMade(b)'
  BY DEF TellInv
<1> DEFINE Goal == TimesTold(w, b)' \in Nat /\ TimesTold(w, b)' <= TellsMade(b)'
<1>0. /\ TimesTold(w, b) = Cardinality(At(accepted[w], ActorDown(b)))
      /\ TimesTold(w, b)' = Cardinality(At(accepted'[w], ActorDown(b)))
  BY DEF TimesTold, At
<1>i. /\ TimesTold(w, b) \in Nat /\ TimesTold(w, b) <= TellsMade(b)
      /\ accepted[w] \in Seq(Message) /\ ActorDown(b) \in Message
  BY DEF TellInv, TypeOK, ActorDown, Message, Kinds
<1>m. TellsMade(b) \in Nat /\ TellsMade(b)' \in Nat /\ TellsMade(b) <= TellsMade(b)'
  BY TellsStay
<1>s. ASSUME At(accepted'[w], ActorDown(b)) = At(accepted[w], ActorDown(b))
      PROVE  Goal
  BY <1>0, <1>i, <1>m, <1>s
<1>1. CASE accepted' = accepted
  BY <1>1, <1>s
<1>2. ASSUME NEW a \in Actors, SendsTo(a)
      PROVE  Goal
  <2>1. PICK t \in Threads : call[t].op # "none" /\ call[t].to = a /\ Put(a, call[t].msg)
    BY <1>2 DEF SendsTo
  <2>2. call[t].msg \in Message /\ call[t].msg # ActorDown(b)
    BY <2>1, CallTyped DEF ActorDown
  <2>3. accepted'[w] = accepted[w] \/ accepted'[w] = Append(accepted[w], call[t].msg)
    BY <2>1 DEF Put, TypeOK
  <2>4. At(accepted'[w], ActorDown(b)) = At(accepted[w], ActorDown(b))
    BY <1>i, <2>2, <2>3, AtAppend, ZenonT(30)
  <2> QED
    BY <1>s, <2>4
<1>3. ASSUME NEW a \in Actors, TellWatchers(a)
      PROVE  Goal
  <2>1. accepted'[w] = accepted[w] \/ accepted'[w] = Append(accepted[w], ActorDown(a))
    BY <1>3 DEF TellWatchers
  <2>2. CASE a # b
    <3>1. ActorDown(a) \in Message /\ ActorDown(a) # ActorDown(b)
      BY <2>2 DEF ActorDown, Message, Kinds
    <3>2. At(accepted'[w], ActorDown(b)) = At(accepted[w], ActorDown(b))
      BY <1>i, <2>1, <3>1, AtAppend
    <3> QED
      BY <1>s, <3>2
  <2>3. CASE a = b
    <3>1. TellsMade(b)' = TellsMade(b) + 1
      <4>1. CASE phase[b] = "tellingStop"
        <5>1. draining[b] /\ draining'[b] = draining[b] /\ phase'[b] = "returned"
          BY <1>3, <2>3, <4>1 DEF TellWatchers, TypeOK, ControlInv, DrainInv, StoppingPhases
        <5> QED
          BY <4>1, <5>1 DEF TellsMade, FinalPhases, ClosurePhases
      <4>2. CASE phase[b] = "telling"
        <5>1. draining'[b] = draining[b] /\ phase'[b] = "remove"
          BY <1>3, <2>3, <4>2 DEF TellWatchers, TypeOK
        <5> QED
          BY <4>2, <5>1 DEF TellsMade, FinalPhases, ClosurePhases
      <4> QED
        BY <1>3, <2>3, <4>1, <4>2 DEF TellWatchers
    <3>2. TimesTold(w, b)' \in Nat /\ TimesTold(w, b)' <= TimesTold(w, b) + 1
      <4> DEFINE acc == accepted[w]
                 d == ActorDown(b)
      <4>1. /\ Cardinality(At(acc, d)) \in Nat
            /\ Cardinality(At(Append(acc, d), d)) = Cardinality(At(acc, d)) + 1
        BY <1>i, AtAppend
      <4>2. accepted'[w] = acc \/ accepted'[w] = Append(acc, d)
        BY <2>1, <2>3
      <4>3. Cardinality(At(accepted'[w], d)) \in {Cardinality(At(acc, d)), Cardinality(At(acc, d)) + 1}
        BY <4>1, <4>2
      <4>4. TimesTold(w, b)' \in {TimesTold(w, b), TimesTold(w, b) + 1}
        BY <1>0, <4>3
      <4> QED
        BY <1>i, <4>4
    <3> QED
      BY <1>i, <1>m, <3>1, <3>2
  <2> QED
    BY <2>2, <2>3
<1> QED
  BY <1>1, <1>2, <1>3, AcceptedStep

(***************************************************************************)
(* The inductive invariant, and the theorems.                              *)
(***************************************************************************)
IInv == TypeOK /\ ControlInv /\ DataInv /\ DownInv /\ TellInv

\* IInv is an invariant of the actor system.
THEOREM Inductive == Spec => []IInv
<1>1. Init => IInv
  BY TypeInit, ControlInit, DataInit, DownInit, TellInit DEF IInv
<1>2. IInv /\ [Next]_vars => IInv'
  BY TypeStep, ControlStep, DataStep, DownStep, TellStep DEF IInv
<1> QED
  BY <1>1, <1>2, PTL DEF Spec

(***************************************************************************)
(* The registry agrees with the life cycle of every actor.                 *)
(***************************************************************************)
THEOREM RegistryCorrect == Spec => []RegistryExact
<1>1. IInv => RegistryExact
  BY DEF IInv, ControlInv
<1> QED
  BY <1>1, Inductive, PTL

(***************************************************************************)
(* Whoever holds the registry across steps is in send or in the failure    *)
(* report, and keeps registered the actor it waits for.                    *)
(***************************************************************************)
THEOREM LockCorrect == Spec => []LockOwner
<1>1. IInv => LockOwner
  BY DEF IInv, ControlInv
<1> QED
  BY <1>1, Inductive, PTL

(***************************************************************************)
(* A watcher is told of a death at most once by the closure and once by    *)
(* drain_and_stop.                                                         *)
(***************************************************************************)
THEOREM DownCountCorrect == Spec => []DownCount
<1>1. IInv => DownCount
  <2> SUFFICES ASSUME IInv, NEW w \in Actors, NEW a \in Actors
               PROVE  TimesTold(w, a) <= IF draining[a] THEN 2 ELSE 1
    BY DEF DownCount
  <2>1. TimesTold(w, a) \in Nat /\ TimesTold(w, a) <= TellsMade(a)
    BY DEF IInv, TellInv
  <2> QED
    BY <2>1 DEF TellsMade
<1> QED
  BY <1>1, Inductive, PTL

(***************************************************************************)
(* Accepted user messages are handled once each, in order.                 *)
(***************************************************************************)
THEOREM MessagesCorrect == Spec => []ExactlyOnceInOrder
<1>1. IInv => ExactlyOnceInOrder
  BY DEF IInv, DataInv, DataFor, ExactlyOnceInOrder
<1> QED
  BY <1>1, Inductive, PTL

(***************************************************************************)
(* Nothing enters the mailbox of an actor that left the registry.          *)
(***************************************************************************)
THEOREM MailboxCloses == Spec => NothingAfterDeregistration
<1>1. IInv /\ [Next]_vars => [\A a \in Born \ registry : accepted'[a] = accepted[a]]_vars
  <2> SUFFICES ASSUME IInv, [Next]_vars, NEW b \in Born \ registry
               PROVE  accepted'[b] = accepted[b]
    OBVIOUS
  <2>0. TypeOK /\ ControlInv /\ b \in Actors
    BY DEF IInv, Born
  <2>1. ASSUME NEW a \in Actors, SendsTo(a)
        PROVE  accepted'[b] = accepted[b]
    BY <2>0, <2>1 DEF SendsTo, Put, TypeOK
  <2>2. ASSUME NEW a \in Actors, TellWatchers(a)
        PROVE  accepted'[b] = accepted[b]
    BY <2>0, <2>2 DEF TellWatchers, Told
  <2> QED
    BY <2>0, <2>1, <2>2, AcceptedStep
<1> QED
  BY <1>1, Inductive, PTL DEF Spec, NothingAfterDeregistration

(***************************************************************************)
(* Once an actor was announced down it accepts, handles and calls nothing. *)
(***************************************************************************)
THEOREM DownCorrect == Spec => DownIsFinal
<1>1. IInv /\ [Next]_vars =>
        [\A a \in Actors : Announced(a) =>
            /\ accepted'[a] = accepted[a]
            /\ delivered'[a] = delivered[a]
            /\ call'[a] = call[a]]_vars
  <2> SUFFICES ASSUME IInv, [Next]_vars, NEW b \in Actors, Announced(b)
               PROVE  accepted'[b] = accepted[b] /\ delivered'[b] = delivered[b] /\ call'[b] = call[b]
    OBVIOUS
  <2>0. TypeOK /\ ControlInv /\ phase[b] \in FinalPhases /\ ~HasRx(b)
    BY DEF IInv, DownInv, HasRx, FinalPhases, LivePhases, StoppingPhases
  <2>1. ASSUME NEW a \in Actors, SendsTo(a)
        PROVE  accepted'[b] = accepted[b]
    BY <2>0, <2>1 DEF SendsTo, Put, TypeOK
  <2>2. ASSUME NEW a \in Actors, TellWatchers(a)
        PROVE  accepted'[b] = accepted[b]
    BY <2>0, <2>2 DEF TellWatchers, Told
  <2> QED
    BY <2>0, <2>1, <2>2, AcceptedStep, FinalStays
<1> QED
  BY <1>1, Inductive, PTL DEF Spec, DownIsFinal
=============================================================================
