------------------------- MODULE TimerWheelProofs -------------------------
(***************************************************************************)
(* Proofs about TimerWheel, for every number of timers, callers, periods   *)
(* and every length of time: type correctness, and that a timer is in one  *)
(* place, never fires early or in a burst, at most once after it was       *)
(* cancelled, and not at all after a shutdown that joined the worker.      *)
(***************************************************************************)
EXTENDS TimerWheel, TLAPS

\* A caller about to push has an entry, and so has the worker from the pop
\* to the end of the send; outside of that neither has one.  The worker is
\* started by one caller.
Armed ==
    /\ wpc # "none" => "started" \in flags
    /\ \A c \in Callers : pc[c] = "spawning" =>
          wpc = "none" /\ "started" \in flags /\ \A d \in Callers : pc[d] = "spawning" => d = c
    /\ \A c \in Callers : IF pc[c] = "push" THEN new[c] \in Entry ELSE new[c] = NoEntry
    /\ IF wpc \in {"popped", "fire", "blocked", "sent"} THEN cur \in Entry ELSE cur = NoEntry

\* Type correctness: every step of a caller and of the worker keeps TypeOK.
LEMMA TypeStep == TypeOK /\ Armed /\ [Next]_vars => TypeOK'
<1> SUFFICES ASSUME TypeOK, Armed, [Next]_vars PROVE TypeOK'
  OBVIOUS
<1> USE TimerAssumption
<1>1. CASE UNCHANGED vars
  BY <1>1 DEF TypeOK, vars
<1>2. CASE Tick
  BY <1>2 DEF TypeOK, Tick, entries, timers, sends, control, caller, worker
<1>3. CASE Worker
  <2> USE DEF TypeOK, entries, timers, sends, control, caller, worker, Entry, NoEntry
  <2>1. CASE WorkerLooks
    BY <2>1 DEF WorkerLooks
  <2>2. CASE WorkerWakes
    BY <2>2 DEF WorkerWakes
  <2>3. CASE WorkerPops
    BY <2>3 DEF WorkerPops
  <2>4. CASE WorkerChecks
    BY <2>4 DEF WorkerChecks
  <2>5. CASE WorkerSends
    BY <2>5 DEF WorkerSends, Sent, Armed
  <2>6. CASE WorkerKeeps
    BY <2>6 DEF WorkerKeeps, Armed
  <2>7. CASE WorkerEndsPass
    BY <2>7 DEF WorkerEndsPass
  <2>8. CASE WorkerReschedules
    BY <2>8 DEF WorkerReschedules
  <2>9. CASE WorkerBlocks
    BY <2>9 DEF WorkerBlocks
  <2> QED
    BY <1>3, <2>1, <2>2, <2>3, <2>4, <2>5, <2>6, <2>7, <2>8, <2>9 DEF Worker
<1>4. ASSUME NEW c \in Callers,
             \/ EnsureWorker(c) \/ CallStep(c) \/ SetShutdown(c)
             \/ \E i \in Timers : Cancel(c, i) \/ TokenCancel(c, i)
      PROVE  TypeOK'
  <2> USE DEF TypeOK, entries, timers, sends, control, caller, worker, Entry, NoEntry, At, Go
  <2>1. CASE EnsureWorker(c)
    BY <2>1 DEF EnsureWorker
  <2>2. CASE SpawnWorker(c)
    BY <2>2 DEF SpawnWorker
  <2>3. CASE StoreHandle(c)
    BY <2>3 DEF StoreHandle
  <2>4. ASSUME NEW p \in Periods, NEW r \in BOOLEAN, Allocate(c, p, r) PROVE TypeOK'
    <3>1. nextId \in Timers /\ nextId' \in 1..(MaxTimers + 1) /\ p \in Nat
      BY <2>4 DEF Allocate, Timers
    <3>2. repeats' \subseteq Timers
      BY <2>4, <3>1 DEF Allocate
    <3>3. [id |-> nextId, at |-> clock + p] \in Entry
      BY <3>1
    <3> QED
      BY <2>4, <3>1, <3>2, <3>3 DEF Allocate
  <2>5. CASE Push(c)
    BY <2>5 DEF Push, Armed
  <2>6. CASE TakeHandle(c)
    BY <2>6 DEF TakeHandle
  <2>7. CASE Joined(c)
    BY <2>7 DEF Joined
  <2>8. CASE SetShutdown(c)
    BY <2>8 DEF SetShutdown
  <2>9. ASSUME NEW i \in Timers, Cancel(c, i) PROVE TypeOK'
    BY <2>9 DEF Cancel
  <2>10. ASSUME NEW i \in Timers, TokenCancel(c, i) PROVE TypeOK'
    BY <2>10 DEF TokenCancel
  <2> QED
    BY <1>4, <2>1, <2>2, <2>3, <2>4, <2>5, <2>6, <2>7, <2>8, <2>9, <2>10 DEF CallStep
<1>5. CASE WorkerUnblocked
  BY <1>5 DEF TypeOK, WorkerUnblocked, Sent, Armed, timers, control, caller, Entry, NoEntry
<1> QED
  BY <1>1, <1>2, <1>3, <1>4, <1>5 DEF Next

\* Every step keeps Armed.
LEMMA ArmedStep == TypeOK /\ Armed /\ [Next]_vars => Armed'
<1> SUFFICES ASSUME TypeOK, Armed, [Next]_vars PROVE Armed'
  OBVIOUS
<1> USE DEF Armed
<1>1. CASE UNCHANGED vars
  BY <1>1 DEF vars
<1>2. CASE Tick
  BY <1>2 DEF Tick, caller, worker, control
<1>3. CASE Worker \/ WorkerUnblocked
  BY <1>3 DEF TypeOK, Worker, WorkerLooks, WorkerWakes, WorkerPops, WorkerChecks,
              WorkerSends, WorkerBlocks, WorkerUnblocked, Sent, WorkerKeeps, WorkerEndsPass, WorkerReschedules, caller, control
<1>4. ASSUME NEW c \in Callers,
             \/ EnsureWorker(c) \/ SetShutdown(c) \/ StoreHandle(c)
             \/ Push(c) \/ TakeHandle(c) \/ Joined(c)
             \/ \E i \in Timers : Cancel(c, i) \/ TokenCancel(c, i)
      PROVE  Armed'
  BY <1>4 DEF TypeOK, EnsureWorker, SetShutdown, StoreHandle, Push, TakeHandle,
              Joined, Cancel, TokenCancel, At, Go, worker, caller, control
<1>5. ASSUME NEW c \in Callers, SpawnWorker(c) PROVE Armed'
  BY <1>5 DEF TypeOK, SpawnWorker, At, Go, control
<1>6. ASSUME NEW c \in Callers, NEW p \in Periods, NEW r \in BOOLEAN, Allocate(c, p, r)
      PROVE  Armed'
  BY <1>6, TimerAssumption DEF TypeOK, Allocate, At, Go, worker, control, Entry, Timers
<1> QED
  BY <1>1, <1>2, <1>3, <1>4, <1>5, <1>6 DEF Next, CallStep

\* TypeOK is an invariant of the timer wheel.
THEOREM TypeCorrect == Spec => []TypeOK
<1>1. Init => TypeOK /\ Armed
  BY TimerAssumption DEF Init, TypeOK, Armed, NoEntry, Entry, Timers
<1>2. TypeOK /\ Armed /\ [Next]_vars => (TypeOK /\ Armed)'
  BY TypeStep, ArmedStep
<1> QED
  BY <1>1, <1>2, PTL DEF Spec

-----------------------------------------------------------------------------
(***************************************************************************)
(* The inductive invariant.  Distinct: an id is in one place.  Timing: an  *)
(* entry that is not sent yet is due no earlier than the expiry after the  *)
(* sends made.  Late: a timer with a late send is nowhere any more.        *)
(***************************************************************************)
Stored == heap \cup later

Distinct ==
    /\ \A e, f \in Stored : e.id = f.id => e = f
    /\ heap \cap later = {}
    /\ \A e \in Stored : e.id # cur.id /\ e.id < nextId
    /\ cur.id < nextId
    /\ \A c \in Callers : pc[c] = "push" =>
          /\ new[c].id < nextId /\ new[c].id # cur.id
          /\ \A e \in Stored : e.id # new[c].id
          /\ \A d \in Callers : pc[d] = "push" /\ new[d].id = new[c].id => d = c

\* Entry e is not due before the next expiry of its timer.
Ahead(e) ==
    /\ Due(born[e.id], period[e.id], fired[e.id] + 1) <= e.at
    /\ e.id \notin repeats => fired[e.id] = 0

Timing ==
    /\ now <= clock
    /\ \A i \in Timers :
          /\ Due(born[i], period[i], fired[i]) <= clock
          /\ i \notin repeats => fired[i] <= 1
          /\ nextId <= i => fired[i] = 0
    /\ \A e \in Stored : Ahead(e)
    /\ \A c \in Callers : pc[c] = "push" => Ahead(new[c])
    /\ wpc \in {"popped", "fire", "blocked"} => Ahead(cur) /\ cur.at <= now
    /\ wpc = "sent" => Due(born[cur.id], period[cur.id], fired[cur.id]) <= now

Late ==
    /\ \A i \in Timers :
          /\ late[i] <= 1
          /\ late[i] > 0 => i \in cancelled
          /\ nextId <= i => late[i] = 0
          /\ asked[i] = "true" => i \in cancelled /\ late[i] = 0 /\ (wpc \in {"fire", "blocked"} => cur.id # i)
    /\ \A e \in Stored : late[e.id] = 0
    /\ \A c \in Callers : pc[c] = "push" => late[new[c].id] = 0
    /\ wpc \in {"popped", "fire", "blocked"} => late[cur.id] = 0

IInv == TypeOK /\ Armed /\ Distinct /\ Timing /\ Late

\* The next expiry is one period after the last.
LEMMA DueNext ==
    ASSUME NEW b \in Nat, NEW p \in Nat, NEW n \in Nat
    PROVE  /\ Due(b, p, n) \in Nat
           /\ Due(b, p, n + 1) = Due(b, p, n) + p
           /\ Due(b, p, 0) = b
<1>1. n * p \in Nat /\ (n + 1) * p = n * p + p /\ 0 * p = 0
  OBVIOUS
<1> QED
  BY <1>1 DEF Due

\* Every step keeps an id in one place.
LEMMA DistinctStep == TypeOK /\ Armed /\ Distinct /\ [Next]_vars => Distinct'
<1> SUFFICES ASSUME TypeOK, Armed, Distinct, [Next]_vars PROVE Distinct'
  OBVIOUS
<1> USE DEF Distinct, Stored
<1>a. \A e \in Entry : e.id \in Nat /\ e.id # 0
  BY TimerAssumption DEF Entry, Timers
<1>b. nextId \in Nat /\ 0 < nextId /\ NoEntry.id = 0
  BY TimerAssumption DEF TypeOK, NoEntry
<1>c. heap \subseteq Entry /\ later \subseteq Entry
  BY DEF TypeOK
<1>1. CASE UNCHANGED vars
  BY <1>1 DEF vars
<1>2. CASE Tick
  BY <1>2 DEF Tick, entries, timers, worker, caller
<1>3. CASE \/ WorkerLooks \/ WorkerWakes \/ WorkerSends \/ WorkerBlocks
           \/ WorkerUnblocked \/ WorkerEndsPass
  BY <1>3 DEF WorkerLooks, WorkerWakes, WorkerSends, WorkerBlocks, WorkerUnblocked, Sent,
              WorkerEndsPass, entries, timers, caller, TypeOK
<1>4. CASE WorkerPops
  BY <1>4 DEF WorkerPops, timers, caller, TypeOK, Armed, Entry, NoEntry
<1>5. CASE WorkerChecks
  <2>1. cur' = cur \/ cur' = NoEntry
    BY <1>5 DEF WorkerChecks
  <2>2. UNCHANGED <<heap, later, nextId, pc, new>>
    BY <1>5 DEF WorkerChecks, entries, timers, caller
  <2>3. \A c \in Callers : pc[c] = "push" => new[c] \in Entry
    BY DEF Armed
  <2> QED
    BY <2>1, <2>2, <2>3, <1>a, <1>b, <1>c
<1>6. CASE WorkerKeeps
  <2> DEFINE e0 == [id |-> cur.id, at |-> now + period[cur.id]]
  <2>1. cur \in Entry /\ cur' = NoEntry /\ (later' = later \cup {e0} \/ later' = later)
    BY <1>6 DEF WorkerKeeps, Armed
  <2>2. UNCHANGED <<heap, nextId, pc, new>>
    BY <1>6 DEF WorkerKeeps, entries, timers, caller
  <2>3. \A c \in Callers : pc[c] = "push" => new[c] \in Entry
    BY DEF Armed
  <2>4. e0.id = cur.id /\ cur.id # 0 /\ e0 \notin heap
    BY <2>1, <1>a
  <2> HIDE DEF e0
  <2> QED
    BY <2>1, <2>2, <2>3, <2>4, <1>a, <1>b, <1>c
<1>7. CASE WorkerReschedules
  BY <1>7 DEF WorkerReschedules, timers, caller
<1>8. ASSUME NEW c \in Callers,
             \/ EnsureWorker(c) \/ SetShutdown(c) \/ StoreHandle(c)
             \/ TakeHandle(c) \/ Joined(c) \/ SpawnWorker(c)
             \/ \E i \in Timers : Cancel(c, i) \/ TokenCancel(c, i)
      PROVE  Distinct'
  BY <1>8 DEF TypeOK, EnsureWorker, SetShutdown, StoreHandle, SpawnWorker, TakeHandle,
              Joined, Cancel, TokenCancel, At, Go, worker, caller, entries, timers
<1>9. ASSUME NEW c \in Callers, NEW p \in Periods, NEW r \in BOOLEAN, Allocate(c, p, r)
      PROVE  Distinct'
  <2> DEFINE e0 == [id |-> nextId, at |-> clock + p]
  <2>1. /\ new' = [new EXCEPT ![c] = e0] /\ pc' = [pc EXCEPT ![c] = "push"]
        /\ nextId' = nextId + 1
    BY <1>9 DEF Allocate, Go
  <2>2. UNCHANGED <<heap, later, cur>>
    BY <1>9 DEF Allocate, worker
  <2>3. e0.id = nextId
    OBVIOUS
  <2>4. cur.id < nextId /\ cur.id \in Nat
    BY <1>a, <1>b DEF TypeOK
  <2>5. \A d \in Callers : pc[d] = "push" => new[d] \in Entry
    BY DEF Armed
  <2>6. \A d \in Callers : /\ pc'[d] = (IF d = c THEN "push" ELSE pc[d])
                            /\ new'[d] = (IF d = c THEN e0 ELSE new[d])
    BY <2>1 DEF TypeOK
  <2> HIDE DEF e0
  <2> QED
    BY <2>1, <2>2, <2>3, <2>4, <2>5, <2>6, <1>a, <1>b, <1>c
<1>10. ASSUME NEW c \in Callers, Push(c) PROVE Distinct'
  BY <1>10 DEF TypeOK, Push, At, Go, worker, timers, Armed, Entry, NoEntry
<1> QED
  BY <1>1, <1>2, <1>3, <1>4, <1>5, <1>6, <1>7, <1>8, <1>9, <1>10 DEF Next, CallStep, Worker

\* Every step keeps Timing: a timer is never ahead of its schedule.
LEMMA TimingStep == TypeOK /\ Armed /\ Distinct /\ Timing /\ [Next]_vars => Timing'
<1> SUFFICES ASSUME TypeOK, Armed, Distinct, Timing, [Next]_vars PROVE Timing'
  OBVIOUS
<1> USE DEF Timing, Stored, Ahead
<1>a. \A e \in Entry : e.id \in Timers /\ e.id \in Nat /\ e.at \in Nat
  BY TimerAssumption DEF Entry, Timers
<1>b. Timers \subseteq Nat
  BY TimerAssumption DEF Timers
<1>c. heap \subseteq Entry /\ later \subseteq Entry
  BY DEF TypeOK
<1>d. \A i \in Timers : /\ born[i] \in Nat /\ period[i] \in Nat /\ fired[i] \in Nat
                        /\ Due(born[i], period[i], fired[i]) \in Nat
                        /\ Due(born[i], period[i], fired[i] + 1)
                             = Due(born[i], period[i], fired[i]) + period[i]
  <2>1. \A i \in Timers : born[i] \in Nat /\ period[i] \in Nat /\ fired[i] \in Nat
    BY DEF TypeOK
  <2> QED
    BY <2>1, DueNext
<1>e. clock \in Nat /\ now \in Nat /\ nextId \in Nat
  BY TimerAssumption DEF TypeOK
<1>f. \A c \in Callers : pc[c] = "push" => new[c] \in Entry
  BY DEF Armed
<1>1. CASE UNCHANGED vars
  BY <1>1 DEF vars
<1>2. CASE Tick
  <2>1. clock' \in Nat /\ clock <= clock'
    BY <1>2, <1>e DEF Tick
  <2>2. UNCHANGED <<heap, later, nextId, pc, new, born, period, repeats, fired, now, wpc, cur>>
    BY <1>2 DEF Tick, entries, timers, sends, worker, caller
  <2>3. \A i \in Timers : Due(born[i], period[i], fired[i]) <= clock'
    BY <2>1, <1>d, <1>e
  <2> QED
    BY <2>1, <2>2, <2>3, <1>e
<1>3. CASE WorkerLooks \/ WorkerWakes \/ WorkerBlocks \/ WorkerEndsPass
  BY <1>3, <1>e DEF WorkerLooks, WorkerWakes, WorkerBlocks, WorkerEndsPass, entries, timers, sends, caller
<1>4. CASE WorkerPops
  BY <1>4, <1>c DEF WorkerPops, timers, sends, caller
<1>5. CASE WorkerChecks
  BY <1>5 DEF WorkerChecks, entries, timers, sends, caller
<1>6. CASE WorkerSends \/ WorkerUnblocked
  <2>1. cur \in Entry /\ cur.id \in Timers /\ wpc \in {"fire", "blocked"} /\ wpc' = "sent"
    BY <1>6, <1>a DEF WorkerSends, WorkerUnblocked, Sent, Armed
  <2>2. UNCHANGED <<heap, later, nextId, pc, new, born, period, repeats, clock, now, cur>>
    BY <1>6 DEF WorkerSends, WorkerUnblocked, Sent, timers, caller
  <2>3. \A i \in Timers : fired'[i] = IF i = cur.id THEN fired[i] + 1 ELSE fired[i]
    BY <1>6, <2>1 DEF WorkerSends, WorkerUnblocked, Sent, TypeOK
  <2>4. cur.id < nextId /\ (\A e \in heap \cup later : e.id # cur.id)
        /\ \A c \in Callers : pc[c] = "push" => new[c].id # cur.id
    BY DEF Distinct
  <2>5. \A i \in Timers : i # cur.id => fired'[i] = fired[i]
    BY <2>3
  <2>a. Ahead(cur) /\ cur.at <= now
    BY <2>1
  <2>6. \A i \in Timers : /\ Due(born[i], period[i], fired'[i]) <= clock
                          /\ i \notin repeats => fired'[i] <= 1
                          /\ nextId <= i => fired'[i] = 0
    BY <2>1, <2>3, <2>4, <2>a, <1>a, <1>b, <1>d, <1>e
  <2>7. \A e \in heap \cup later : Ahead(e)'
    BY <2>2, <2>4, <2>5, <1>a, <1>c
  <2>8. \A c \in Callers : pc[c] = "push" => Ahead(new[c])'
    BY <2>2, <2>4, <2>5, <1>a, <1>f
  <2>9. Due(born[cur.id], period[cur.id], fired'[cur.id]) <= now
    BY <2>1, <2>3, <2>a, <1>a, <1>d, <1>e
  <2> QED
    BY <2>1, <2>2, <2>6, <2>7, <2>8, <2>9
<1>7. CASE WorkerKeeps
  <2> DEFINE e0 == [id |-> cur.id, at |-> now + period[cur.id]]
  <2>1. cur \in Entry /\ wpc = "sent" /\ wpc' = "pass"
        /\ ((later' = later \cup {e0} /\ cur.id \in repeats) \/ later' = later)
    BY <1>7 DEF WorkerKeeps, Armed
  <2>2. UNCHANGED <<heap, nextId, pc, new, born, period, repeats, fired, clock, now>>
    BY <1>7 DEF WorkerKeeps, entries, timers, sends, caller
  <2>3. e0.id = cur.id /\ e0.at = now + period[cur.id]
    OBVIOUS
  <2>4. Due(born[cur.id], period[cur.id], fired[cur.id] + 1) <= e0.at
    BY <2>1, <2>3, <1>a, <1>d, <1>e
  <2> HIDE DEF e0
  <2> QED
    BY <2>1, <2>2, <2>3, <2>4
<1>8. CASE WorkerReschedules
  BY <1>8 DEF WorkerReschedules, timers, sends, caller
<1>9. ASSUME NEW c \in Callers,
             \/ EnsureWorker(c) \/ SetShutdown(c) \/ StoreHandle(c)
             \/ TakeHandle(c) \/ Joined(c) \/ SpawnWorker(c)
             \/ \E i \in Timers : Cancel(c, i) \/ TokenCancel(c, i)
      PROVE  Timing'
  BY <1>9 DEF TypeOK, EnsureWorker, SetShutdown, StoreHandle, SpawnWorker, TakeHandle,
              Joined, Cancel, TokenCancel, At, Go, worker, caller, entries, timers, sends
<1>10. ASSUME NEW c \in Callers, NEW p \in Periods, NEW r \in BOOLEAN, Allocate(c, p, r)
       PROVE  Timing'
  <2> DEFINE e0 == [id |-> nextId, at |-> clock + p]
  <2>1. nextId \in Timers /\ p \in Nat /\ nextId' = nextId + 1
    BY <1>10, TimerAssumption DEF Allocate, Timers, TypeOK
  <2>2. UNCHANGED <<heap, later, fired, clock, now, wpc, cur>>
    BY <1>10 DEF Allocate, worker, sends
  <2>3. \A i \in Timers : /\ born'[i] = (IF i = nextId THEN clock ELSE born[i])
                          /\ period'[i] = (IF i = nextId THEN p ELSE period[i])
                          /\ i # nextId => (i \in repeats' <=> i \in repeats)
    BY <1>10, <2>1 DEF Allocate, TypeOK
  <2>4. \A d \in Callers : /\ pc'[d] = (IF d = c THEN "push" ELSE pc[d])
                           /\ new'[d] = (IF d = c THEN e0 ELSE new[d])
    BY <1>10 DEF Allocate, Go, TypeOK
  <2>5. fired[nextId] = 0 /\ Due(clock, p, 0) = clock /\ Due(clock, p, 0 + 1) = clock + p
    BY <2>1, <1>e, DueNext
  <2>6. /\ cur.id # nextId
        /\ \A e \in heap \cup later : e.id # nextId
        /\ \A d \in Callers : pc[d] = "push" => new[d].id # nextId
    BY <1>a, <1>c, <1>e, <1>f DEF Distinct
  <2>7. \A i \in Timers : /\ Due(born'[i], period'[i], fired[i]) <= clock
                          /\ i \notin repeats' => fired[i] <= 1
                          /\ nextId' <= i => fired[i] = 0
    BY <2>1, <2>3, <2>5, <1>b, <1>d, <1>e
  <2>8. \A e \in heap \cup later : Ahead(e)'
    BY <2>2, <2>3, <2>6, <1>a, <1>c
  <2>9. /\ Due(born'[e0.id], period'[e0.id], fired'[e0.id] + 1) <= e0.at
        /\ e0.id \notin repeats' => fired'[e0.id] = 0
    <3>1. fired'[nextId] = 0 /\ born'[nextId] = clock /\ period'[nextId] = p
      BY <2>1, <2>2, <2>3, <2>5
    <3>2. e0.id = nextId /\ e0.at = clock + p /\ clock + p \in Nat
      BY <2>1, <1>e
    <3> QED
      BY <3>1, <3>2, <2>5
  <2> HIDE DEF e0
  <2>10. \A d \in Callers : pc'[d] = "push" => Ahead(new[d])'
    <3> SUFFICES ASSUME NEW d \in Callers, pc'[d] = "push" PROVE Ahead(new[d])'
      OBVIOUS
    <3>1. CASE d = c
      BY <3>1, <2>4, <2>9
    <3>2. CASE d # c
      <4>1. new'[d] = new[d] /\ new[d] \in Entry /\ new[d].id # nextId /\ Ahead(new[d])
        BY <3>2, <2>4, <2>6, <1>f
      <4> QED
        BY <4>1, <2>2, <2>3, <1>a
    <3> QED
      BY <3>1, <3>2
  <2>11. wpc \in {"popped", "fire", "blocked", "sent"} => cur \in Entry
    BY DEF Armed
  <2> QED
    BY <2>2, <2>3, <2>6, <2>7, <2>8, <2>10, <2>11, <1>a
<1>11. ASSUME NEW c \in Callers, Push(c) PROVE Timing'
  BY <1>11 DEF TypeOK, Push, At, Go, worker, timers, sends
<1> QED
  BY <1>1, <1>2, <1>3, <1>4, <1>5, <1>6, <1>7, <1>8, <1>9, <1>10, <1>11
     DEF Next, CallStep, Worker

\* Every step keeps Late: a timer sent after its cancellation is gone.
LEMMA LateStep == TypeOK /\ Armed /\ Distinct /\ Late /\ [Next]_vars => Late'
<1> SUFFICES ASSUME TypeOK, Armed, Distinct, Late, [Next]_vars PROVE Late'
  OBVIOUS
<1> USE DEF Late, Stored
<1>a. \A e \in Entry : e.id \in Timers
  BY DEF Entry
<1>b. Timers \subseteq Nat /\ nextId \in Nat
  BY TimerAssumption DEF Timers, TypeOK
<1>c. heap \subseteq Entry /\ later \subseteq Entry
  BY DEF TypeOK
<1>d. \A c \in Callers : pc[c] = "push" => new[c] \in Entry
  BY DEF Armed
<1>e. \A i \in Timers : late[i] \in Nat
  BY DEF TypeOK
<1>1. CASE UNCHANGED vars
  BY <1>1 DEF vars
<1>2. CASE Tick
  BY <1>2 DEF Tick, entries, timers, sends, worker, caller
<1>3. CASE WorkerLooks \/ WorkerWakes \/ WorkerBlocks \/ WorkerEndsPass
  BY <1>3 DEF WorkerLooks, WorkerWakes, WorkerBlocks, WorkerEndsPass, entries, timers, sends, caller
<1>4. CASE WorkerPops
  BY <1>4 DEF WorkerPops, timers, sends, caller
<1>5. CASE WorkerChecks
  BY <1>5 DEF WorkerChecks, entries, timers, sends, caller
<1>6. CASE WorkerSends \/ WorkerUnblocked
  <2>1. cur \in Entry /\ cur.id \in Timers /\ wpc \in {"fire", "blocked"} /\ wpc' = "sent"
    BY <1>6, <1>a DEF WorkerSends, WorkerUnblocked, Sent, Armed
  <2>2. UNCHANGED <<heap, later, nextId, pc, new, cancelled, asked, cur>>
    BY <1>6 DEF WorkerSends, WorkerUnblocked, Sent, timers, caller
  <2>3. \A i \in Timers :
            late'[i] = IF i = cur.id /\ i \in cancelled THEN late[i] + 1 ELSE late[i]
    BY <1>6, <2>1 DEF WorkerSends, WorkerUnblocked, Sent, TypeOK
  <2>4. cur.id < nextId /\ (\A e \in heap \cup later : e.id # cur.id)
        /\ \A c \in Callers : pc[c] = "push" => new[c].id # cur.id
    BY DEF Distinct
  <2>5. \A i \in Timers : /\ late'[i] <= 1
                          /\ late'[i] > 0 => i \in cancelled
                          /\ nextId <= i => late'[i] = 0
                          /\ asked[i] = "true" => late'[i] = 0
    BY <2>1, <2>3, <2>4, <1>b, <1>e
  <2>6. \A i \in Timers : i # cur.id => late'[i] = late[i]
    BY <2>3
  <2> QED
    BY <2>1, <2>2, <2>4, <2>5, <2>6, <1>a, <1>c, <1>d
<1>7. CASE WorkerKeeps
  <2> DEFINE e0 == [id |-> cur.id, at |-> now + period[cur.id]]
  <2>1. cur \in Entry /\ wpc' = "pass"
        /\ ((later' = later \cup {e0} /\ cur.id \notin cancelled) \/ later' = later)
    BY <1>7 DEF WorkerKeeps, Armed
  <2>2. UNCHANGED <<heap, nextId, pc, new, cancelled, asked, late>>
    BY <1>7 DEF WorkerKeeps, entries, timers, sends, caller
  <2>3. e0.id = cur.id
    OBVIOUS
  <2>4. cur.id \notin cancelled => late[cur.id] = 0
    BY <2>1, <1>a, <1>e
  <2> HIDE DEF e0
  <2> QED
    BY <2>1, <2>2, <2>3, <2>4
<1>8. CASE WorkerReschedules
  BY <1>8 DEF WorkerReschedules, timers, sends, caller
<1>9. ASSUME NEW c \in Callers,
             \/ EnsureWorker(c) \/ SetShutdown(c) \/ StoreHandle(c)
             \/ TakeHandle(c) \/ Joined(c) \/ SpawnWorker(c)
      PROVE  Late'
  BY <1>9 DEF TypeOK, EnsureWorker, SetShutdown, StoreHandle, SpawnWorker, TakeHandle,
              Joined, At, Go, worker, caller, entries, timers, sends
<1>10. ASSUME NEW c \in Callers, NEW i \in Timers, Cancel(c, i) PROVE Late'
  <2>1. UNCHANGED <<heap, later, nextId, pc, new, late, wpc, cur>>
    BY <1>10 DEF Cancel, timers, sends, caller, worker
  <2>2. \A j \in Timers : asked'[j] = IF j # i THEN asked[j]
          ELSE IF asked[j] = "true" \/ cancelled' # cancelled THEN "true" ELSE "false"
    BY <1>10 DEF Cancel, TypeOK
  <2>3. cancelled \subseteq cancelled'
    BY <1>10 DEF Cancel
  <2>4. cancelled' # cancelled => /\ i \in cancelled' /\ late[i] = 0
                                  /\ cur.id # i
    BY <1>10 DEF Cancel, Distinct
  <2> QED
    BY <2>1, <2>2, <2>3, <2>4
<1>11. ASSUME NEW c \in Callers, NEW i \in Timers, TokenCancel(c, i) PROVE Late'
  BY <1>11 DEF TokenCancel, timers, sends, caller, worker
<1>12. ASSUME NEW c \in Callers, NEW p \in Periods, NEW r \in BOOLEAN, Allocate(c, p, r)
       PROVE  Late'
  <2> DEFINE e0 == [id |-> nextId, at |-> clock + p]
  <2>1. nextId \in Timers /\ nextId' = nextId + 1
    BY <1>12, TimerAssumption DEF Allocate, Timers, TypeOK
  <2>2. UNCHANGED <<heap, later, cancelled, asked, late, wpc, cur>>
    BY <1>12 DEF Allocate, worker, sends
  <2>3. \A d \in Callers : /\ pc'[d] = (IF d = c THEN "push" ELSE pc[d])
                           /\ new'[d] = (IF d = c THEN e0 ELSE new[d])
    BY <1>12 DEF Allocate, Go, TypeOK
  <2>4. e0.id = nextId /\ late[nextId] = 0
    BY <2>1, <1>b
  <2> HIDE DEF e0
  <2>5. \A i \in Timers : nextId' <= i => late[i] = 0
    <3> SUFFICES ASSUME NEW i \in Timers, nextId' <= i PROVE late[i] = 0
      OBVIOUS
    <3>1. nextId <= i
      BY <2>1, <1>b
    <3> QED
      BY <3>1
  <2>6. \A d \in Callers : pc'[d] = "push" => late[new'[d].id] = 0
    BY <2>3, <2>4
  <2> QED
    BY <2>2, <2>5, <2>6
<1>13. ASSUME NEW c \in Callers, Push(c) PROVE Late'
  BY <1>13 DEF TypeOK, Push, At, Go, worker, timers, sends
<1> QED
  BY <1>1, <1>2, <1>3, <1>4, <1>5, <1>6, <1>7, <1>8, <1>9, <1>10, <1>11, <1>12, <1>13
     DEF Next, CallStep, Worker

\* IInv holds at first and is kept by every step.
LEMMA Inductive == Spec => []IInv
<1>1. Init => IInv
  <2> SUFFICES ASSUME Init PROVE IInv
    OBVIOUS
  <2>1. TypeOK /\ Armed
    BY TimerAssumption DEF Init, TypeOK, Armed, NoEntry, Entry, Timers
  <2>2. Distinct
    BY DEF Init, Distinct, Stored, NoEntry
  <2>3. Timing
    <3>1. \A i \in Timers : Due(0, 0, 0) <= 0
      BY DueNext
    <3> QED
      BY <3>1 DEF Init, Timing, Stored
  <2>4. Late
    BY DEF Init, Late, Stored
  <2> QED
    BY <2>1, <2>2, <2>3, <2>4 DEF IInv
<1>2. IInv /\ [Next]_vars => IInv'
  BY TypeStep, ArmedStep, DistinctStep, TimingStep, LateStep DEF IInv
<1> QED
  BY <1>1, <1>2, PTL DEF Spec

\* A timer is in one place at a time: an expiry is sent once.
THEOREM OnePlaceCorrect == Spec => []OnePlace
<1>1. IInv => OnePlace
  <2> SUFFICES ASSUME IInv, NEW i \in Timers
               PROVE  /\ \A x, y \in Places(i) : x = y
                      /\ i \notin repeats /\ fired[i] > 0 => fired[i] = 1
    BY DEF OnePlace
  <2>1. i \notin repeats /\ fired[i] > 0 => fired[i] = 1
    BY DEF IInv, Timing, TypeOK
  <2>2. i # 0 /\ NoEntry.id = 0
    BY TimerAssumption DEF Timers, NoEntry
  <2>3. \A c \in Callers : new[c].id = i => pc[c] = "push"
    BY <2>2 DEF IInv, Armed
  <2>4. \A x, y \in Places(i) : x = y
    BY <2>3 DEF IInv, Distinct, Stored, Places
  <2> QED
    BY <2>1, <2>4
<1> QED
  BY <1>1, Inductive, PTL

\* No timer fires early, and none catches up in a burst.
THEOREM NoBurstCorrect == Spec => []NoBurst
<1>1. IInv => NoBurst
  BY DEF IInv, Timing, NoBurst
<1> QED
  BY <1>1, Inductive, PTL

\* A cancelled timer is sent at most once more, and not at all when cancel
\* found it.
THEOREM CancelCorrect == Spec => []AtMostOneMore
<1>1. IInv => AtMostOneMore
  BY DEF IInv, Late, AtMostOneMore, TypeOK
<1> QED
  BY <1>1, Inductive, PTL

-----------------------------------------------------------------------------
(***************************************************************************)
(* Shutdown.  A worker that runs can still be joined: its handle is        *)
(* stored, is about to be stored by the caller that spawned it, or is in   *)
(* the hands of a shutdown that waits for the worker's end.                *)
(***************************************************************************)
Joinable ==
    wpc \notin {"none", "ended"} =>
        "handle" \in flags \/ \E c \in Callers : pc[c] \in {"storing", "join"}

\* Every step keeps the running worker joinable: spawn, store and take pass
\* the handle on, and a join returns only at the worker's end.
LEMMA JoinableStep == TypeOK /\ Joinable /\ [Next]_vars => Joinable'
<1> SUFFICES ASSUME TypeOK, Joinable, [Next]_vars PROVE Joinable'
  OBVIOUS
<1>0. pc \in [Callers -> {"idle", "spawning", "storing", "alloc", "push", "take", "join"}]
  BY DEF TypeOK
<1>1. CASE UNCHANGED vars
  BY <1>1 DEF vars, Joinable
<1>2. CASE Tick
  BY <1>2 DEF Tick, caller, worker, control, Joinable
<1>3. CASE Worker \/ WorkerUnblocked
  <2>1. UNCHANGED <<pc, flags>> /\ wpc \notin {"none", "ended"}
    BY <1>3 DEF Worker, WorkerLooks, WorkerWakes, WorkerPops, WorkerChecks, WorkerSends,
                WorkerBlocks, WorkerUnblocked, Sent, WorkerKeeps, WorkerEndsPass, WorkerReschedules, caller, control
  <2> QED
    BY <2>1 DEF Joinable
<1>4. ASSUME NEW c \in Callers, SpawnWorker(c) PROVE Joinable'
  BY <1>0, <1>4 DEF SpawnWorker, At, Go, Joinable
<1>5. ASSUME NEW c \in Callers, StoreHandle(c) PROVE Joinable'
  BY <1>0, <1>5 DEF StoreHandle, At, Go, Joinable
<1>6. ASSUME NEW c \in Callers, TakeHandle(c) PROVE Joinable'
  <2>1. wpc' = wpc /\ pc[c] = "take"
    BY <1>6 DEF TakeHandle, worker, At
  <2>2. CASE "handle" \in flags
    <3>1. pc'[c] = "join"
      BY <1>0, <1>6, <2>2 DEF TakeHandle, Go
    <3> QED
      BY <3>1 DEF Joinable
  <2>3. CASE "handle" \notin flags
    <3>1. \A d \in Callers : pc[d] \in {"storing", "join"} => pc'[d] = pc[d]
      BY <1>0, <1>6, <2>1 DEF TakeHandle, Go
    <3> QED
      BY <2>1, <2>3, <3>1 DEF Joinable
  <2> QED
    BY <2>2, <2>3
<1>7. ASSUME NEW c \in Callers, Joined(c) PROVE Joinable'
  BY <1>7 DEF Joined, worker, Joinable
<1>8. ASSUME NEW c \in Callers,
             \/ EnsureWorker(c) \/ SetShutdown(c) \/ Push(c)
             \/ \E p \in Periods, r \in BOOLEAN : Allocate(c, p, r)
             \/ \E i \in Timers : Cancel(c, i) \/ TokenCancel(c, i)
      PROVE  Joinable'
  <2>1. wpc' = wpc /\ flags \subseteq flags'
    BY <1>8 DEF EnsureWorker, SetShutdown, Push, Allocate, Cancel, TokenCancel, worker, control
  <2>2. \A d \in Callers : pc[d] \in {"storing", "join"} => pc'[d] = pc[d]
    BY <1>0, <1>8 DEF EnsureWorker, SetShutdown, Push, Allocate, Cancel, TokenCancel,
                      caller, At, Go
  <2> QED
    BY <2>1, <2>2 DEF Joinable
<1> QED
  BY <1>1, <1>2, <1>3, <1>4, <1>5, <1>6, <1>7, <1>8 DEF Next, CallStep

\* Once the shutdown that took the worker's handle has returned, nothing is
\* sent any more.
THEOREM QuietCorrect == Spec => QuietAfterShutdown
<1>1. Init => Joinable
  BY DEF Init, Joinable
<1>2. TypeOK /\ Joinable /\ [Next]_vars =>
        [/\ "shutdown" \in flags /\ "handle" \notin flags
         /\ \A c \in Callers : pc[c] \notin {"spawning", "storing", "take", "join"}
         => fired' = fired]_vars
  <2> SUFFICES ASSUME Joinable, Next, "handle" \notin flags,
                      \A c \in Callers : pc[c] \notin {"spawning", "storing", "take", "join"}
               PROVE  fired' = fired
    OBVIOUS
  <2>1. wpc # "fire" /\ wpc # "blocked"
    BY DEF Joinable
  <2>2. ~WorkerSends /\ ~WorkerUnblocked
    BY <2>1 DEF WorkerSends, WorkerUnblocked
  <2>3. CASE Tick
    BY <2>3 DEF Tick, entries, sends
  <2>4. CASE Worker
    BY <2>2, <2>4 DEF Worker, WorkerLooks, WorkerWakes, WorkerPops, WorkerChecks,
                      WorkerBlocks, WorkerKeeps, WorkerEndsPass, WorkerReschedules,
                      entries, sends
  <2>5. ASSUME NEW c \in Callers,
               \/ EnsureWorker(c) \/ CallStep(c) \/ SetShutdown(c)
               \/ \E i \in Timers : Cancel(c, i) \/ TokenCancel(c, i)
        PROVE  fired' = fired
    BY <2>5 DEF CallStep, EnsureWorker, SpawnWorker, StoreHandle, Allocate, Push, Cancel,
                TokenCancel, SetShutdown, TakeHandle, Joined, entries, sends
  <2> QED
    BY <2>2, <2>3, <2>4, <2>5 DEF Next
<1> QED
  BY <1>1, <1>2, TypeCorrect, JoinableStep, PTL DEF Spec, QuietAfterShutdown

=============================================================================
