---------------------------- MODULE TimerWheel ----------------------------
(***************************************************************************)
(* The timers of the actor runtime (TimerWheel in runtime/src/actor.rs):   *)
(* a heap behind a mutex, shared by the threads that create and cancel     *)
(* timers and by one worker thread, started on the first use, that sleeps, *)
(* pops what is due and sends it.  A repeating timer is out of the heap    *)
(* while it fires and goes back at the end of the pass.                    *)
(*                                                                         *)
(* The send waits while the target's mailbox is full, or while another     *)
(* sender waits for room with the registry locked: here it may block at    *)
(* any time and for ever.  Who makes room is in ActorSystem.               *)
(* fired, late, asked and born are history variables.                      *)
(***************************************************************************)
EXTENDS Naturals, FiniteSets

CONSTANTS
    MaxTimers,   \* bound on the timers created
    Callers,     \* threads that use the wheel
    NoCaller,    \* nobody holds worker_handle
    Periods,     \* delays and repeat intervals, in ticks
    Poll,        \* longest sleep of the worker (100 ms), in ticks
    MaxTime      \* bound on the clock

ASSUME TimerAssumption ==
    /\ MaxTimers \in Nat /\ MaxTime \in Nat /\ Poll \in Nat
    /\ Periods \subseteq Nat
    /\ NoCaller \notin Callers

Timers == 1..MaxTimers

\* An entry of the heap: which timer, and when it is due.
Entry   == [id : Timers, at : Nat]
NoEntry == [id |-> 0, at |-> 0]

VARIABLES
    clock,      \* Instant::now()
    heap,       \* TimerWheel.timers
    cancelled,  \* timers whose flag, shared with the TimerToken, is set
    period,     \* delay or repeat_interval
    repeats,    \* timers whose repeat_interval is Some
    nextId,     \* next_id
    flags,      \* which hold: worker_started, shutdown, worker_handle is Some
    handleLock, \* who holds the worker_handle mutex across steps
    pc,         \* where each calling thread is
    new,        \* the entry each calling thread is about to push
    wpc,        \* where the worker is
    wake,       \* when its sleep ends (0 outside a sleep)
    now,        \* Instant::now() at the start of the pass (0 outside a pass)
    cur,        \* the entry it popped
    later,      \* to_reschedule
    fired,      \* history: sends made for each timer
    late,       \* history: sends made after the timer was cancelled
    asked,      \* history: what TimerWheel::cancel answered for the timer
    born        \* history: when fire_at was first computed

vars == <<clock, heap, cancelled, period, repeats, nextId, flags, handleLock,
          pc, new, wpc, wake, now, cur, later, fired, late, asked, born>>

timers  == <<period, repeats, nextId, born>>
sends   == <<fired, late>>
entries == <<heap, cancelled, asked, timers, sends>>
control == <<flags, handleLock>>
caller  == <<pc, new>>
worker  == <<wpc, wake, now, cur, later>>

TypeOK ==
    /\ clock \in Nat
    /\ heap \subseteq Entry
    /\ cancelled \subseteq Timers
    /\ period \in [Timers -> Nat]
    /\ repeats \subseteq Timers
    /\ nextId \in 1..(MaxTimers + 1)
    /\ flags \subseteq {"started", "shutdown", "handle"}
    /\ handleLock \in Callers \cup {NoCaller}
    /\ pc \in [Callers -> {"idle", "spawning", "storing", "alloc", "push", "take", "join"}]
    /\ new \in [Callers -> Entry \cup {NoEntry}]
    /\ wpc \in {"none", "top", "sleep", "pass", "popped", "fire", "blocked",
               "sent", "push", "ended"}
    /\ wake \in Nat /\ now \in Nat
    /\ cur \in Entry \cup {NoEntry}
    /\ later \subseteq Entry
    /\ fired \in [Timers -> Nat]
    /\ late \in [Timers -> Nat]
    /\ asked \in [Timers -> {"never", "false", "true"}]
    /\ born \in [Timers -> Nat]

Init ==
    /\ clock = 0
    /\ heap = {}
    /\ cancelled = {}
    /\ period = [i \in Timers |-> 0]
    /\ repeats = {}
    /\ nextId = 1
    /\ flags = {}
    /\ handleLock = NoCaller
    /\ pc = [c \in Callers |-> "idle"]
    /\ new = [c \in Callers |-> NoEntry]
    /\ wpc = "none" /\ wake = 0 /\ now = 0 /\ cur = NoEntry /\ later = {}
    /\ fired = [i \in Timers |-> 0]
    /\ late = [i \in Timers |-> 0]
    /\ asked = [i \in Timers |-> "never"]
    /\ born = [i \in Timers |-> 0]

Tick ==
    /\ clock < MaxTime
    /\ clock' = clock + 1
    /\ UNCHANGED <<entries, control, caller, worker>>

(***************************************************************************)
(* send_after and schedule_repeat: ensure_worker, then allocate the id and *)
(* compute fire_at, then push the entry.                                   *)
(***************************************************************************)
At(c, p) == pc[c] = p
Go(c, p) == pc' = [pc EXCEPT ![c] = p]

\* Calls that will still allocate an id.
Creating == {c \in Callers : pc[c] \in {"spawning", "storing", "alloc"}}

\* worker_started.swap(true): only the first caller starts the thread.
EnsureWorker(c) ==
    /\ At(c, "idle") /\ nextId + Cardinality(Creating) <= MaxTimers
    /\ Go(c, IF "started" \in flags THEN "alloc" ELSE "spawning")
    /\ flags' = flags \cup {"started"}
    /\ UNCHANGED <<clock, entries, handleLock, new, worker>>

SpawnWorker(c) ==
    /\ At(c, "spawning")
    /\ wpc' = "top"
    /\ Go(c, "storing")
    /\ UNCHANGED <<clock, entries, control, new, wake, now, cur, later>>

StoreHandle(c) ==
    /\ At(c, "storing") /\ handleLock = NoCaller
    /\ flags' = flags \cup {"handle"}
    /\ Go(c, "alloc")
    /\ UNCHANGED <<clock, entries, handleLock, new, worker>>

\* Mutant of Allocate: the delay is subtracted.
AllocateBackwards(c, p, r) ==
    /\ At(c, "alloc") /\ nextId <= MaxTimers
    /\ r => p > 0
    /\ nextId' = nextId + 1
    /\ period' = [period EXCEPT ![nextId] = p]
    /\ repeats' = IF r THEN repeats \cup {nextId} ELSE repeats
    /\ born' = [born EXCEPT ![nextId] = clock]
    /\ new' = [new EXCEPT ![c] = [id |-> nextId, at |-> clock - p]]
    /\ Go(c, "push")
    /\ UNCHANGED <<clock, heap, cancelled, asked, sends, control, worker>>

Allocate(c, p, r) ==
    /\ At(c, "alloc") /\ nextId <= MaxTimers
    /\ r => p > 0
    /\ nextId' = nextId + 1
    /\ period' = [period EXCEPT ![nextId] = p]
    /\ repeats' = IF r THEN repeats \cup {nextId} ELSE repeats
    /\ born' = [born EXCEPT ![nextId] = clock]
    /\ new' = [new EXCEPT ![c] = [id |-> nextId, at |-> clock + p]]
    /\ Go(c, "push")
    /\ UNCHANGED <<clock, heap, cancelled, asked, sends, control, worker>>

Push(c) ==
    /\ At(c, "push")
    /\ heap' = heap \cup {new[c]}
    /\ new' = [new EXCEPT ![c] = NoEntry]
    /\ Go(c, "idle")
    /\ UNCHANGED <<clock, cancelled, asked, timers, sends, control, worker>>

\* The timer has been returned to its creator.
Known(i) == i < nextId /\ \A c \in Callers : new[c].id # i

\* TimerWheel::cancel(id) looks for the entry in the heap and nowhere else.
Cancel(c, i) ==
    /\ At(c, "idle")
    /\ Known(i)
    /\ cancelled' = cancelled \cup {e.id : e \in {f \in heap : f.id = i}}
    /\ asked' = [asked EXCEPT ![i] =
           IF @ = "true" \/ cancelled' # cancelled THEN "true" ELSE "false"]
    /\ UNCHANGED <<clock, heap, timers, sends, control, caller, worker>>

\* TimerToken::cancel, by a caller that was given the token.
TokenCancel(c, i) ==
    /\ At(c, "idle")
    /\ Known(i)
    /\ cancelled' = cancelled \cup {i}
    /\ UNCHANGED <<clock, heap, asked, timers, sends, control, caller, worker>>

(***************************************************************************)
(* shutdown sets the flag and, with worker_handle locked, joins the worker *)
(* if there is a handle.                                                   *)
(***************************************************************************)
SetShutdown(c) ==
    /\ At(c, "idle")
    /\ flags' = flags \cup {"shutdown"}
    /\ Go(c, "take")
    /\ UNCHANGED <<clock, entries, handleLock, new, worker>>

\* Mutant of TakeHandle: the handle is dropped instead of joined.
TakeHandleDetaches(c) ==
    /\ At(c, "take") /\ handleLock = NoCaller
    /\ flags' = flags \ {"handle"}
    /\ Go(c, "idle")
    /\ UNCHANGED <<clock, entries, handleLock, new, worker>>

TakeHandle(c) ==
    /\ At(c, "take") /\ handleLock = NoCaller
    /\ flags' = flags \ {"handle"}
    /\ handleLock' = IF "handle" \in flags THEN c ELSE NoCaller
    /\ Go(c, IF "handle" \in flags THEN "join" ELSE "idle")
    /\ UNCHANGED <<clock, entries, new, worker>>

Joined(c) ==
    /\ At(c, "join") /\ wpc = "ended"
    /\ handleLock' = NoCaller
    /\ Go(c, "idle")
    /\ UNCHANGED <<clock, entries, flags, new, worker>>

(***************************************************************************)
(* The worker thread.                                                      *)
(***************************************************************************)

\* The order of the heap: fire_at, then id.
First(e) == \A f \in heap : e.at < f.at \/ (e.at = f.at /\ e.id <= f.id)

\* The worker sleeps until the first entry is due, at most Poll.
SleepUntil(t) ==
    /\ \A e \in heap : t <= e.at \/ t = clock
    /\ t = clock + Poll \/ \E e \in heap : e.at <= t

\* Mutant of WorkerLooks: the shutdown flag is not read.
WorkerNeverEnds ==
    /\ wpc = "top"
    /\ wpc' = "sleep"
    /\ \E t \in clock..(clock + Poll) : SleepUntil(t) /\ wake' = t
    /\ UNCHANGED <<clock, entries, control, caller, now, cur, later>>

WorkerLooks ==
    /\ wpc = "top"
    /\ IF "shutdown" \in flags
         THEN wpc' = "ended" /\ UNCHANGED wake
         ELSE /\ wpc' = "sleep"
              /\ \E t \in clock..(clock + Poll) : SleepUntil(t) /\ wake' = t
    /\ UNCHANGED <<clock, entries, control, caller, now, cur, later>>

\* At MaxTime, where the clock stops, the sleep ends too.
WorkerWakes ==
    /\ wpc = "sleep" /\ (clock >= wake \/ clock >= MaxTime)
    /\ wpc' = "pass"
    /\ now' = clock
    /\ wake' = 0
    /\ UNCHANGED <<clock, entries, control, caller, cur, later>>

\* Mutant of WorkerPops: the first entry is popped whether or not it is due.
WorkerPopsEarly ==
    /\ wpc = "pass"
    /\ \E e \in heap : First(e) /\ heap' = heap \ {e} /\ cur' = e
    /\ wpc' = "popped"
    /\ UNCHANGED <<clock, cancelled, asked, timers, sends, control, caller, wake,
                   now, later>>

WorkerPops ==
    /\ wpc = "pass"
    /\ \E e \in heap :
         /\ First(e) /\ e.at <= now
         /\ heap' = heap \ {e}
         /\ cur' = e
    /\ wpc' = "popped"
    /\ UNCHANGED <<clock, cancelled, asked, timers, sends, control, caller, wake,
                   now, later>>

\* Mutant of WorkerChecks: the flag is read only after the send.
WorkerChecksLate ==
    /\ wpc = "popped"
    /\ wpc' = "fire"
    /\ UNCHANGED <<clock, entries, control, caller, wake, now, cur, later>>

WorkerChecks ==
    /\ wpc = "popped"
    /\ wpc' = IF cur.id \in cancelled THEN "pass" ELSE "fire"
    /\ cur' = IF cur.id \in cancelled THEN NoEntry ELSE cur
    /\ UNCHANGED <<clock, entries, control, caller, wake, now, later>>

\* The send is over: the message is in the mailbox, or its target is gone.
Sent ==
    /\ fired' = [fired EXCEPT ![cur.id] = @ + 1]
    /\ late' = [late EXCEPT ![cur.id] = IF cur.id \in cancelled THEN @ + 1 ELSE @]
    /\ wpc' = "sent"
    /\ UNCHANGED <<clock, heap, cancelled, asked, timers, control, caller, wake,
                   now, cur, later>>

WorkerSends == wpc = "fire" /\ Sent

\* The target's mailbox is full, or the registry is locked by a sender that
\* waits for room in one.
WorkerBlocks ==
    /\ wpc = "fire"
    /\ wpc' = "blocked"
    /\ UNCHANGED <<clock, entries, control, caller, wake, now, cur, later>>

\* Room was made.
WorkerUnblocked == wpc = "blocked" /\ Sent

\* Mutant of WorkerKeeps: every timer is rescheduled.
WorkerKeepsAll ==
    /\ wpc = "sent"
    /\ later' = later \cup {[id |-> cur.id, at |-> now + period[cur.id]]}
    /\ cur' = NoEntry
    /\ wpc' = "pass"
    /\ UNCHANGED <<clock, entries, control, caller, wake, now>>

\* A repeating timer that is not cancelled is due again one interval after
\* the start of this pass.
WorkerKeeps ==
    /\ wpc = "sent"
    /\ later' = IF cur.id \in repeats /\ cur.id \notin cancelled
                  THEN later \cup {[id |-> cur.id, at |-> now + period[cur.id]]}
                  ELSE later
    /\ cur' = NoEntry
    /\ wpc' = "pass"
    /\ UNCHANGED <<clock, entries, control, caller, wake, now>>

WorkerEndsPass ==
    /\ wpc = "pass"
    /\ \A e \in heap : e.at > now
    /\ wpc' = IF later = {} THEN "top" ELSE "push"
    /\ now' = 0
    /\ UNCHANGED <<clock, entries, control, caller, wake, cur, later>>

\* Mutant of WorkerReschedules: the heap is rebuilt from to_reschedule.
WorkerReplacesHeap ==
    /\ wpc = "push"
    /\ heap' = later
    /\ later' = {}
    /\ wpc' = "top"
    /\ UNCHANGED <<clock, cancelled, asked, timers, sends, control, caller, wake,
                   now, cur>>

WorkerReschedules ==
    /\ wpc = "push"
    /\ heap' = heap \cup later
    /\ later' = {}
    /\ wpc' = "top"
    /\ UNCHANGED <<clock, cancelled, asked, timers, sends, control, caller, wake,
                   now, cur>>

Worker ==
    \/ WorkerLooks \/ WorkerWakes \/ WorkerPops \/ WorkerChecks \/ WorkerSends
    \/ WorkerBlocks \/ WorkerKeeps \/ WorkerEndsPass \/ WorkerReschedules

\* The steps of a call already made.
CallStep(c) ==
    \/ SpawnWorker(c) \/ StoreHandle(c)
    \/ \E p \in Periods, r \in BOOLEAN : Allocate(c, p, r)
    \/ Push(c) \/ TakeHandle(c) \/ Joined(c)

Next ==
    \/ Tick
    \/ Worker
    \/ WorkerUnblocked
    \/ \E c \in Callers :
          \/ EnsureWorker(c) \/ CallStep(c) \/ SetShutdown(c)
          \/ \E i \in Timers : Cancel(c, i) \/ TokenCancel(c, i)

Spec == Init /\ [][Next]_vars

\* Time passes, the worker thread runs and calls proceed; nobody is obliged
\* to create, cancel or shut down, nor to make room for the worker's send.
FairSpec ==
    /\ Spec
    /\ WF_vars(Tick) /\ WF_vars(Worker)
    /\ \A c \in Callers : WF_vars(CallStep(c))

-----------------------------------------------------------------------------
\* Where timer i is: in a call that creates it, in the heap, in the hands of
\* the worker, or waiting for the end of the pass.
Places(i) ==
    {<<"heap", e.at>> : e \in {f \in heap : f.id = i}} \cup
    {<<"later", e.at>> : e \in {f \in later : f.id = i}} \cup
    {<<"worker", e.at>> : e \in {f \in {cur} : f.id = i}} \cup
    {<<"call", c>> : c \in {d \in Callers : new[d].id = i}}

(***************************************************************************)
(* A timer is in one place at a time, so one expiry is never sent twice,   *)
(* and a one-shot timer that fired is in none.                             *)
(***************************************************************************)
OnePlace ==
    \A i \in Timers :
        /\ \A x, y \in Places(i) : x = y
        /\ i \notin repeats /\ fired[i] > 0 => fired[i] = 1

\* The n-th expiry of a timer of period p created at time b.
Due(b, p, n) == b + n * p

(***************************************************************************)
(* No timer fires early and a repeating one never catches up in a burst:   *)
(* after n sends at least n periods have passed since it was created,      *)
(* however late the worker wakes and however long a send takes.            *)
(***************************************************************************)
NoBurst == \A i \in Timers : Due(born[i], period[i], fired[i]) <= clock

(***************************************************************************)
(* docs/PRODUCTION_READINESS_REVIEW.md:468, "Cancelled timers can fire one *)
(* more time": one, never two, counted from the moment the flag is set,    *)
(* and none when TimerWheel::cancel answered true.                         *)
(***************************************************************************)
AtMostOneMore ==
    \A i \in Timers : late[i] <= IF asked[i] = "true" THEN 0 ELSE 1

(***************************************************************************)
(* When the shutdown that took the worker's handle has returned, the       *)
(* worker sends nothing more.  (A shutdown between the spawn of the worker *)
(* and the store of its handle finds no handle and joins nothing.)         *)
(***************************************************************************)
QuietAfterShutdown ==
    [][/\ "shutdown" \in flags /\ "handle" \notin flags
       /\ \A c \in Callers : pc[c] \notin {"spawning", "storing", "take", "join"}
       => fired' = fired]_vars

(***************************************************************************)
(* A timer due within the modelled time fires, unless it is cancelled, the *)
(* wheel is shut down, or the worker's send of one timer never finds room: *)
(* then no other timer fires either.                                       *)
(***************************************************************************)
Stalled == wpc = "blocked"

TimersFire ==
    \A i \in Timers :
        i < nextId /\ born[i] + period[i] <= MaxTime
            ~> \/ fired[i] > 0 \/ i \in cancelled \/ "shutdown" \in flags
               \/ []Stalled

(***************************************************************************)
(* shutdown returns: the worker it joins comes to its end, unless a send   *)
(* of the worker never finds room.                                         *)
(***************************************************************************)
ShutdownReturns ==
    \A c \in Callers :
        pc[c] \in {"take", "join"} ~> pc[c] = "idle" \/ []Stalled

\* docs/ACTOR_SYSTEM_COMPLETION.md:470, of cancel(timer_id): "Remove timer
\* from wheel".  A timer that cancel was called for does not come back.
CancelStopsTimer ==
    [][\A e \in heap' \ heap : asked[e.id] = "never"]_vars

=============================================================================
