------------------------------- MODULE Memory -------------------------------
(***************************************************************************)
(* The runtime's memory: boxed values with reference counts, the pools the *)
(* boxes are recycled through, the deferred release queue, freezing of     *)
(* values sent between threads, and the trial-deletion cycle detector,     *)
(* which a release may start while other threads are in the runtime.       *)
(*                                                                         *)
(* A box is the address of a Value.  The program is any client that        *)
(* releases only references it holds.  A value is a list (maps behave the  *)
(* same way), a tagged value, or an atom (strings and the like, which hold *)
(* no reference).                                                          *)
(***************************************************************************)
EXTENDS Integers, Sequences, FiniteSets, SequencesExt

CONSTANTS
    Boxes,              \* addresses
    Threads,            \* threads that run Coral code
    Receiver,           \* the thread on which the actor's messages are handled
    Kinds,              \* kinds of values the program makes
    NoBox,
    LocalPoolLimit,     \* LOCAL_POOL_LIMIT
    PoolLimit,          \* VALUE_POOL_LIMIT
    QueueLimit,         \* limit given to coral_runtime_release_queue_init
    RootLimit,          \* LOCAL_BUFFER_THRESHOLD
    FullInterval,       \* FULL_COLLECTION_INTERVAL
    MaxHeld,            \* bound: references a thread holds to one box
    MaxKids,            \* bound: items of a list
    MaxCalls,           \* bound: calls of the program
    Queues,             \* threads that turn the release queue on
    Makers              \* threads that make values and collect

ASSUME ThreadsAssumption ==
    /\ IsFiniteSet(Threads) /\ "none" \notin Threads
    /\ Receiver \in Threads /\ Makers \subseteq Threads

ASSUME BoxesAssumption == IsFiniteSet(Boxes) /\ NoBox \notin Boxes

ASSUME KindsAssumption == Kinds \subseteq {"list", "tagged", "atom"}

ASSUME LimitsAssumption ==
    /\ {LocalPoolLimit, PoolLimit, QueueLimit, MaxHeld, MaxKids, MaxCalls} \subseteq Nat
    /\ {RootLimit, FullInterval} \subseteq Nat \ {0}

VARIABLES
    heap,        \* Value of each box: tag, flags, owner_thread, refcount, payload
    place,       \* where the box is: see Places
    held,        \* references the program holds, per thread and box
    mail,        \* messages sent to the Receiver and not yet handled
    run,         \* what each thread does inside the runtime
    localPool,   \* LOCAL_VALUE_POOL of each thread
    pool,        \* VALUE_POOL
    queue,       \* RELEASE_QUEUE of each thread, once it is turned on
    localRoots,  \* LOCAL_ROOTS of each thread
    pending,     \* COLLECTION_PENDING
    det,         \* CYCLE_DETECTOR
    underflow,   \* some release met a count of zero (RELEASE_UNDERFLOW)
    amiss,       \* history: "claimed" once the collector took a value for
                 \* garbage, "leaked" once a message held what is not frozen
    calls        \* calls made so far

vars == <<heap, place, held, mail, run, localPool, pool, queue, localRoots,
          pending, det, underflow, amiss, calls>>

-----------------------------------------------------------------------------
(* Boxes.  "husk" is a dropped box between drop_heap_value and recycling;   *)
(* "lost" one the full release queue forgot.                                *)

Places == {"none", "live", "dying", "queued", "husk", "pooled", "lost"}

Tags == {"list", "tagged", "atom", "unit"}

NoOwner == "none"

Unit(t) == [tag |-> "unit", rc |-> 1, frozen |-> FALSE, epoch |-> 0, owner |-> t,
            kids |-> <<>>]

NewValue(t, kind, items) ==
    [tag |-> kind, rc |-> 1, frozen |-> FALSE, epoch |-> 0, owner |-> t, kids |-> items]

(* alloc_value: the thread's pool, then the shared one, then a new box.     *)
AllocFrom(t, b) ==
    IF localPool[t] # <<>> THEN b = Last(localPool[t])
    ELSE IF pool # <<>> THEN b = Last(pool)
    ELSE place[b] = "none"

TakeBox(t) ==
    /\ localPool' = IF localPool[t] # <<>> THEN [localPool EXCEPT ![t] = Front(@)]
                    ELSE localPool
    /\ pool' = IF localPool[t] = <<>> /\ pool # <<>> THEN Front(pool) ELSE pool

Pooled(value) == [value EXCEPT !.rc = 0, !.owner = NoOwner]

(* Where recycle_value_box puts a dropped box; "none" is given back to the  *)
(* system.                                                                  *)
RecycleTo(t) ==
    CASE Len(localPool[t]) < LocalPoolLimit -> "local"
      [] Len(localPool[t]) >= LocalPoolLimit /\ Len(pool) < PoolLimit -> "shared"
      [] OTHER -> "system"

(* Mutant: after the thread's pool the box goes on to the shared one.       *)
RecycleFallsThrough(t, b) ==
    /\ localPool' = IF RecycleTo(t) = "local" THEN [localPool EXCEPT ![t] = Append(@, b)]
                    ELSE localPool
    /\ pool' = IF Len(pool) < PoolLimit THEN Append(pool, b) ELSE pool
    /\ place' = [place EXCEPT ![b] = "pooled"]

Recycle(t, b) ==
    LET to == RecycleTo(t) IN
    /\ localPool' = IF to = "local" THEN [localPool EXCEPT ![t] = Append(@, b)] ELSE localPool
    /\ pool' = IF to = "shared" THEN Append(pool, b) ELSE pool
    /\ place' = [place EXCEPT ![b] = IF to = "system" THEN "none" ELSE "pooled"]

-----------------------------------------------------------------------------
(* Retaining and freezing.                                                  *)

At(s, b) == {i \in DOMAIN s : s[i] = b}

Count(s, b) == Cardinality(At(s, b))

(* A count of zero stays zero.                                              *)
RetainAll(h, items) ==
    [b \in Boxes |-> IF h[b].rc = 0 THEN h[b]
                     ELSE [h[b] EXCEPT !.rc = @ + Count(items, b)]]

(* What is reached from the boxes of start when next[b] follows b.          *)
Closure(start, next) ==
    {x \in Boxes : \A s \in SUBSET Boxes :
        start \subseteq s /\ (\A b \in s : next[b] \subseteq s) => x \in s}

(* freeze_value goes into lists (and maps) only; it visits a box once for   *)
(* each way to it, so it returns only on values without cycles.             *)
Through(h, b) ==
    Closure({b}, [x \in Boxes |-> IF h[x].tag = "list" THEN Range(h[x].kids) ELSE {}])

(* Mutant: only the value itself is frozen.                                 *)
FreezeTop(h, b) == [h EXCEPT ![b].frozen = TRUE, ![b].owner = NoOwner]

Freeze(h, b) ==
    LET all == Through(h, b)
    IN [x \in Boxes |-> IF x \in all THEN [h[x] EXCEPT !.frozen = TRUE, !.owner = NoOwner]
                        ELSE h[x]]

(* Boxes reachable from b through items and fields.                         *)
Reach(h, b) == Closure({b}, [x \in Boxes |-> Range(h[x].kids)])

Acyclic(h, b) ==
    \A x \in Reach(h, b) : \A c \in Range(h[x].kids) : x \notin Reach(h, c)

-----------------------------------------------------------------------------
(* The cycle detector's bookkeeping.  info gives a colour to the boxes it   *)
(* knows.                                                                   *)

Colours == {"black", "gray", "white", "purple"}

NoDetector == [info |-> [b \in {} |-> "black"], young |-> {}, old |-> {}, roots |-> {},
               collecting |-> FALSE, epoch |-> 0]

IsContainer(value) == value.tag \in {"list", "tagged"}

Paint(info, s, colour) ==
    [x \in DOMAIN info \cup s |-> IF x \in s THEN colour ELSE info[x]]

(* flush_local_roots: the buffered addresses that hold a container.         *)
Flushed(d, addrs) ==
    LET found == {b \in Range(addrs) : IsContainer(heap[b])}
    IN [d EXCEPT !.info = Paint(@, found, "purple"),
                 !.young = @ \cup found, !.roots = @ \cup found]

(* possible_root: buffer the address, flushing first when a collection is   *)
(* pending and afterwards when the buffer is full.                          *)
PossibleRoot(t, b) ==
    IF ~IsContainer(heap[b]) THEN UNCHANGED <<localRoots, pending, det>>
    ELSE LET before == IF pending THEN Flushed(det, localRoots[t]) ELSE det
             kept == IF pending THEN <<b>> ELSE Append(localRoots[t], b)
             full == Len(kept) >= RootLimit
         IN /\ pending' = FALSE
            /\ det' = IF full THEN Flushed(before, kept) ELSE before
            /\ localRoots' = [localRoots EXCEPT ![t] = IF full THEN <<>> ELSE kept]

(* notify_value_freed                                                       *)
Forget(d, b) ==
    [d EXCEPT !.roots = @ \ {b}, !.young = @ \ {b}, !.old = @ \ {b},
              !.info = Restrict(@, DOMAIN @ \ {b})]

-----------------------------------------------------------------------------
(* A thread inside the runtime: what it does, the box it works on, the      *)
(* worklist of drop_heap_value, what follows, the collector's worklist and  *)
(* that of scan_black.                                                      *)

Idle == [op |-> "idle", box |-> NoBox, work |-> <<>>, then |-> "idle", todo |-> {}, black |-> {}]

Enter(t, op, b) == run' = [run EXCEPT ![t] = [Idle EXCEPT !.op = op, !.box = b]]

Drop(t, b, then) ==
    run' = [run EXCEPT ![t] = [Idle EXCEPT !.op = "drop", !.box = b, !.work = heap[b].kids,
                                           !.then = then]]

Call(t) == run[t].op = "idle" /\ calls < MaxCalls /\ calls' = calls + 1

Init ==
    /\ heap = [b \in Boxes |-> Pooled(Unit(NoOwner))]
    /\ place = [b \in Boxes |-> "none"]
    /\ held = [t \in Threads |-> [b \in Boxes |-> 0]]
    /\ mail = <<>>
    /\ run = [t \in Threads |-> Idle]
    /\ localPool = [t \in Threads |-> <<>>]
    /\ pool = <<>>
    /\ queue = [t \in Threads |-> [on |-> FALSE, items |-> <<>>]]
    /\ localRoots = [t \in Threads |-> <<>>]
    /\ pending = FALSE
    /\ det = NoDetector
    /\ underflow = FALSE
    /\ amiss = {}
    /\ calls = 0

-----------------------------------------------------------------------------
(* Calls of the program.                                                    *)

Holds(t, b) == held[t][b] > 0

Take(t, b) == [held EXCEPT ![t][b] = @ + 1]

(* coral_make_list, coral_make_tagged: the items are retained, then a box   *)
(* is taken.                                                                *)
Make(t, b, kind, items) ==
    /\ Call(t)
    /\ \A c \in Range(items) : Holds(t, c)
    /\ kind = "atom" => items = <<>>
    /\ AllocFrom(t, b) /\ TakeBox(t)
    /\ heap' = [RetainAll(heap, items) EXCEPT ![b] = NewValue(t, kind, items)]
    /\ place' = [place EXCEPT ![b] = "live"]
    /\ held' = Take(t, b)
    /\ UNCHANGED <<mail, run, queue, localRoots, pending, det, underflow, amiss>>

(* coral_value_retain                                                       *)
Retain(t, b) ==
    /\ Call(t) /\ Holds(t, b) /\ held[t][b] < MaxHeld
    /\ heap' = RetainAll(heap, <<b>>)
    /\ held' = Take(t, b)
    /\ UNCHANGED <<place, mail, run, localPool, pool, queue, localRoots, pending, det, underflow, amiss>>

(* coral_list_get, coral_tagged_get_field: an item of a held value, retained. *)
GetItem(t, l, b) ==
    /\ Call(t) /\ Holds(t, l) /\ b \in Range(heap[l].kids)
    /\ held[t][b] < MaxHeld
    /\ heap' = RetainAll(heap, <<b>>)
    /\ held' = Take(t, b)
    /\ UNCHANGED <<place, mail, run, localPool, pool, queue, localRoots, pending, det, underflow, amiss>>

(* coral_list_push: refused on a frozen list; returns the list retained.    *)
Push(t, l, b) ==
    /\ Call(t) /\ Holds(t, l) /\ Holds(t, b) /\ held[t][l] < MaxHeld
    /\ heap[l].tag = "list" /\ ~heap[l].frozen /\ Len(heap[l].kids) < MaxKids
    /\ heap' = [RetainAll(heap, <<b, l>>) EXCEPT ![l].kids = Append(@, b)]
    /\ held' = Take(t, l)
    /\ UNCHANGED <<place, mail, run, localPool, pool, queue, localRoots, pending, det, underflow, amiss>>

(* Whether a message holds what freeze_value does not get to.               *)
Leak(b) == amiss' = IF Reach(heap, b) \subseteq Through(heap, b) THEN amiss
                    ELSE amiss \cup {"leaked"}

(* coral_actor_send: freeze, retain, and give the reference to the mailbox. *)
Send(t, b) ==
    /\ Call(t) /\ Holds(t, b) /\ Acyclic(heap, b) /\ Len(mail) < MaxHeld
    /\ heap' = RetainAll(Freeze(heap, b), <<b>>)
    /\ mail' = Append(mail, b)
    /\ Leak(b)
    /\ UNCHANGED <<place, held, run, localPool, pool, queue, localRoots, pending, det, underflow>>

(* A refused send (no such actor, a full mailbox) releases the message it   *)
(* retained.                                                                *)
SendRefused(t, b) ==
    /\ Call(t) /\ Holds(t, b) /\ Acyclic(heap, b)
    /\ heap' = RetainAll(Freeze(heap, b), <<b>>)
    /\ Enter(t, "release", b)
    /\ Leak(b)
    /\ UNCHANGED <<place, held, mail, localPool, pool, queue, localRoots, pending, det, underflow>>

(* The message loop takes a message; it releases it after the handler ran   *)
(* (Release), and the handler may retain it meanwhile.                      *)
Receive ==
    /\ Call(Receiver) /\ mail # <<>> /\ held[Receiver][Head(mail)] < MaxHeld
    /\ held' = Take(Receiver, Head(mail))
    /\ mail' = Tail(mail)
    /\ UNCHANGED <<heap, place, run, localPool, pool, queue, localRoots, pending, det, underflow, amiss>>

Release(t, b) ==
    /\ Call(t) /\ Holds(t, b)
    /\ held' = [held EXCEPT ![t][b] = @ - 1]
    /\ Enter(t, "release", b)
    /\ UNCHANGED <<heap, place, mail, localPool, pool, queue, localRoots, pending, det, underflow, amiss>>

(* coral_runtime_release_queue_init                                         *)
QueueInit(t) ==
    /\ Call(t) /\ t \in Queues /\ ~queue[t].on
    /\ queue' = [queue EXCEPT ![t].on = TRUE]
    /\ UNCHANGED <<heap, place, held, mail, run, localPool, pool, localRoots, pending, det,
                   underflow, amiss>>

(* coral_runtime_release_queue_flush                                        *)
QueueFlush(t) ==
    /\ Call(t) /\ queue[t].items # <<>>
    /\ Enter(t, "drain", NoBox)
    /\ UNCHANGED <<heap, place, held, mail, localPool, pool, queue, localRoots, pending, det,
                   underflow, amiss>>

-----------------------------------------------------------------------------
(* coral_value_release: the count, the notifications, the drop.             *)

(* A release that leaves references goes on to possible_root, by when       *)
(* another thread may have given up the last of them.                       *)
Decrement(t) ==
    LET b == run[t].box IN
    /\ run[t].op = "release"
    /\ \/ /\ heap[b].rc = 0
          /\ underflow' = TRUE /\ run' = [run EXCEPT ![t] = Idle]
          /\ UNCHANGED <<heap, place>>
       \/ /\ heap[b].rc > 1
          /\ heap' = [heap EXCEPT ![b].rc = @ - 1]
          /\ Enter(t, "root", b)
          /\ UNCHANGED <<place, underflow>>
       \/ /\ heap[b].rc = 1
          /\ heap' = [heap EXCEPT ![b].rc = 0]
          /\ place' = [place EXCEPT ![b] = "dying"]
          /\ Enter(t, "notify", b)
          /\ UNCHANGED underflow
    /\ UNCHANGED <<held, mail, localPool, pool, queue, localRoots, pending, det, amiss, calls>>

(* The box may be the root of a cycle.  While automatic collection is on    *)
(* one release in a thousand collects (CYCLE_COLLECTION_COUNTER, which      *)
(* counts those of values that are not modelled too): any may.              *)
Root(t) ==
    /\ run[t].op = "root"
    /\ PossibleRoot(t, run[t].box)
    /\ \E next \in {"idle", "flush"} : Enter(t, next, NoBox)
    /\ UNCHANGED <<heap, place, held, mail, localPool, pool, queue, underflow, amiss, calls>>

(* notify_value_deallocated and notify_value_freed                          *)
Notify(t) ==
    LET b == run[t].box IN
    /\ run[t].op = "notify"
    /\ heap' = [heap EXCEPT ![b].epoch = @ + 1]
    /\ det' = Forget(det, b)
    /\ Enter(t, "dispose", b)
    /\ UNCHANGED <<place, held, mail, localPool, pool, queue, localRoots, pending, underflow, amiss, calls>>

(* Into the release queue, which forgets the box at its limit, or dropped   *)
(* at once.                                                                 *)
Dispose(t) ==
    LET b == run[t].box IN
    /\ run[t].op = "dispose"
    /\ IF queue[t].on
       THEN LET room == Len(queue[t].items) < QueueLimit IN
            /\ queue' = IF room THEN [queue EXCEPT ![t].items = Append(@, b)] ELSE queue
            /\ place' = [place EXCEPT ![b] = IF room THEN "queued" ELSE "lost"]
            /\ run' = [run EXCEPT ![t] = Idle]
            /\ UNCHANGED heap
       ELSE /\ heap' = [heap EXCEPT ![b] = Unit(t)]
            /\ place' = [place EXCEPT ![b] = "husk"]
            /\ Drop(t, b, "idle")
            /\ UNCHANGED queue
    /\ UNCHANGED <<held, mail, localPool, pool, localRoots, pending, det, underflow, amiss, calls>>

(* Mutant: a child is freed with its parent, whatever its count.            *)
DropChildAlways(t) ==
    /\ run[t].op = "drop" /\ run[t].work # <<>>
    /\ heap' = [heap EXCEPT ![Last(run[t].work)].rc = 0]
    /\ place' = [place EXCEPT ![Last(run[t].work)] = "dying"]
    /\ run' = [run EXCEPT ![t].op = "child"]
    /\ UNCHANGED <<held, mail, localPool, pool, queue, localRoots, pending, det, underflow, amiss, calls>>

(* drop_heap_value takes the last child of its worklist.                    *)
DropChild(t) ==
    LET c == Last(run[t].work) IN
    /\ run[t].op = "drop" /\ run[t].work # <<>>
    /\ \/ /\ heap[c].rc = 0
          /\ underflow' = TRUE
          /\ run' = [run EXCEPT ![t].work = Front(@)]
          /\ UNCHANGED <<heap, place>>
       \/ /\ heap[c].rc > 1
          /\ heap' = [heap EXCEPT ![c].rc = @ - 1]
          /\ run' = [run EXCEPT ![t].op = "childroot"]
          /\ UNCHANGED <<place, underflow>>
       \/ /\ heap[c].rc = 1
          /\ heap' = [heap EXCEPT ![c].rc = 0]
          /\ place' = [place EXCEPT ![c] = "dying"]
          /\ run' = [run EXCEPT ![t].op = "child"]
          /\ UNCHANGED underflow
    /\ UNCHANGED <<held, mail, localPool, pool, queue, localRoots, pending, det, amiss, calls>>

(* A child with references left; a drop does not collect.                   *)
ChildRoot(t) ==
    /\ run[t].op = "childroot"
    /\ PossibleRoot(t, Last(run[t].work))
    /\ run' = [run EXCEPT ![t].op = "drop", ![t].work = Front(@)]
    /\ UNCHANGED <<heap, place, held, mail, localPool, pool, queue, underflow, amiss, calls>>

(* A child whose last reference went: notified, its children put on the     *)
(* worklist, its box recycled.                                              *)
ChildDies(t) ==
    LET c == Last(run[t].work) IN
    /\ run[t].op = "child"
    /\ det' = Forget(det, c)
    /\ run' = [run EXCEPT ![t].op = "drop", ![t].work = Front(@) \o heap[c].kids]
    /\ heap' = [heap EXCEPT ![c] = Pooled(Unit(t))]
    /\ Recycle(t, c)
    /\ UNCHANGED <<held, mail, queue, localRoots, pending, underflow, amiss, calls>>

(* The worklist is empty: the box itself is recycled.                       *)
Dropped(t) ==
    LET b == run[t].box IN
    /\ run[t].op = "drop" /\ run[t].work = <<>>
    /\ heap' = [heap EXCEPT ![b] = Pooled(@)]
    /\ Recycle(t, b)
    /\ run' = [run EXCEPT ![t] = [Idle EXCEPT !.op = run[t].then]]
    /\ UNCHANGED <<held, mail, queue, localRoots, pending, det, underflow, amiss, calls>>

(* ReleaseQueue::drain: one pointer after the other, without notifying.     *)
Drain(t) ==
    /\ run[t].op = "drain"
    /\ IF queue[t].items = <<>>
       THEN run' = [run EXCEPT ![t] = Idle] /\ UNCHANGED <<heap, place, queue>>
       ELSE LET b == Head(queue[t].items) IN
            /\ queue' = [queue EXCEPT ![t].items = Tail(@)]
            /\ heap' = [heap EXCEPT ![b] = Unit(t)]
            /\ place' = [place EXCEPT ![b] = "husk"]
            /\ Drop(t, b, "drain")
    /\ UNCHANGED <<held, mail, localPool, pool, localRoots, pending, det, underflow, amiss, calls>>

-----------------------------------------------------------------------------
(* collect_cycles.                                                          *)

(* coral_cycle_flush                                                        *)
CycleFlush(t) ==
    /\ Call(t) /\ localRoots[t] # <<>>
    /\ det' = Flushed(det, localRoots[t])
    /\ localRoots' = [localRoots EXCEPT ![t] = <<>>]
    /\ UNCHANGED <<heap, place, held, mail, run, localPool, pool, queue, pending, underflow, amiss>>

(* coral_collect_cycles                                                     *)
Collect(t) ==
    /\ Call(t)
    /\ Enter(t, "flush", NoBox)
    /\ UNCHANGED <<heap, place, held, mail, localPool, pool, queue, localRoots, pending, det,
                   underflow, amiss>>

(* collect_cycles starts by flushing the thread's own roots.                *)
FlushRoots(t) ==
    /\ run[t].op = "flush"
    /\ pending' = TRUE
    /\ det' = Flushed(det, localRoots[t])
    /\ localRoots' = [localRoots EXCEPT ![t] = <<>>]
    /\ Enter(t, "begin", NoBox)
    /\ UNCHANGED <<heap, place, held, mail, localPool, pool, queue, underflow, amiss, calls>>

Phase(t, op, s) == run' = [run EXCEPT ![t] = [Idle EXCEPT !.op = op, !.todo = s]]

(* One thread collects at a time; the others go on.                         *)
CollectBegin(t) ==
    LET epoch == det.epoch + 1
        roots == IF epoch % FullInterval = 0 THEN det.young \cup det.old ELSE det.young
    IN
    /\ run[t].op = "begin"
    /\ IF det.collecting
       THEN Phase(t, "idle", {}) /\ UNCHANGED det
       ELSE /\ det' = [det EXCEPT !.collecting = TRUE, !.epoch = epoch, !.roots = roots]
            /\ Phase(t, "copy", {})
    /\ UNCHANGED <<heap, place, held, mail, localPool, pool, queue, localRoots, pending, underflow, amiss, calls>>

(* mark_roots works on a copy of the roots.                                 *)
CopyRoots(t) ==
    /\ run[t].op = "copy"
    /\ Phase(t, "mark", det.roots)
    /\ UNCHANGED <<heap, place, held, mail, localPool, pool, queue, localRoots, pending, det,
                   underflow, amiss, calls>>

(* mark_gray visits what is not gray yet; no count is taken back for the    *)
(* references it follows.                                                   *)
MarkGray(info, b) ==
    LET gray == {x \in DOMAIN info : info[x] = "gray"}
    IN Paint(info, Closure({b} \ gray, [x \in Boxes |-> Range(heap[x].kids) \ gray]), "gray")

(* mark_roots, one root.                                                    *)
MarkRoot(d, b) ==
    IF b \notin DOMAIN d.info THEN [d EXCEPT !.roots = @ \ {b}]
    ELSE IF d.info[b] = "purple" /\ heap[b].rc > 0
    THEN [d EXCEPT !.info = MarkGray(@, b)]
    ELSE [d EXCEPT !.roots = @ \ {b},
                   !.info = IF @[b] = "black" /\ heap[b].rc = 0
                            THEN Restrict(@, DOMAIN @ \ {b}) ELSE @]

Mark(t) ==
    /\ run[t].op = "mark"
    /\ IF run[t].todo = {}
       THEN Phase(t, "scan", det.roots) /\ UNCHANGED det
       ELSE \E b \in run[t].todo :
            /\ det' = MarkRoot(det, b)
            /\ Phase(t, "mark", run[t].todo \ {b})
    /\ UNCHANGED <<heap, place, held, mail, localPool, pool, queue, localRoots, pending, underflow, amiss, calls>>

Coloured(b, colour) == b \in DOMAIN det.info /\ det.info[b] = colour

(* scan, one box: a gray box still counted is live with all it refers to;   *)
(* one whose count is zero is white, and its children are scanned.  They    *)
(* are read without the lock, when the box may have been dropped already.   *)
Scan(t) ==
    /\ run[t].op = "scan" /\ run[t].black = {}
    /\ \E b \in run[t].todo :
          LET rest == run[t].todo \ {b} IN
          \/ /\ ~Coloured(b, "gray")
             /\ Phase(t, "scan", rest) /\ UNCHANGED det
          \/ /\ Coloured(b, "gray") /\ heap[b].rc > 0
             /\ run' = [run EXCEPT ![t].todo = rest, ![t].black = {b}] /\ UNCHANGED det
          \/ /\ Coloured(b, "gray") /\ heap[b].rc = 0
             /\ det' = [det EXCEPT !.info = Paint(@, {b}, "white")]
             /\ \E next \in {{}, Range(heap[b].kids)} : Phase(t, "scan", rest \cup next)
    /\ UNCHANGED <<heap, place, held, mail, localPool, pool, queue, localRoots, pending, underflow, amiss, calls>>

(* scan_black, one box: it follows the boxes the detector gave another      *)
(* colour than black; one it does not know is entered as black.             *)
ScanBlack(t) ==
    /\ run[t].op = "scan"
    /\ \E b \in run[t].black :
          LET follow == b \in DOMAIN det.info /\ det.info[b] # "black" IN
          /\ det' = [det EXCEPT !.info = Paint(@, {b}, "black")]
          /\ run' = [run EXCEPT ![t].black =
                        (@ \ {b}) \cup IF follow THEN Range(heap[b].kids) ELSE {}]
    /\ UNCHANGED <<heap, place, held, mail, localPool, pool, queue, localRoots, pending, underflow, amiss, calls>>

(* All is scanned; collect_roots works on another copy of the roots.        *)
Scanned(t) ==
    /\ run[t].op = "scan" /\ run[t].todo = {} /\ run[t].black = {}
    /\ Phase(t, "collect", det.roots)
    /\ UNCHANGED <<heap, place, held, mail, localPool, pool, queue, localRoots, pending, det,
                   underflow, amiss, calls>>

IsWhite(b) == Coloured(b, "white")

(* collect_roots: the white roots are garbage, and the collector frees them *)
(* with all they refer to that is white.                                    *)
CollectRoots(t) ==
    LET garbage == {b \in run[t].todo : IsWhite(b)} IN
    /\ run[t].op = "collect"
    /\ det' = [det EXCEPT !.roots = {}]
    /\ amiss' = IF garbage = {} THEN amiss ELSE amiss \cup {"claimed"}
    /\ Phase(t, "free", garbage)
    /\ UNCHANGED <<heap, place, held, mail, localPool, pool, queue, localRoots, pending, underflow, calls>>

(* collect_white: the white children go into the same worklist, nothing is  *)
(* released, the box is recycled.                                           *)
CollectWhite(t) ==
    /\ run[t].op = "free"
    /\ IF run[t].todo = {}
       THEN Phase(t, "promote", {}) /\ UNCHANGED <<heap, place, localPool, pool, det>>
       ELSE \E b \in run[t].todo :
            IF ~IsWhite(b)
            THEN /\ Phase(t, "free", run[t].todo \ {b})
                 /\ UNCHANGED <<heap, place, localPool, pool, det>>
            ELSE /\ det' = [det EXCEPT !.info = Restrict(@, DOMAIN @ \ {b})]
                 /\ heap' = [heap EXCEPT ![b] = Pooled(Unit(t))]
                 /\ Recycle(t, b)
                 /\ Phase(t, "free", (run[t].todo \ {b}) \cup Range(heap[b].kids))
    /\ UNCHANGED <<held, mail, queue, localRoots, pending, underflow, amiss, calls>>

(* The young roots that are still known become old ones.                    *)
Promote(t) ==
    /\ run[t].op = "promote"
    /\ det' = [det EXCEPT !.old = @ \cup (det.young \cap DOMAIN det.info),
                          !.young = {}, !.collecting = FALSE]
    /\ Phase(t, "idle", {})
    /\ UNCHANGED <<heap, place, held, mail, localPool, pool, queue, localRoots, pending, underflow, amiss, calls>>

-----------------------------------------------------------------------------
ItemLists(b) == {<<>>} \cup {<<c>> : c \in Boxes \ {b}}

Calls(t) ==
    \/ \E b \in Boxes : Retain(t, b) \/ Send(t, b) \/ SendRefused(t, b) \/ Release(t, b)
    \/ \E l, b \in Boxes : Push(t, l, b) \/ GetItem(t, l, b)
    \/ QueueInit(t) \/ QueueFlush(t) \/ CycleFlush(t)

Releasing(t) ==
    \/ Decrement(t) \/ Root(t) \/ Notify(t) \/ Dispose(t)
    \/ DropChild(t) \/ ChildRoot(t) \/ ChildDies(t) \/ Dropped(t) \/ Drain(t)

CollectSteps(t) ==
    \/ FlushRoots(t) \/ CollectBegin(t) \/ CopyRoots(t) \/ Mark(t) \/ Scan(t) \/ ScanBlack(t)
    \/ Scanned(t) \/ CollectRoots(t) \/ CollectWhite(t) \/ Promote(t)

Next ==
    \/ \E t \in Makers, b \in Boxes, kind \in Kinds :
           \E items \in ItemLists(b) : Make(t, b, kind, items)
    \/ \E t \in Makers : Collect(t)
    \/ \E t \in Threads : Calls(t) \/ Releasing(t) \/ CollectSteps(t)
    \/ Receive

Spec == Init /\ [][Next]_vars

-----------------------------------------------------------------------------
(* Properties.                                                              *)

(* How many places the sets of a family have together.                      *)
Total(rows) == Cardinality(UNION {{x} \X rows[x] : x \in DOMAIN rows})

(* Neither has happened: the collector took no value for garbage, and       *)
(* every message was frozen with all it holds.  Once it took one, the thread *)
(* dropping that value frees it too; once something unfrozen is shared,     *)
(* two threads count it without atomics, which is not modelled.             *)
Undisturbed == amiss = {}

(* The phases of a collection in which a value dropped on another thread    *)
(* can be taken for garbage, and the drop from where the count is zero and  *)
(* the detector still knows the box.                                        *)
Marking(t)  == run[t].op \in {"mark", "scan"}
Dropping(t) == run[t].op \in {"notify", "drop", "child", "childroot"}

Alone == \A t, u \in Threads : Marking(t) => ~Dropping(u)

(* The collector has taken nothing for garbage: no value is freed but by    *)
(* the release of its last reference (coral_value_release).                 *)
NothingClaimed == "claimed" \notin amiss

(* What a drop has still to release: not the child it has counted down.     *)
Waiting(t) == IF run[t].op \in {"child", "childroot"} THEN Front(run[t].work) ELSE run[t].work

(* The references that exist to a box: those the program holds, the         *)
(* messages in the mailbox, the items of values not dropped yet, the        *)
(* worklists of drops under way, and a release not yet counted.             *)
Refs(b) ==
      Total([t \in Threads |-> 1 .. held[t][b]])
    + Count(mail, b)
    + Total([x \in Boxes |-> At(heap[x].kids, b)])
    + Total([t \in Threads |-> At(Waiting(t), b)])
    + Cardinality({t \in Threads : run[t].op = "release" /\ run[t].box = b})

(* Every count is exact: in every interleaving of the threads' calls, of    *)
(* drops under way, deferred releases and collections, the refcount of a    *)
(* box that has not been dropped is the number of references to it          *)
(* (coral_value_retain, coral_value_release, drop_heap_value), nothing      *)
(* refers to a dropped box, no release meets a count of zero, and a box     *)
(* without references is on its way out; as long as the collector has taken *)
(* no value for garbage.                                                    *)
CountsExact ==
    Undisturbed =>
        /\ ~underflow
        /\ \A b \in Boxes :
            /\ place[b] \in {"live", "dying", "queued", "lost"} => heap[b].rc = Refs(b)
            /\ place[b] \in {"husk", "pooled", "none"} => Refs(b) = 0
            /\ place[b] = "live" => heap[b].rc > 0

(* A box is recycled once: the free lists, the release queues and the boxes *)
(* being dropped name no box twice, and none that is live: alloc_value      *)
(* never hands out a box somebody still uses; as long as the collector has  *)
(* taken no value for garbage.                                              *)
RecycledOnce ==
    Undisturbed =>
        \A b \in Boxes :
            /\ Count(pool, b) + Total([t \in Threads |-> At(localPool[t], b)])
               = IF place[b] = "pooled" THEN 1 ELSE 0
            /\ Total([t \in Threads |-> At(queue[t].items, b)])
               = IF place[b] = "queued" THEN 1 ELSE 0

(* The boxes a thread counts or drops.  At possible_root it has given up    *)
(* its reference.                                                           *)
InWork(t) ==
    CASE run[t].op = "root" -> {}
      [] run[t].op = "childroot" -> {run[t].box} \cup Range(Waiting(t))
      [] OTHER -> ({run[t].box} \ {NoBox}) \cup Range(run[t].work)

(* What two threads can reach is frozen, so that both count it atomically   *)
(* (the load and store of rc_ops.rs are for values of one thread): lists    *)
(* pass it on to their items in freeze_value, and a frozen list takes no    *)
(* new item.  This ends when a message holds something that is not reached  *)
(* through lists alone.                                                     *)
Seen(t) ==
    UNION {Reach(heap, b) : b \in {x \in Boxes : Holds(t, x)} \cup InWork(t)
                              \cup IF t = Receiver THEN Range(mail) ELSE {}}

SharedFrozen ==
    Undisturbed =>
        \A t, u \in Threads : t # u =>
            \A b \in Seen(t) \cap Seen(u) : heap[b].frozen /\ heap[b].owner = NoOwner

=============================================================================
