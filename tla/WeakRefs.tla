------------------------------ MODULE WeakRefs ------------------------------
(***************************************************************************)
(* Weak references over Memory: a box and the epoch it had when the        *)
(* reference was made.  They count for nothing; upgrade compares epochs    *)
(* and retains.                                                            *)
(***************************************************************************)
EXTENDS Memory

CONSTANT MaxWeak        \* bound: weak references

VARIABLES
    weak,       \* the weak references made so far
    life        \* history: how many values each box has held

weakVars == <<vars, weak, life>>

WeakInit ==
    /\ Init
    /\ weak = {}
    /\ life = [b \in Boxes |-> 0]

(* WeakRef::is_alive                                                        *)
IsAlive(w) == heap[w.box].epoch = w.epoch

(* WeakRef::new, from a held reference.  (It also sets a flag in the value, *)
(* which drop_heap_value clears before recycle_value_box reads it.)         *)
NewWeak(t, b) ==
    /\ Call(t) /\ Holds(t, b) /\ Cardinality(weak) < MaxWeak
    /\ weak' = weak \cup {[box |-> b, epoch |-> heap[b].epoch, life |-> life[b]]}
    /\ UNCHANGED <<heap, place, held, mail, run, localPool, pool, queue, localRoots, pending,
                   det, underflow, amiss, life>>

(* WeakRef::upgrade: the retain has no effect on a count of zero.           *)
Upgrade(t, w) ==
    /\ Call(t) /\ IsAlive(w) /\ held[t][w.box] < MaxHeld
    /\ heap' = RetainAll(heap, <<w.box>>)
    /\ held' = Take(t, w.box)
    /\ UNCHANGED <<place, mail, run, localPool, pool, queue, localRoots, pending, det,
                   underflow, amiss, weak, life>>

WeakNext ==
    \/ \E t \in Threads, b \in Boxes : NewWeak(t, b)
    \/ \E t \in Threads, w \in weak : Upgrade(t, w)
    \/ /\ Next
       /\ life' = [b \in Boxes |->
                      IF place[b] # "live" /\ place'[b] = "live" THEN life[b] + 1 ELSE life[b]]
       /\ UNCHANGED weak

WeakSpec == WeakInit /\ [][WeakNext]_weakVars

(* A weak reference to a value that was dropped is dead: it cannot be       *)
(* upgraded to the recycled box, nor to the next value made in it           *)
(* (WeakRef::upgrade).                                                      *)
DroppedStaysDead ==
    \A w \in weak : IsAlive(w) =>
        place[w.box] \in {"live", "dying", "queued", "lost"} /\ life[w.box] = w.life

=============================================================================
