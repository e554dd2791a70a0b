---------------------------- MODULE MemoryProofs ----------------------------
(***************************************************************************)
(* Proofs about Memory, for any number of boxes and threads and any limits *)
(* of the pools, of the release queue and of the detector, while releases  *)
(* start collections beside other threads: the counts are exact and a box  *)
(* is recycled once until the collector takes a value for garbage, what    *)
(* two threads reach is frozen until a message holds what is not, and the  *)
(* collector takes nothing unless a thread is dropping a value beside it.  *)
(***************************************************************************)
EXTENDS Memory, FiniteSetTheorems, SequenceTheorems, TLAPS

Ops == {"idle", "release", "root", "notify", "dispose", "drop", "child", "childroot", "drain",
        "flush", "begin", "copy", "mark", "scan", "collect", "free", "promote"}

\* The operations on a box; those that drop one; those on a child of it.
BoxOps   == {"release", "root", "notify", "dispose", "drop", "child", "childroot"}
DropOps  == {"drop", "child", "childroot"}
ChildOps == {"child", "childroot"}

\* The phases of a collection.
CollectOps == {"flush", "begin", "copy", "mark", "scan", "collect", "free", "promote"}

Owner    == Threads \cup {NoOwner}
Items    == Seq(Boxes)
Value    == [tag : Tags, rc : Nat, frozen : BOOLEAN, epoch : Nat, owner : Owner, kids : Items]
Activity == [op : Ops, box : Boxes \cup {NoBox}, work : Items, then : {"idle", "drain"},
             todo : SUBSET Boxes, black : SUBSET Boxes]
Queue    == [on : BOOLEAN, items : Items]
Infos    == UNION {[s -> Colours] : s \in SUBSET Boxes}
Detector == [info : Infos, young : SUBSET Boxes, old : SUBSET Boxes, roots : SUBSET Boxes,
             collecting : BOOLEAN, epoch : Nat]

\* The types of the variables, and the shape of what a thread is doing: it
\* works on a box from the release to the end of the drop, and has a worklist
\* while it drops.  While nothing was claimed a collection has nothing to free.
Shape(a) ==
    /\ a.op \in BoxOps <=> a.box \in Boxes
    /\ a.op \notin DropOps => a.work = <<>>
    /\ a.op \in ChildOps => a.work # <<>>
    /\ a.op = "free" => a.todo = {}

TypeInv ==
    /\ heap \in [Boxes -> Value]
    /\ place \in [Boxes -> Places]
    /\ held \in [Threads -> [Boxes -> Nat]]
    /\ mail \in Items
    /\ run \in [Threads -> Activity] /\ \A t \in Threads : Shape(run[t])
    /\ localPool \in [Threads -> Items]
    /\ pool \in Items
    /\ queue \in [Threads -> Queue]
    /\ localRoots \in [Threads -> Items]
    /\ pending \in BOOLEAN
    /\ det \in Detector
    /\ underflow \in BOOLEAN
    /\ calls \in Nat

\* The box on its way from the last release to its disposal, and the box
\* whose payload a thread is dropping.
Dying(t) ==
    IF run[t].op \in {"notify", "dispose"} THEN run[t].box
    ELSE IF run[t].op = "child" THEN Last(run[t].work) ELSE NoBox

Shell(t) == IF run[t].op \in DropOps THEN run[t].box ELSE NoBox

\* Each such box is in one thread's hands, and every husk is in some.
Owners ==
    /\ \A t \in Threads :
        /\ Dying(t) # NoBox => place[Dying(t)] = "dying"
        /\ Shell(t) # NoBox => place[Shell(t)] = "husk"
    /\ \A t, u \in Threads : t # u =>
        /\ Dying(t) # NoBox => Dying(t) # Dying(u)
        /\ Shell(t) # NoBox => Shell(t) # Shell(u)
    /\ \A b \in Boxes : place[b] = "husk" => \E t \in Threads : Shell(t) = b

\* The counts, with what they rest on: only live boxes and husks have one, and
\* a dropped box has no items.
Counted(b) ==
    /\ place[b] \in {"live", "dying", "queued", "lost"} => heap[b].rc = Refs(b)
    /\ place[b] \in {"husk", "pooled", "none"} => Refs(b) = 0 /\ heap[b].kids = <<>>
    /\ place[b] = "live" => heap[b].rc > 0
    /\ place[b] \notin {"live", "husk"} => heap[b].rc = 0

Counts == ~underflow /\ \A b \in Boxes : Counted(b)

\* The free lists and the release queues, while nothing was claimed.
Recycled ==
    \A b \in Boxes :
        /\ Count(pool, b) + Total([t \in Threads |-> At(localPool[t], b)])
           = IF place[b] = "pooled" THEN 1 ELSE 0
        /\ Total([t \in Threads |-> At(queue[t].items, b)])
           = IF place[b] = "queued" THEN 1 ELSE 0

IInv == TypeInv /\ Owners /\ Counts /\ Recycled

\* A value that is not frozen belongs to one thread: only that thread holds it,
\* drops it or has queued it, and only values of that thread have it as an item.
Mine(t, b) == heap[b].frozen \/ heap[b].owner = t

Touches(t, b) == Holds(t, b) \/ b \in InWork(t) \/ b \in Range(queue[t].items)

Sound(b) ==
    /\ heap[b].frozen => heap[b].owner = NoOwner
    /\ \A c \in Range(heap[b].kids) :
        IF heap[b].frozen THEN heap[c].frozen ELSE Mine(heap[b].owner, c)

Shared ==
    /\ \A b \in Boxes : Sound(b)
    /\ \A t \in Threads, b \in Boxes : Touches(t, b) => Mine(t, b)
    /\ \A b \in Range(mail) : heap[b].frozen

(***************************************************************************)
(* Sequences of boxes and the places at which a box stands.                *)
(***************************************************************************)

LEMMA AtFinite ==
    ASSUME NEW s \in Items, NEW b
    PROVE  /\ IsFiniteSet(At(s, b)) /\ Count(s, b) \in Nat
           /\ Count(s, b) = 0 <=> b \notin Range(s)
<1>1. Len(s) \in Nat /\ DOMAIN s = 1 .. Len(s)
  BY DEF Items
<1>2. 1 \in Int /\ Len(s) \in Int
  BY <1>1
<1>3. IsFiniteSet(1 .. Len(s))
  BY <1>2, FS_Interval, Zenon
<1>4. At(s, b) \in SUBSET (1 .. Len(s))
  BY <1>1 DEF At
<1>5. IsFiniteSet(At(s, b))
  BY <1>3, <1>4, FS_Subset, Zenon
<1>6. Count(s, b) \in Nat
  BY <1>5, FS_CardinalityType, Zenon DEF Count
<1>7. Count(s, b) = 0 <=> At(s, b) = {}
  BY <1>5, FS_EmptySet, Zenon DEF Count
<1>8. At(s, b) = {} <=> b \notin Range(s)
  BY DEF At, Range
<1> QED
  BY <1>5, <1>6, <1>7, <1>8

LEMMA CountEmpty == ASSUME NEW b PROVE Count(<<>>, b) = 0
<1>1. At(<<>>, b) = {}
  BY DEF At
<1> QED
  BY <1>1, FS_EmptySet, Zenon DEF Count

LEMMA CountOne ==
    ASSUME NEW c, NEW b PROVE Count(<<c>>, b) = IF c = b THEN 1 ELSE 0
<1>1. CASE c = b
  <2>1. At(<<c>>, b) = {1}
    BY <1>1 DEF At
  <2> QED
    BY <2>1, <1>1, FS_Singleton, Zenon DEF Count
<1>2. CASE c # b
  <2>1. At(<<c>>, b) = {}
    BY <1>2 DEF At
  <2> QED
    BY <2>1, <1>2, FS_EmptySet, Zenon DEF Count
<1> QED
  BY <1>1, <1>2

LEMMA AppendType ==
    ASSUME NEW s \in Items, NEW c \in Boxes
    PROVE  /\ Append(s, c) \in Items /\ Len(Append(s, c)) = Len(s) + 1
           /\ DOMAIN Append(s, c) = 1 .. Len(s) + 1
           /\ Append(s, c)[Len(s) + 1] = c
           /\ \A i \in 1 .. Len(s) : Append(s, c)[i] = s[i]
  BY DEF Items

LEMMA CountAppend ==
    ASSUME NEW s \in Items, NEW c \in Boxes, NEW b
    PROVE  Count(Append(s, c), b) = Count(s, b) + IF c = b THEN 1 ELSE 0
<1> DEFINE n == Len(s) + 1
           a == Append(s, c)
<1>1. n \in Nat /\ n \notin 1 .. Len(s) /\ DOMAIN s = 1 .. Len(s)
  BY DEF Items
<1>2. DOMAIN a = 1 .. n /\ a[n] = c /\ \A i \in 1 .. Len(s) : a[i] = s[i]
  BY AppendType
<1>3. n \notin At(s, b)
  BY <1>1 DEF At
<1>4. IsFiniteSet(At(s, b)) /\ Count(s, b) \in Nat
  BY AtFinite
<1> HIDE DEF n
<1> HIDE DEF a
<1>0. 1 .. n = (1 .. Len(s)) \cup {n}
  BY DEF n, Items
<1>5. CASE c = b
  <2>1. At(a, b) = At(s, b) \cup {n}
    BY <1>0, <1>1, <1>2, <1>5 DEF At
  <2>2. Cardinality(At(s, b) \cup {n}) = Cardinality(At(s, b)) + 1
    BY <1>3, <1>4, FS_AddElement, Zenon
  <2> QED
    BY <2>1, <2>2, <1>5 DEF Count, a
<1>6. CASE c # b
  <2>1. At(a, b) = At(s, b)
    BY <1>0, <1>1, <1>2, <1>6 DEF At
  <2> QED
    BY <2>1, <1>4, <1>6 DEF Count, a
<1> QED
  BY <1>5, <1>6

LEMMA FrontType ==
    ASSUME NEW s \in Items, s # <<>>
    PROVE  /\ Front(s) \in Items /\ Last(s) \in Boxes
           /\ s = Append(Front(s), Last(s))
           /\ Last(s) \in Range(s) /\ Range(Front(s)) \subseteq Range(s)
<1>1. Len(s) \in Nat \ {0} /\ DOMAIN s = 1 .. Len(s) /\ \A i \in 1 .. Len(s) : s[i] \in Boxes
  BY DEF Items
<1>2. /\ Front(s) \in Items /\ Len(Front(s)) = Len(s) - 1
      /\ \A i \in 1 .. Len(s) - 1 : Front(s)[i] = s[i]
  BY <1>1 DEF Front, Items
<1>3. Last(s) \in Boxes /\ Last(s) = s[Len(s)]
  BY <1>1 DEF Last
<1>4. s = Append(Front(s), Last(s))
  <2> DEFINE a == Append(Front(s), Last(s))
  <2>0. a \in Items /\ Len(a) = Len(Front(s)) + 1
    BY <1>2, <1>3, AppendType
  <2>1. a \in Seq(Boxes) /\ Len(a) = Len(s)
    BY <2>0, <1>1, <1>2 DEF Items
  <2>2. \A i \in 1 .. Len(s) : s[i] = a[i]
    <3>1. a[Len(s)] = Last(s) /\ \A i \in 1 .. Len(s) - 1 : a[i] = Front(s)[i]
      BY <1>1, <1>2, <1>3, AppendType
    <3> QED
      BY <3>1, <1>1, <1>2, <1>3
  <2> HIDE DEF a
  <2>3. s = a
    BY <2>1, <2>2, SeqEqual DEF Items
  <2> QED
    BY <2>3 DEF a
<1>5. Last(s) \in Range(s)
  BY <1>1, <1>3 DEF Range
<1>6. Range(Front(s)) \subseteq Range(s)
  <2>1. DOMAIN Front(s) = 1 .. Len(s) - 1
    BY <1>2 DEF Items
  <2> QED
    BY <2>1, <1>1, <1>2 DEF Range
<1> QED
  BY <1>2, <1>3, <1>4, <1>5, <1>6

LEMMA CountFront ==
    ASSUME NEW s \in Items, s # <<>>, NEW b
    PROVE  /\ Count(s, b) = Count(Front(s), b) + IF Last(s) = b THEN 1 ELSE 0
           /\ Count(Front(s), b) \in Nat
<1>1. Front(s) \in Items /\ Last(s) \in Boxes /\ s = Append(Front(s), Last(s))
  BY FrontType
<1>2. Count(Append(Front(s), Last(s)), b) = Count(Front(s), b) + IF Last(s) = b THEN 1 ELSE 0
  BY <1>1, CountAppend
<1>3. Count(Front(s), b) \in Nat
  BY <1>1, AtFinite
<1> QED
  BY <1>1, <1>2, <1>3

\* A sequence after another: its places are moved on.
LEMMA CountConcat ==
    ASSUME NEW s \in Items, NEW r \in Items, NEW b
    PROVE  s \o r \in Items /\ Count(s \o r, b) = Count(s, b) + Count(r, b)
<1> DEFINE n == Len(s)
           m == Len(r)
           a == s \o r
           Moved == {i \in n + 1 .. n + m : a[i] = b}
           f == [i \in At(r, b) |-> n + i]
<1>1. n \in Nat /\ m \in Nat /\ DOMAIN s = 1 .. n /\ DOMAIN r = 1 .. m
  BY DEF Items
<1>2. /\ a \in Items /\ DOMAIN a = 1 .. n + m
      /\ \A i \in 1 .. n : a[i] = s[i]
      /\ \A i \in 1 .. m : a[n + i] = r[i]
  BY DEF Items
<1> HIDE DEF n
<1> HIDE DEF m
<1> HIDE DEF a
<1>3. f \in Bijection(At(r, b), Moved)
  <2>1. f \in [At(r, b) -> Moved]
    <3> SUFFICES ASSUME NEW i \in At(r, b) PROVE n + i \in Moved
      OBVIOUS
    <3>1. i \in 1 .. m /\ r[i] = b
      BY <1>1 DEF At
    <3> QED
      BY <3>1, <1>1, <1>2
  <2>2. \A i, j \in At(r, b) : f[i] = f[j] => i = j
    BY <1>1 DEF At
  <2>3. \A k \in Moved : \E i \in At(r, b) : f[i] = k
    <3> SUFFICES ASSUME NEW k \in Moved PROVE \E i \in At(r, b) : f[i] = k
      OBVIOUS
    <3>1. k - n \in 1 .. m /\ n + (k - n) = k
      BY <1>1
    <3>2. k - n \in At(r, b)
      BY <3>1, <1>1, <1>2 DEF At
    <3> QED
      BY <3>1, <3>2
  <2> QED
    BY <2>1, <2>2, <2>3 DEF Bijection, Injection, Surjection, IsInjective
<1>4. IsFiniteSet(At(r, b)) /\ IsFiniteSet(At(s, b)) /\ Count(s, b) \in Nat /\ Count(r, b) \in Nat
  BY AtFinite
<1>5. IsFiniteSet(Moved) /\ Cardinality(Moved) = Count(r, b)
  <2>1. ExistsBijection(At(r, b), Moved)
    BY <1>3 DEF ExistsBijection
  <2> HIDE DEF Moved
  <2> QED
    BY <2>1, <1>4, FS_Bijection, Zenon DEF Count
<1>6. At(a, b) = At(s, b) \cup Moved
  <2>1. 1 .. n + m = (1 .. n) \cup (n + 1 .. n + m)
    BY <1>1
  <2> QED
    BY <2>1, <1>1, <1>2 DEF At
<1>7. At(s, b) \cap Moved = {}
  BY <1>1 DEF At
<1> HIDE DEF Moved
<1>8. Cardinality(At(s, b) \cup Moved) =
      Cardinality(At(s, b)) + Cardinality(Moved) - Cardinality(At(s, b) \cap Moved)
  BY <1>4, <1>5, FS_Union, Zenon
<1>9. Cardinality(At(s, b) \cap Moved) = 0
  BY <1>7, FS_EmptySet, Zenon
<1> QED
  BY <1>2, <1>4, <1>5, <1>6, <1>8, <1>9 DEF Count, a

LEMMA CountTail ==
    ASSUME NEW s \in Items, s # <<>>, NEW b
    PROVE  /\ Head(s) \in Boxes /\ Tail(s) \in Items
           /\ Head(s) \in Range(s) /\ Range(Tail(s)) \subseteq Range(s)
           /\ Count(s, b) = Count(Tail(s), b) + IF Head(s) = b THEN 1 ELSE 0
<1>1. /\ Head(s) \in Boxes /\ Tail(s) \in Items /\ <<Head(s)>> \in Items
      /\ Len(s) \in Nat \ {0} /\ DOMAIN s = 1 .. Len(s)
      /\ DOMAIN Tail(s) = 1 .. Len(s) - 1 /\ \A i \in 1 .. Len(s) - 1 : Tail(s)[i] = s[i + 1]
      /\ s[1] = Head(s)
  BY DEF Items
<1>2. s = <<Head(s)>> \o Tail(s)
  BY DEF Items
<1>3. Count(<<Head(s)>> \o Tail(s), b) = Count(<<Head(s)>>, b) + Count(Tail(s), b)
  BY <1>1, CountConcat
<1>7. Count(s, b) = Count(<<Head(s)>> \o Tail(s), b)
  BY <1>2, Zenon
<1>4. Count(<<Head(s)>>, b) = IF Head(s) = b THEN 1 ELSE 0
  BY CountOne
<1>5. Count(Tail(s), b) \in Nat
  BY <1>1, AtFinite
<1>6. Head(s) \in Range(s) /\ Range(Tail(s)) \subseteq Range(s)
  BY <1>1 DEF Range
<1> QED
  BY <1>1, <1>3, <1>4, <1>5, <1>6, <1>7

(***************************************************************************)
(* Families of finite sets.                                                *)
(***************************************************************************)

Family(D, R) == DOMAIN R = D /\ \A x \in D : IsFiniteSet(R[x])

LEMMA TotalSplit ==
    ASSUME NEW D, IsFiniteSet(D), NEW R, Family(D, R), NEW x \in D
    PROVE  LET rest == UNION {{y} \X R[y] : y \in D \ {x}} IN
           /\ IsFiniteSet(rest)
           /\ Total(R) = Cardinality(rest) + Cardinality(R[x])
<1> DEFINE rest == UNION {{y} \X R[y] : y \in D \ {x}}
           row == {x} \X R[x]
           sets == {{y} \X R[y] : y \in D \ {x}}
           f == [y \in D \ {x} |-> {y} \X R[y]]
<1>1. IsFiniteSet(D \ {x})
  BY FS_Difference, Zenon
<1>2. f \in Surjection(D \ {x}, sets)
  BY DEF Surjection
<1>3. IsFiniteSet(sets)
  <2> HIDE DEF f
  <2> HIDE DEF sets
  <2> QED
    BY <1>1, <1>2, FS_Surjection, Zenon
<1>4. \A s \in sets : IsFiniteSet(s)
  <2> SUFFICES ASSUME NEW y \in D \ {x} PROVE IsFiniteSet({y} \X R[y])
    OBVIOUS
  <2>1. IsFiniteSet({y}) /\ IsFiniteSet(R[y])
    BY FS_Singleton DEF Family
  <2> QED
    BY <2>1, FS_Product, Zenon
<1>5. IsFiniteSet(rest)
  <2>1. IsFiniteSet(UNION sets)
    <3> HIDE DEF sets
    <3> QED
      BY <1>3, <1>4, FS_UNION, Zenon
  <2> QED
    BY <2>1
<1>6. IsFiniteSet(row) /\ Cardinality(row) = Cardinality(R[x]) /\ Cardinality(R[x]) \in Nat
  <2>1. IsFiniteSet({x}) /\ Cardinality({x}) = 1 /\ IsFiniteSet(R[x])
    BY FS_Singleton DEF Family
  <2>2. IsFiniteSet(row) /\ Cardinality(row) = Cardinality({x}) * Cardinality(R[x])
    BY <2>1, FS_Product, Zenon
  <2>3. Cardinality(R[x]) \in Nat
    BY <2>1, FS_CardinalityType, Zenon
  <2> QED
    BY <2>1, <2>2, <2>3
<1>7. UNION {{y} \X R[y] : y \in DOMAIN R} = rest \cup row
  BY DEF Family
<1>8. rest \cap row = {}
  OBVIOUS
<1> HIDE DEF rest
<1> HIDE DEF row
<1>9. Cardinality(rest \cup row) = Cardinality(rest) + Cardinality(row) - Cardinality(rest \cap row)
  BY <1>5, <1>6, FS_Union, Zenon
<1>10. Cardinality(rest \cap row) = 0
  BY <1>8, FS_EmptySet, Zenon
<1>11. Cardinality(rest) \in Nat
  BY <1>5, FS_CardinalityType, Zenon
<1>12. Total(R) = Cardinality(rest \cup row)
  BY <1>7, Zenon DEF Total
<1>13. Total(R) = Cardinality(rest) + Cardinality(R[x])
  BY <1>6, <1>9, <1>10, <1>11, <1>12
<1> QED
  BY <1>5, <1>13 DEF rest

\* One set changes: the total changes as that set does.
LEMMA TotalUpdate ==
    ASSUME NEW D, IsFiniteSet(D), NEW R, Family(D, R), NEW Q, Family(D, Q),
           NEW x \in D, \A y \in D \ {x} : Q[y] = R[y]
    PROVE  /\ Total(R) \in Nat /\ Total(Q) \in Nat
           /\ Total(Q) - Cardinality(Q[x]) = Total(R) - Cardinality(R[x])
           /\ Total(R) >= Cardinality(R[x])
<1> DEFINE rest(P) == UNION {{y} \X P[y] : y \in D \ {x}}
<1>1. IsFiniteSet(rest(R)) /\ Total(R) = Cardinality(rest(R)) + Cardinality(R[x])
  BY TotalSplit
<1>2. Total(Q) = Cardinality(rest(Q)) + Cardinality(Q[x])
  BY TotalSplit
<1>3. rest(Q) = rest(R)
  OBVIOUS
<1> HIDE DEF rest
<1>4. Cardinality(rest(R)) \in Nat
  BY <1>1, FS_CardinalityType, Zenon
<1>5. IsFiniteSet(R[x]) /\ IsFiniteSet(Q[x])
  BY DEF Family
<1>6. Cardinality(R[x]) \in Nat /\ Cardinality(Q[x]) \in Nat
  BY <1>5, FS_CardinalityType, Zenon
<1> QED
  BY <1>1, <1>2, <1>3, <1>4, <1>6

LEMMA IntervalSize ==
    ASSUME NEW n \in Nat PROVE IsFiniteSet(1 .. n) /\ Cardinality(1 .. n) = n
<1>1. 1 \in Int /\ n \in Int
  OBVIOUS
<1>2. IsFiniteSet(1 .. n) /\ Cardinality(1 .. n) = IF 1 > n THEN 0 ELSE n - 1 + 1
  BY <1>1, FS_Interval, Zenon
<1> QED
  BY <1>2

(***************************************************************************)
(* What is reached from a set of boxes.                                    *)
(***************************************************************************)

LEMMA ClosureLeast ==
    ASSUME NEW start, NEW next, NEW s \in SUBSET Boxes,
           start \subseteq s, \A b \in s : next[b] \subseteq s
    PROVE  Closure(start, next) \subseteq s
  BY DEF Closure

LEMMA ClosureClosed ==
    ASSUME NEW start \in SUBSET Boxes, NEW next, \A b \in Boxes : next[b] \subseteq Boxes
    PROVE  /\ Closure(start, next) \subseteq Boxes
           /\ start \subseteq Closure(start, next)
           /\ \A b \in Closure(start, next) : next[b] \subseteq Closure(start, next)
  BY DEF Closure

(***************************************************************************)
(* Values.                                                                 *)
(***************************************************************************)

LEMMA UnitType ==
    ASSUME NEW o \in Owner
    PROVE  /\ Unit(o) \in Value /\ Unit(o).rc = 1 /\ Unit(o).kids = <<>>
           /\ Unit(o).frozen = FALSE /\ Unit(o).owner = o
           /\ Pooled(Unit(o)) \in Value /\ Pooled(Unit(o)).rc = 0 /\ Pooled(Unit(o)).kids = <<>>
           /\ Pooled(Unit(o)).frozen = FALSE /\ Pooled(Unit(o)).owner = NoOwner
<1>1. <<>> \in Items
  BY DEF Items
<1> QED
  BY <1>1 DEF Unit, Pooled, Value, Owner, NoOwner, Tags

LEMMA PooledType ==
    ASSUME NEW v \in Value
    PROVE  /\ Pooled(v) \in Value /\ Pooled(v).rc = 0 /\ Pooled(v).kids = v.kids
           /\ Pooled(v).frozen = v.frozen /\ Pooled(v).owner = NoOwner /\ Pooled(v).tag = v.tag
  BY DEF Pooled, Value, Owner

LEMMA NewValueType ==
    ASSUME NEW t \in Threads, NEW kind \in Kinds, NEW items \in Items
    PROVE  /\ NewValue(t, kind, items) \in Value /\ NewValue(t, kind, items).rc = 1
           /\ NewValue(t, kind, items).kids = items /\ NewValue(t, kind, items).tag = kind
           /\ NewValue(t, kind, items).frozen = FALSE /\ NewValue(t, kind, items).owner = t
  BY KindsAssumption DEF NewValue, Value, Owner, Tags

\* The fields of a value that retaining and releasing leave alone.
Same(v, w) ==
    /\ w.tag = v.tag /\ w.frozen = v.frozen /\ w.owner = v.owner /\ w.kids = v.kids

LEMMA RetainEffect ==
    ASSUME NEW h \in [Boxes -> Value], NEW items \in Items
    PROVE  /\ RetainAll(h, items) \in [Boxes -> Value]
           /\ \A b \in Boxes :
               /\ Same(h[b], RetainAll(h, items)[b])
               /\ h[b].rc = 0 => RetainAll(h, items)[b].rc = 0
               /\ h[b].rc > 0 => RetainAll(h, items)[b].rc = h[b].rc + Count(items, b)
<1> DEFINE r == RetainAll(h, items)
<1>1. ASSUME NEW b \in Boxes
      PROVE  /\ r[b] \in Value /\ Same(h[b], r[b])
             /\ h[b].rc = 0 => r[b].rc = 0
             /\ h[b].rc > 0 => r[b].rc = h[b].rc + Count(items, b)
  <2>1. Count(items, b) \in Nat
    BY AtFinite
  <2>2. r[b] = IF h[b].rc = 0 THEN h[b] ELSE [h[b] EXCEPT !.rc = @ + Count(items, b)]
    BY DEF RetainAll
  <2>3. h[b] \in Value /\ h[b].rc \in Nat
    BY DEF Value
  <2> HIDE DEF r
  <2>4. CASE h[b].rc = 0
    BY <2>2, <2>3, <2>4 DEF Same
  <2>5. CASE h[b].rc # 0
    <3> DEFINE n == h[b].rc + Count(items, b)
    <3>1. n \in Nat /\ r[b] = [h[b] EXCEPT !.rc = n]
      BY <2>1, <2>2, <2>3, <2>5
    <3> HIDE DEF n
    <3>2. r[b] \in Value /\ Same(h[b], r[b]) /\ r[b].rc = n
      BY <3>1, <2>3 DEF Same, Value
    <3> QED
      BY <3>2, <2>3, <2>5 DEF n
  <2> QED
    BY <2>4, <2>5
<1>2. r \in [Boxes -> Value]
  <2>1. r = [b \in Boxes |-> r[b]]
    BY DEF RetainAll
  <2> HIDE DEF r
  <2> QED
    BY <2>1, <1>1
<1> QED
  BY <1>1, <1>2

LEMMA FreezeEffect ==
    ASSUME NEW h \in [Boxes -> Value], NEW b \in Boxes
    PROVE  /\ Freeze(h, b) \in [Boxes -> Value]
           /\ \A x \in Boxes :
               /\ Freeze(h, b)[x].rc = h[x].rc /\ Freeze(h, b)[x].kids = h[x].kids
               /\ Freeze(h, b)[x].tag = h[x].tag
               /\ x \in Through(h, b) =>
                      Freeze(h, b)[x].frozen /\ Freeze(h, b)[x].owner = NoOwner
               /\ x \notin Through(h, b) => Freeze(h, b)[x] = h[x]
<1> DEFINE f == Freeze(h, b)
<1>1. \A x \in Boxes : f[x] = IF x \in Through(h, b)
                              THEN [h[x] EXCEPT !.frozen = TRUE, !.owner = NoOwner] ELSE h[x]
  BY DEF Freeze
<1>2. f = [x \in Boxes |-> f[x]]
  BY DEF Freeze
<1> HIDE DEF f
<1>3. ASSUME NEW x \in Boxes
      PROVE  /\ f[x] \in Value /\ f[x].rc = h[x].rc /\ f[x].kids = h[x].kids
             /\ f[x].tag = h[x].tag
             /\ x \in Through(h, b) => f[x].frozen /\ f[x].owner = NoOwner
             /\ x \notin Through(h, b) => f[x] = h[x]
  <2>1. h[x] \in Value
    OBVIOUS
  <2>2. CASE x \in Through(h, b)
    <3>1. f[x] = [h[x] EXCEPT !.frozen = TRUE, !.owner = NoOwner]
      BY <2>2, <1>1
    <3> QED
      BY <3>1, <2>1, <2>2 DEF Value, Owner
  <2>3. CASE x \notin Through(h, b)
    BY <2>1, <2>3, <1>1
  <2> QED
    BY <2>2, <2>3
<1>4. f \in [Boxes -> Value]
  BY <1>2, <1>3
<1> QED
  BY <1>3, <1>4 DEF f

(***************************************************************************)
(* What a thread is doing.                                                 *)
(***************************************************************************)

Runs == run \in [Threads -> Activity] /\ \A t \in Threads : Shape(run[t])

LEMMA IdleType ==
    /\ Idle \in Activity /\ Shape(Idle) /\ Idle.op = "idle" /\ Idle.box = NoBox
    /\ Idle.work = <<>>
<1>1. <<>> \in Items
  BY DEF Items
<1> QED
  BY <1>1, BoxesAssumption DEF Idle, Activity, Shape, Ops, BoxOps, DropOps, ChildOps

LEMMA RunSet ==
    ASSUME Runs, NEW t \in Threads, NEW a \in Activity, Shape(a),
           run' = [run EXCEPT ![t] = a]
    PROVE  /\ Runs' /\ run'[t] = a
           /\ \A u \in Threads \ {t} : run'[u] = run[u]
  BY DEF Runs

LEMMA EnterEffect ==
    ASSUME Runs, NEW t \in Threads, NEW op \in Ops, NEW b \in Boxes \cup {NoBox},
           op \notin DropOps, op # "free",
           op \in BoxOps <=> b \in Boxes,
           Enter(t, op, b)
    PROVE  /\ Runs' /\ \A u \in Threads \ {t} : run'[u] = run[u]
           /\ run'[t].op = op /\ run'[t].box = b /\ run'[t].work = <<>>
<1> DEFINE a == [Idle EXCEPT !.op = op, !.box = b]
<1>1. a \in Activity /\ a.op = op /\ a.box = b /\ a.work = <<>>
  BY IdleType DEF Activity
<1>2. Shape(a)
  <2> HIDE DEF a
  <2> QED
    BY <1>1 DEF Shape, BoxOps, DropOps, ChildOps
<1>3. run' = [run EXCEPT ![t] = a]
  BY DEF Enter
<1> HIDE DEF a
<1> QED
  BY <1>1, <1>2, <1>3, RunSet

LEMMA StopEffect ==
    ASSUME Runs, NEW t \in Threads, run' = [run EXCEPT ![t] = Idle]
    PROVE  /\ Runs' /\ \A u \in Threads \ {t} : run'[u] = run[u]
           /\ run'[t].op = "idle" /\ run'[t].box = NoBox /\ run'[t].work = <<>>
  BY IdleType, RunSet

LEMMA PhaseEffect ==
    ASSUME Runs, NEW t \in Threads, NEW op \in Ops, NEW s \in SUBSET Boxes,
           op \notin BoxOps, op = "free" => s = {},
           Phase(t, op, s)
    PROVE  /\ Runs' /\ \A u \in Threads \ {t} : run'[u] = run[u]
           /\ run'[t].op = op /\ run'[t].box = NoBox /\ run'[t].work = <<>>
           /\ run'[t].todo = s
<1> DEFINE a == [Idle EXCEPT !.op = op, !.todo = s]
<1>1. a \in Activity /\ a.op = op /\ a.box = NoBox /\ a.work = <<>> /\ a.todo = s
  BY IdleType DEF Activity
<1>2. Shape(a)
  <2> HIDE DEF a
  <2> QED
    BY <1>1, BoxesAssumption DEF Shape, BoxOps, DropOps, ChildOps
<1>3. run' = [run EXCEPT ![t] = a]
  BY DEF Phase
<1> HIDE DEF a
<1> QED
  BY <1>1, <1>2, <1>3, RunSet

LEMMA DropEffect ==
    ASSUME Runs, NEW t \in Threads, NEW b \in Boxes, NEW then \in {"idle", "drain"},
           heap[b].kids \in Items, Drop(t, b, then)
    PROVE  /\ Runs' /\ \A u \in Threads \ {t} : run'[u] = run[u]
           /\ run'[t].op = "drop" /\ run'[t].box = b /\ run'[t].work = heap[b].kids
<1> DEFINE k == heap[b].kids
           a == [Idle EXCEPT !.op = "drop", !.box = b, !.work = k, !.then = then]
<1>1. k \in Items /\ run' = [run EXCEPT ![t] = a]
  BY DEF Drop
<1> HIDE DEF k
<1>2. a \in Activity /\ a.op = "drop" /\ a.box = b /\ a.work = k
  BY <1>1, IdleType DEF Activity, Ops
<1>3. Shape(a)
  <2> HIDE DEF a
  <2> QED
    BY <1>2 DEF Shape, BoxOps, DropOps, ChildOps
<1> HIDE DEF a
<1> QED
  BY <1>1, <1>2, <1>3, RunSet DEF k

\* The worklist and the operation of a thread that drops a box.
LEMMA WorkEffect ==
    ASSUME Runs, NEW t \in Threads, NEW op \in DropOps, NEW w \in Items,
           run[t].op \in DropOps, op \in ChildOps => w # <<>>,
           run' = [run EXCEPT ![t] = [run[t] EXCEPT !.op = op, !.work = w]]
    PROVE  /\ Runs' /\ \A u \in Threads \ {t} : run'[u] = run[u]
           /\ run'[t].op = op /\ run'[t].box = run[t].box /\ run'[t].work = w
<1> DEFINE a == [run[t] EXCEPT !.op = op, !.work = w]
<1>1. run[t] \in Activity /\ run[t].box \in Boxes
  BY DEF Runs, Shape, BoxOps, DropOps
<1>2. a \in Activity /\ a.op = op /\ a.box = run[t].box /\ a.work = w
  BY <1>1 DEF Activity, Ops, DropOps
<1>3. Shape(a)
  <2> HIDE DEF a
  <2> QED
    BY <1>1, <1>2 DEF Shape, BoxOps, DropOps, ChildOps
<1>4. run' = [run EXCEPT ![t] = a]
  OBVIOUS
<1> HIDE DEF a
<1> QED
  BY <1>2, <1>3, <1>4, RunSet

(***************************************************************************)
(* The pools and the detector.                                             *)
(***************************************************************************)

LEMMA TakeBoxType ==
    ASSUME localPool \in [Threads -> Items], pool \in Items, NEW t \in Threads, TakeBox(t)
    PROVE  /\ localPool' \in [Threads -> Items] /\ pool' \in Items
           /\ \A u \in Threads \ {t} : localPool'[u] = localPool[u]
           /\ localPool[t] # <<>> => localPool'[t] = Front(localPool[t]) /\ pool' = pool
           /\ localPool[t] = <<>> /\ pool # <<>> =>
                  localPool'[t] = <<>> /\ pool' = Front(pool)
           /\ localPool[t] = <<>> /\ pool = <<>> => localPool'[t] = <<>> /\ pool' = pool
<1>1. localPool[t] # <<>> => Front(localPool[t]) \in Items
  BY FrontType
<1>2. pool # <<>> => Front(pool) \in Items
  BY FrontType
<1> QED
  BY <1>1, <1>2 DEF TakeBox

LEMMA RecycleType ==
    ASSUME localPool \in [Threads -> Items], pool \in Items, place \in [Boxes -> Places],
           NEW t \in Threads, NEW b \in Boxes, Recycle(t, b)
    PROVE  /\ localPool' \in [Threads -> Items] /\ pool' \in Items
           /\ place' \in [Boxes -> Places]
           /\ \A x \in Boxes \ {b} : place'[x] = place[x]
           /\ \A u \in Threads \ {t} : localPool'[u] = localPool[u]
           /\ \/ /\ place'[b] = "pooled" /\ pool' = pool
                 /\ localPool'[t] = Append(localPool[t], b)
              \/ /\ place'[b] = "pooled" /\ pool' = Append(pool, b)
                 /\ localPool'[t] = localPool[t]
              \/ /\ place'[b] = "none" /\ pool' = pool
                 /\ localPool'[t] = localPool[t]
<1>1. Append(localPool[t], b) \in Items /\ Append(pool, b) \in Items
  BY AppendType
<1>2. /\ localPool' = IF RecycleTo(t) = "local"
                      THEN [localPool EXCEPT ![t] = Append(localPool[t], b)] ELSE localPool
      /\ pool' = IF RecycleTo(t) = "shared" THEN Append(pool, b) ELSE pool
      /\ place' = [place EXCEPT ![b] = IF RecycleTo(t) = "system" THEN "none" ELSE "pooled"]
  BY DEF Recycle
<1>3. RecycleTo(t) \in {"local", "shared", "system"}
  <2>1. LocalPoolLimit \in Nat /\ PoolLimit \in Nat
    BY LimitsAssumption
  <2>2. Len(localPool[t]) \in Nat /\ Len(pool) \in Nat
    BY DEF Items
  <2> QED
    BY <2>1, <2>2 DEF RecycleTo
<1>4. CASE RecycleTo(t) = "local"
  BY <1>1, <1>2, <1>4 DEF Places
<1>5. CASE RecycleTo(t) = "shared"
  BY <1>1, <1>2, <1>5 DEF Places
<1>6. CASE RecycleTo(t) = "system"
  BY <1>1, <1>2, <1>6 DEF Places
<1> QED
  BY <1>3, <1>4, <1>5, <1>6

LEMMA InfoType ==
    ASSUME NEW info
    PROVE  info \in Infos <=> /\ info \in [DOMAIN info -> Colours] /\ DOMAIN info \subseteq Boxes
  BY DEF Infos

LEMMA PaintEffect ==
    ASSUME NEW info \in Infos, NEW s \in SUBSET Boxes, NEW colour \in Colours
    PROVE  /\ Paint(info, s, colour) \in Infos
           /\ DOMAIN Paint(info, s, colour) = DOMAIN info \cup s
           /\ \A x \in s : Paint(info, s, colour)[x] = colour
           /\ \A x \in DOMAIN info \ s : Paint(info, s, colour)[x] = info[x]
<1> DEFINE p == Paint(info, s, colour)
<1>1. info \in [DOMAIN info -> Colours] /\ DOMAIN info \subseteq Boxes
  BY InfoType
<1>2. p = [x \in DOMAIN info \cup s |-> IF x \in s THEN colour ELSE info[x]]
  BY DEF Paint
<1> HIDE DEF p
<1>3. p \in [DOMAIN info \cup s -> Colours] /\ DOMAIN info \cup s \in SUBSET Boxes
  BY <1>1, <1>2
<1>4. p \in Infos
  BY <1>3 DEF Infos
<1>5. /\ DOMAIN p = DOMAIN info \cup s
      /\ \A x \in s : p[x] = colour
  BY <1>2
<1>6. \A y \in DOMAIN info \ s : p[y] = info[y]
  BY <1>2
<1> QED
  BY <1>4, <1>5, <1>6 DEF p

LEMMA RestrictEffect ==
    ASSUME NEW info \in Infos, NEW s
    PROVE  /\ Restrict(info, DOMAIN info \ s) \in Infos
           /\ DOMAIN Restrict(info, DOMAIN info \ s) = DOMAIN info \ s
           /\ \A x \in DOMAIN info \ s : Restrict(info, DOMAIN info \ s)[x] = info[x]
<1> DEFINE p == Restrict(info, DOMAIN info \ s)
<1>1. info \in [DOMAIN info -> Colours] /\ DOMAIN info \subseteq Boxes
  BY InfoType
<1>2. p = [x \in DOMAIN info \ s |-> info[x]]
  BY DEF Restrict
<1> HIDE DEF p
<1>3. p \in [DOMAIN info \ s -> Colours] /\ DOMAIN info \ s \in SUBSET Boxes
  BY <1>1, <1>2
<1> QED
  BY <1>2, <1>3 DEF Infos, p

\* The detector's knowledge after a step in which no box becomes gray or white.
Paler(info, next) ==
    /\ next \in Infos
    /\ \A x \in DOMAIN next :
        next[x] \in {"gray", "white"} => x \in DOMAIN info /\ info[x] = next[x]

LEMMA PalerSame == ASSUME NEW info \in Infos PROVE Paler(info, info)
  BY DEF Paler

LEMMA FlushedEffect ==
    ASSUME heap \in [Boxes -> Value], NEW d \in Detector, NEW addrs \in Items
    PROVE  Flushed(d, addrs) \in Detector /\ Paler(d.info, Flushed(d, addrs).info)
<1> DEFINE found == {b \in Range(addrs) : IsContainer(heap[b])}
           p == Paint(d.info, found, "purple")
<1>1. found \in SUBSET Boxes
  BY DEF Range, Items
<1>2. /\ d.info \in Infos /\ d.young \in SUBSET Boxes /\ d.roots \in SUBSET Boxes
  BY DEF Detector
<1>3. "purple" \in Colours
  BY DEF Colours
<1> HIDE DEF found
<1>4. /\ p \in Infos /\ DOMAIN p = DOMAIN d.info \cup found
      /\ \A x \in found : p[x] = "purple"
      /\ \A x \in DOMAIN d.info \ found : p[x] = d.info[x]
  <2>1. p \in Infos /\ DOMAIN p = DOMAIN d.info \cup found
    BY <1>1, <1>2, <1>3, PaintEffect
  <2> QED
    BY <2>1 DEF Paint
<1>5. Flushed(d, addrs) = [d EXCEPT !.info = p, !.young = d.young \cup found,
                                    !.roots = d.roots \cup found]
  BY DEF Flushed, found
<1> HIDE DEF p
<1>6. Flushed(d, addrs) \in Detector /\ Flushed(d, addrs).info = p
  BY <1>1, <1>2, <1>4, <1>5, ZenonT(30) DEF Detector
<1>7. Paler(d.info, p)
  BY <1>4 DEF Paler
<1> QED
  BY <1>6, <1>7

LEMMA PalerTwice ==
    ASSUME NEW a, NEW b, NEW c, Paler(a, b), Paler(b, c) PROVE Paler(a, c)
  BY DEF Paler

Roots ==
    /\ heap \in [Boxes -> Value] /\ localRoots \in [Threads -> Items]
    /\ pending \in BOOLEAN /\ det \in Detector

LEMMA PossibleRootEffect ==
    ASSUME Roots, NEW t \in Threads, NEW b \in Boxes, PossibleRoot(t, b)
    PROVE  /\ localRoots' \in [Threads -> Items] /\ pending' \in BOOLEAN
           /\ det' \in Detector /\ Paler(det.info, det'.info)
<1>0. det.info \in Infos
  BY DEF Detector, Roots
<1>1. CASE ~IsContainer(heap[b])
  <2>1. UNCHANGED <<localRoots, pending, det>>
    BY <1>1 DEF PossibleRoot
  <2> QED
    BY <2>1, <1>0, PalerSame DEF Roots
<1>2. CASE IsContainer(heap[b])
  <2> DEFINE before == IF pending THEN Flushed(det, localRoots[t]) ELSE det
             kept == IF pending THEN <<b>> ELSE Append(localRoots[t], b)
             full == Len(kept) >= RootLimit
  <2>1. /\ pending' = FALSE
        /\ det' = IF full THEN Flushed(before, kept) ELSE before
        /\ localRoots' = [localRoots EXCEPT ![t] = IF full THEN <<>> ELSE kept]
    BY <1>2 DEF PossibleRoot
  <2>2. localRoots[t] \in Items
    BY DEF Roots
  <2>3. kept \in Items /\ <<>> \in Items
    <3>1. <<b>> \in Items /\ <<>> \in Items
      BY DEF Items
    <3> QED
      BY <3>1, <2>2, AppendType
  <2>4. Flushed(det, localRoots[t]) \in Detector /\ Paler(det.info, Flushed(det, localRoots[t]).info)
    BY <2>2, FlushedEffect DEF Roots
  <2>5. before \in Detector /\ Paler(det.info, before.info)
    BY <2>4, <1>0, PalerSame DEF Roots
  <2> HIDE DEF before
  <2> HIDE DEF kept
  <2>6. Flushed(before, kept) \in Detector /\ Paler(before.info, Flushed(before, kept).info)
    BY <2>3, <2>5, FlushedEffect DEF Roots
  <2>7. Paler(det.info, Flushed(before, kept).info)
    BY <2>5, <2>6, PalerTwice
  <2>8. det' \in Detector /\ Paler(det.info, det'.info)
    BY <2>1, <2>5, <2>6, <2>7
  <2>9. localRoots' \in [Threads -> Items]
    BY <2>1, <2>3 DEF Roots
  <2> QED
    BY <2>1, <2>8, <2>9
<1> QED
  BY <1>1, <1>2

LEMMA ForgetEffect ==
    ASSUME NEW d \in Detector, NEW b
    PROVE  /\ Forget(d, b) \in Detector /\ Paler(d.info, Forget(d, b).info)
           /\ b \notin DOMAIN Forget(d, b).info
<1> DEFINE p == Restrict(d.info, DOMAIN d.info \ {b})
<1>1. /\ d.info \in Infos /\ d.young \in SUBSET Boxes /\ d.roots \in SUBSET Boxes
      /\ d.old \in SUBSET Boxes
  BY DEF Detector
<1>2. /\ p \in Infos /\ DOMAIN p = DOMAIN d.info \ {b}
      /\ \A x \in DOMAIN d.info \ {b} : p[x] = d.info[x]
  BY <1>1, RestrictEffect
<1>3. Forget(d, b) = [d EXCEPT !.roots = d.roots \ {b}, !.young = d.young \ {b},
                               !.old = d.old \ {b}, !.info = p]
  BY DEF Forget
<1> HIDE DEF p
<1>4. Forget(d, b) \in Detector /\ Forget(d, b).info = p
  BY <1>1, <1>2, <1>3, ZenonT(30) DEF Detector
<1> QED
  BY <1>2, <1>4 DEF Paler

(***************************************************************************)
(* The phases of a collection.                                             *)
(***************************************************************************)

LEMMA KidsType ==
    ASSUME heap \in [Boxes -> Value], NEW b \in Boxes
    PROVE  heap[b].kids \in Items /\ Range(heap[b].kids) \subseteq Boxes
<1>1. heap[b].kids \in Items
  BY DEF Value
<1> QED
  BY <1>1 DEF Items, Range

LEMMA MarkGrayEffect ==
    ASSUME heap \in [Boxes -> Value], NEW info \in Infos, NEW b \in Boxes
    PROVE  /\ MarkGray(info, b) \in Infos
           /\ \A s \in SUBSET Boxes :
               b \in s /\ (\A x \in s : Range(heap[x].kids) \subseteq s)
               => \A x \in DOMAIN MarkGray(info, b) :
                    x \in s \/ (x \in DOMAIN info /\ MarkGray(info, b)[x] = info[x])
<1> DEFINE gray == {x \in DOMAIN info : info[x] = "gray"}
           next == [x \in Boxes |-> Range(heap[x].kids) \ gray]
           start == {b} \ gray
           c == Closure(start, next)
<1>1. c \in SUBSET Boxes
  BY DEF Closure
<1>2. "gray" \in Colours
  BY DEF Colours
<1>3. MarkGray(info, b) = Paint(info, c, "gray")
  BY DEF MarkGray
<1>4. ASSUME NEW s \in SUBSET Boxes, b \in s, \A x \in s : Range(heap[x].kids) \subseteq s
      PROVE  c \subseteq s
  <2>1. start \subseteq s /\ \A x \in s : next[x] \subseteq s
    BY <1>4
  <2> HIDE DEF start
  <2> HIDE DEF next
  <2> QED
    BY <2>1, ClosureLeast
<1> HIDE DEF c
<1>5. Paint(info, c, "gray") \in Infos
  BY <1>1, <1>2, PaintEffect
<1>6. \A x \in DOMAIN Paint(info, c, "gray") :
        x \in c \/ (x \in DOMAIN info /\ Paint(info, c, "gray")[x] = info[x])
  BY DEF Paint
<1> QED
  BY <1>3, <1>4, <1>5, <1>6

LEMMA MarkRootEffect ==
    ASSUME heap \in [Boxes -> Value], NEW d \in Detector, NEW b \in Boxes
    PROVE  /\ MarkRoot(d, b) \in Detector
           /\ \/ Paler(d.info, MarkRoot(d, b).info)
              \/ heap[b].rc > 0 /\ MarkRoot(d, b).info = MarkGray(d.info, b)
<1>1. d.info \in Infos /\ d.roots \in SUBSET Boxes /\ Paler(d.info, d.info)
  BY PalerSame DEF Detector
<1>2. CASE b \notin DOMAIN d.info
  <2>1. MarkRoot(d, b) = [d EXCEPT !.roots = d.roots \ {b}]
    BY <1>2 DEF MarkRoot
  <2>2. MarkRoot(d, b) \in Detector /\ MarkRoot(d, b).info = d.info
    BY <2>1, <1>1 DEF Detector
  <2> QED
    BY <2>2, <1>1
<1>3. CASE b \in DOMAIN d.info /\ d.info[b] = "purple" /\ heap[b].rc > 0
  <2> DEFINE g == MarkGray(d.info, b)
  <2>1. MarkRoot(d, b) = [d EXCEPT !.info = g]
    BY <1>3 DEF MarkRoot
  <2>2. g \in Infos
    BY <1>1, MarkGrayEffect
  <2> HIDE DEF g
  <2>3. MarkRoot(d, b) \in Detector /\ MarkRoot(d, b).info = g
    BY <2>1, <2>2, <1>1 DEF Detector
  <2> QED
    BY <2>3, <1>3 DEF g
<1>4. CASE b \in DOMAIN d.info /\ ~(d.info[b] = "purple" /\ heap[b].rc > 0)
  <2> DEFINE r == Restrict(d.info, DOMAIN d.info \ {b})
             i == IF d.info[b] = "black" /\ heap[b].rc = 0 THEN r ELSE d.info
  <2>1. MarkRoot(d, b) = [d EXCEPT !.roots = d.roots \ {b}, !.info = i]
    BY <1>4 DEF MarkRoot
  <2>2. r \in Infos
    BY <1>1, RestrictEffect
  <2>3. Paler(d.info, r)
    BY <2>2 DEF Paler, Restrict
  <2> HIDE DEF r
  <2>4. i \in Infos /\ Paler(d.info, i)
    BY <2>2, <2>3, <1>1
  <2> HIDE DEF i
  <2>5. MarkRoot(d, b) \in Detector /\ MarkRoot(d, b).info = i
    BY <2>1, <2>4, <1>1 DEF Detector
  <2> QED
    BY <2>4, <2>5
<1> QED
  BY <1>2, <1>3, <1>4

(***************************************************************************)
(* A step of thread t that changes at most what t holds and does, the      *)
(* mailbox, and the place and the items of one box x: what becomes of the  *)
(* references.                                                             *)
(***************************************************************************)

Steady(t, x) ==
    /\ \A u \in Threads \ {t} : run'[u] = run[u] /\ held'[u] = held[u]
    /\ \A y \in Boxes \ {x} : place'[y] = place[y] /\ heap'[y].kids = heap[y].kids

Going(t, b) == IF run[t].op = "release" /\ run[t].box = b THEN 1 ELSE 0

\* The references of which such a step may change the number.
Part(t, x, b) ==
    held[t][b] + Count(mail, b) + Count(heap[x].kids, b) + Count(Waiting(t), b) + Going(t, b)

LEMMA WaitingType ==
    ASSUME Runs, NEW t \in Threads
    PROVE  Waiting(t) \in Items /\ Range(Waiting(t)) \subseteq Range(run[t].work)
<1>1. run[t].work \in Items /\ (run[t].op \in ChildOps => run[t].work # <<>>)
  BY DEF Runs, Activity, Shape
<1> QED
  BY <1>1, FrontType DEF Waiting, ChildOps

\* One family of references: rows of which one changes.
LEMMA HeldStep ==
    ASSUME held \in [Threads -> [Boxes -> Nat]], held' \in [Threads -> [Boxes -> Nat]],
           NEW t \in Threads, NEW b \in Boxes, \A u \in Threads \ {t} : held'[u] = held[u]
    PROVE  LET R == [u \in Threads |-> 1 .. held[u][b]]
               Q == [u \in Threads |-> 1 .. held'[u][b]]
           IN  /\ Total(R) \in Nat /\ Total(Q) \in Nat /\ Total(R) >= held[t][b]
               /\ Total(Q) - held'[t][b] = Total(R) - held[t][b]
<1> DEFINE R == [u \in Threads |-> 1 .. held[u][b]]
           Q == [u \in Threads |-> 1 .. held'[u][b]]
<1>1. \A u \in Threads : held[u][b] \in Nat /\ held'[u][b] \in Nat
  OBVIOUS
<1>2. Family(Threads, R) /\ Family(Threads, Q)
  BY <1>1, IntervalSize DEF Family
<1>3. \A u \in Threads \ {t} : Q[u] = R[u]
  OBVIOUS
<1>4. Cardinality(R[t]) = held[t][b] /\ Cardinality(Q[t]) = held'[t][b]
  BY <1>1, IntervalSize
<1> HIDE DEF R
<1> HIDE DEF Q
<1>5. /\ Total(R) \in Nat /\ Total(Q) \in Nat
      /\ Total(Q) - Cardinality(Q[t]) = Total(R) - Cardinality(R[t])
      /\ Total(R) >= Cardinality(R[t])
  BY <1>2, <1>3, ThreadsAssumption, TotalUpdate
<1> QED
  BY <1>4, <1>5 DEF R, Q

\* The same for sequences: s and r give one to each member of D.
LEMMA PlacesStep ==
    ASSUME NEW D, IsFiniteSet(D), NEW s \in [D -> Items], NEW r \in [D -> Items],
           NEW x \in D, NEW b, \A y \in D \ {x} : r[y] = s[y]
    PROVE  LET R == [y \in D |-> At(s[y], b)]
               Q == [y \in D |-> At(r[y], b)]
           IN  /\ Total(R) \in Nat /\ Total(Q) \in Nat /\ Total(R) >= Count(s[x], b)
               /\ Total(Q) - Count(r[x], b) = Total(R) - Count(s[x], b)
<1> DEFINE R == [y \in D |-> At(s[y], b)]
           Q == [y \in D |-> At(r[y], b)]
<1>1. Family(D, R) /\ Family(D, Q)
  BY AtFinite DEF Family
<1>2. \A y \in D \ {x} : Q[y] = R[y]
  OBVIOUS
<1>3. Cardinality(R[x]) = Count(s[x], b) /\ Cardinality(Q[x]) = Count(r[x], b)
  BY DEF Count
<1> HIDE DEF R
<1> HIDE DEF Q
<1>4. /\ Total(R) \in Nat /\ Total(Q) \in Nat
      /\ Total(Q) - Cardinality(Q[x]) = Total(R) - Cardinality(R[x])
      /\ Total(R) >= Cardinality(R[x])
  BY <1>1, <1>2, TotalUpdate
<1> QED
  BY <1>3, <1>4 DEF R, Q

\* Sets of threads of which one may join or leave.
LEMMA MembersStep ==
    ASSUME NEW S \in SUBSET Threads, NEW T \in SUBSET Threads, NEW t \in Threads,
           \A u \in Threads \ {t} : u \in T <=> u \in S
    PROVE  LET s == IF t \in S THEN 1 ELSE 0
               r == IF t \in T THEN 1 ELSE 0
           IN  /\ Cardinality(S) \in Nat /\ Cardinality(T) \in Nat
               /\ Cardinality(T) - r = Cardinality(S) - s /\ Cardinality(S) >= s
<1>1. IsFiniteSet(S) /\ IsFiniteSet(T)
  BY FS_Subset, ThreadsAssumption, Zenon
<1>2. Cardinality(S) \in Nat /\ Cardinality(T) \in Nat
  BY <1>1, FS_CardinalityType, Zenon
<1>3. /\ Cardinality(S \ {t}) = IF t \in S THEN Cardinality(S) - 1 ELSE Cardinality(S)
      /\ Cardinality(T \ {t}) = IF t \in T THEN Cardinality(T) - 1 ELSE Cardinality(T)
  BY <1>1, FS_RemoveElement, Zenon
<1>4. S \ {t} = T \ {t}
  OBVIOUS
<1>5. Cardinality(S \ {t}) \in Nat
  <2>1. IsFiniteSet(S \ {t})
    BY <1>1, FS_Difference, Zenon
  <2> QED
    BY <2>1, FS_CardinalityType, Zenon
<1> QED
  BY <1>2, <1>3, <1>4, <1>5

Typed ==
    /\ heap \in [Boxes -> Value] /\ held \in [Threads -> [Boxes -> Nat]] /\ mail \in Items /\ Runs

LEMMA RefsStep ==
    ASSUME Typed, Typed', NEW t \in Threads, NEW x \in Boxes, NEW b \in Boxes, Steady(t, x)
    PROVE  /\ Refs(b) \in Nat /\ Refs(b)' \in Nat
           /\ Part(t, x, b) \in Nat /\ Part(t, x, b)' \in Nat
           /\ Refs(b)' - Part(t, x, b)' = Refs(b) - Part(t, x, b)
           /\ Refs(b) >= Part(t, x, b)
<1> DEFINE hs == Total([u \in Threads |-> 1 .. held[u][b]])
           is == Total([y \in Boxes |-> At(heap[y].kids, b)])
           ws == Total([u \in Threads |-> At(Waiting(u), b)])
           rs == {u \in Threads : run[u].op = "release" /\ run[u].box = b}
<1>1. /\ hs \in Nat /\ hs' \in Nat /\ hs >= held[t][b]
      /\ hs' - held'[t][b] = hs - held[t][b]
      /\ held[t][b] \in Nat /\ held'[t][b] \in Nat
  BY HeldStep DEF Typed, Steady
<1>2. /\ is \in Nat /\ is' \in Nat /\ is >= Count(heap[x].kids, b)
      /\ is' - Count(heap'[x].kids, b) = is - Count(heap[x].kids, b)
  <2> DEFINE s == [y \in Boxes |-> heap[y].kids]
             r == [y \in Boxes |-> heap'[y].kids]
  <2>1. s \in [Boxes -> Items] /\ r \in [Boxes -> Items] /\ \A y \in Boxes \ {x} : r[y] = s[y]
    BY DEF Typed, Value, Steady
  <2>2. /\ is = Total([y \in Boxes |-> At(s[y], b)])
        /\ is' = Total([y \in Boxes |-> At(r[y], b)])
        /\ s[x] = heap[x].kids /\ r[x] = heap'[x].kids
    OBVIOUS
  <2> HIDE DEF s
  <2> HIDE DEF r
  <2>3. /\ Total([y \in Boxes |-> At(s[y], b)]) \in Nat
        /\ Total([y \in Boxes |-> At(r[y], b)]) \in Nat
        /\ Total([y \in Boxes |-> At(s[y], b)]) >= Count(s[x], b)
        /\ Total([y \in Boxes |-> At(r[y], b)]) - Count(r[x], b)
           = Total([y \in Boxes |-> At(s[y], b)]) - Count(s[x], b)
    BY <2>1, BoxesAssumption, PlacesStep, SMTT(30)
  <2> HIDE DEF is
  <2> QED
    BY <2>2, <2>3
<1>3. /\ ws \in Nat /\ ws' \in Nat /\ ws >= Count(Waiting(t), b)
      /\ ws' - Count(Waiting(t)', b) = ws - Count(Waiting(t), b)
  <2> DEFINE R == [u \in Threads |-> At(Waiting(u), b)]
             Q == [u \in Threads |-> At(Waiting(u)', b)]
  <2>1. \A u \in Threads \ {t} : Waiting(u)' = Waiting(u)
    BY DEF Waiting, Steady
  <2>2. \A u \in Threads : Waiting(u) \in Items /\ Waiting(u)' \in Items
    <3>1. ASSUME NEW u \in Threads PROVE Waiting(u) \in Items
      BY WaitingType DEF Typed
    <3>2. ASSUME NEW u \in Threads PROVE Waiting(u)' \in Items
      <4>1. run'[u].work \in Items /\ (run'[u].op \in ChildOps => run'[u].work # <<>>)
        BY DEF Typed, Runs, Activity, Shape
      <4> QED
        BY <4>1, FrontType DEF Waiting, ChildOps
    <3> QED
      BY <3>1, <3>2
  <2>3. Family(Threads, R) /\ Family(Threads, Q) /\ \A u \in Threads \ {t} : Q[u] = R[u]
    BY <2>1, <2>2, AtFinite DEF Family
  <2>4. Cardinality(R[t]) = Count(Waiting(t), b) /\ Cardinality(Q[t]) = Count(Waiting(t)', b)
    BY DEF Count
  <2>5. ws = Total(R) /\ ws' = Total(Q)
    OBVIOUS
  <2> HIDE DEF R
  <2> HIDE DEF Q
  <2>6. /\ Total(R) \in Nat /\ Total(Q) \in Nat
        /\ Total(Q) - Cardinality(Q[t]) = Total(R) - Cardinality(R[t])
        /\ Total(R) >= Cardinality(R[t])
    BY <2>3, ThreadsAssumption, TotalUpdate
  <2> HIDE DEF ws
  <2> QED
    BY <2>4, <2>5, <2>6
<1>4. /\ Cardinality(rs) \in Nat /\ Cardinality(rs)' \in Nat /\ Cardinality(rs) >= Going(t, b)
      /\ Cardinality(rs)' - Going(t, b)' = Cardinality(rs) - Going(t, b)
  <2>1. rs \in SUBSET Threads /\ rs' \in SUBSET Threads
    OBVIOUS
  <2>2. \A u \in Threads \ {t} : u \in rs' <=> u \in rs
    BY DEF Steady
  <2>3. /\ Going(t, b) = IF t \in rs THEN 1 ELSE 0
        /\ Going(t, b)' = IF t \in rs' THEN 1 ELSE 0
    BY DEF Going
  <2> HIDE DEF rs
  <2> QED
    BY <2>1, <2>2, <2>3, MembersStep
<1>5. /\ Count(mail, b) \in Nat /\ Count(mail, b)' \in Nat
      /\ Count(heap[x].kids, b) \in Nat /\ Count(heap[x].kids, b)' \in Nat
      /\ Count(Waiting(t), b) \in Nat /\ Count(Waiting(t), b)' \in Nat
  <2>1. mail \in Items /\ mail' \in Items /\ heap[x].kids \in Items /\ heap'[x].kids \in Items
    BY DEF Typed, Value
  <2>2. Waiting(t) \in Items /\ Waiting(t)' \in Items
    <3>1. run'[t].work \in Items /\ (run'[t].op \in ChildOps => run'[t].work # <<>>)
      BY DEF Typed, Runs, Activity, Shape
    <3>2. Waiting(t)' \in Items
      BY <3>1, FrontType DEF Waiting, ChildOps
    <3> QED
      BY <3>2, WaitingType DEF Typed
  <2> QED
    BY <2>1, <2>2, AtFinite
<1>6. Going(t, b) \in {0, 1} /\ Going(t, b)' \in {0, 1}
  BY DEF Going
<1>7. /\ Refs(b) = hs + Count(mail, b) + is + ws + Cardinality(rs)
      /\ Refs(b)' = hs' + Count(mail, b)' + is' + ws' + Cardinality(rs)'
  BY DEF Refs
<1>8. /\ Part(t, x, b) = held[t][b] + Count(mail, b) + Count(heap[x].kids, b)
                         + Count(Waiting(t), b) + Going(t, b)
      /\ Part(t, x, b)' = held'[t][b] + Count(mail, b)' + Count(heap[x].kids, b)'
                         + Count(Waiting(t), b)' + Going(t, b)'
  BY DEF Part
<1> HIDE DEF hs
<1> HIDE DEF is
<1> HIDE DEF ws
<1> HIDE DEF rs
<1> DEFINE hp == held'[t][b]
           m == Count(mail, b)
           mp == Count(mail', b)
           k == Count(heap[x].kids, b)
           kp == Count(heap'[x].kids, b)
           w == Count(Waiting(t), b)
           wp == Count(Waiting(t)', b)
           g == Going(t, b)
           gp == Going(t, b)'
           c == Cardinality(rs)
           cp == Cardinality(rs)'
<1>9. /\ m \in Nat /\ mp \in Nat /\ k \in Nat /\ kp \in Nat /\ w \in Nat /\ wp \in Nat
      /\ g \in Nat /\ gp \in Nat /\ c \in Nat /\ cp \in Nat
      /\ is >= k /\ is' - kp = is - k /\ ws >= w /\ ws' - wp = ws - w
      /\ c >= g /\ cp - gp = c - g /\ hp \in Nat /\ hs' - hp = hs - held[t][b]
  BY <1>1, <1>2, <1>3, <1>4, <1>5, <1>6
<1>10. /\ Refs(b) = hs + m + is + ws + c /\ Refs(b)' = hs' + mp + is' + ws' + cp
       /\ Part(t, x, b) = held[t][b] + m + k + w + g
       /\ Part(t, x, b)' = hp + mp + kp + wp + gp
  BY <1>7, <1>8
<1> HIDE DEF hp
<1> HIDE DEF m
<1> HIDE DEF mp
<1> HIDE DEF k
<1> HIDE DEF kp
<1> HIDE DEF w
<1> HIDE DEF wp
<1> HIDE DEF g
<1> HIDE DEF gp
<1> HIDE DEF c
<1> HIDE DEF cp
<1>11. hs \in Nat /\ is \in Nat /\ ws \in Nat /\ hs' \in Nat /\ is' \in Nat /\ ws' \in Nat
  BY <1>1, <1>2, <1>3
<1>12. Refs(b) \in Nat /\ Refs(b)' \in Nat
  BY <1>9, <1>10, <1>11
<1>13. Part(t, x, b) \in Nat /\ Part(t, x, b)' \in Nat
  BY <1>1, <1>9, <1>10
<1>14. Refs(b) >= Part(t, x, b)
  BY <1>1, <1>9, <1>10, <1>11
<1>15. Refs(b)' - Part(t, x, b)' = Refs(b) - Part(t, x, b)
  <2>1. Refs(b) - Part(t, x, b) = (hs - held[t][b]) + (is - k) + (ws - w) + (c - g)
    BY <1>1, <1>9, <1>10, <1>11
  <2>2. Refs(b)' - Part(t, x, b)' = (hs' - hp) + (is' - kp) + (ws' - wp) + (cp - gp)
    BY <1>1, <1>9, <1>10, <1>11
  <2> QED
    BY <2>1, <2>2, <1>9
<1> QED
  BY <1>12, <1>13, <1>14, <1>15

LEMMA RefsBound ==
    ASSUME Typed, NEW t \in Threads, NEW x \in Boxes, NEW b \in Boxes
    PROVE  /\ Refs(b) \in Nat
           /\ Holds(t, b) \/ b \in Range(mail) \/ b \in Range(heap[x].kids)
              \/ b \in Range(Waiting(t)) \/ (run[t].op = "release" /\ run[t].box = b)
              => Refs(b) > 0
<1> DEFINE H == [u \in Threads |-> 1 .. held[u][b]]
           K == [y \in Boxes |-> At(heap[y].kids, b)]
           W == [u \in Threads |-> At(Waiting(u), b)]
           rs == {u \in Threads : run[u].op = "release" /\ run[u].box = b}
<1>1. /\ Family(Threads, H) /\ Cardinality(H[t]) = held[t][b] /\ held[t][b] \in Nat
  <2>1. \A u \in Threads : held[u][b] \in Nat
    BY DEF Typed
  <2> QED
    BY <2>1, IntervalSize DEF Family
<1>2. Family(Boxes, K) /\ Cardinality(K[x]) = Count(heap[x].kids, b)
  <2>1. \A y \in Boxes : heap[y].kids \in Items
    BY KidsType DEF Typed
  <2> QED
    BY <2>1, AtFinite DEF Family, Count
<1>3. Family(Threads, W) /\ Cardinality(W[t]) = Count(Waiting(t), b)
  <2>1. \A u \in Threads : Waiting(u) \in Items
    BY WaitingType DEF Typed
  <2> QED
    BY <2>1, AtFinite DEF Family, Count
<1>4. /\ Cardinality(rs) \in Nat
      /\ run[t].op = "release" /\ run[t].box = b => Cardinality(rs) > 0
  <2>1. rs \in SUBSET Threads
    OBVIOUS
  <2>2. t \in rs <=> run[t].op = "release" /\ run[t].box = b
    OBVIOUS
  <2> HIDE DEF rs
  <2> QED
    BY <2>1, <2>2, MembersStep
<1>5. /\ Count(mail, b) \in Nat /\ (b \in Range(mail) => Count(mail, b) > 0)
      /\ b \in Range(heap[x].kids) => Count(heap[x].kids, b) > 0
      /\ b \in Range(Waiting(t)) => Count(Waiting(t), b) > 0
  <2>1. mail \in Items /\ heap[x].kids \in Items /\ Waiting(t) \in Items
    BY KidsType, WaitingType DEF Typed
  <2> QED
    BY <2>1, AtFinite
<1>6. Refs(b) = Total(H) + Count(mail, b) + Total(K) + Total(W) + Cardinality(rs)
  BY DEF Refs
<1> HIDE DEF H
<1> HIDE DEF K
<1> HIDE DEF W
<1> HIDE DEF rs
<1>7. IsFiniteSet(Threads) /\ IsFiniteSet(Boxes)
  BY ThreadsAssumption, BoxesAssumption
<1>8. Total(H) \in Nat /\ Total(H) >= Cardinality(H[t])
  BY <1>1, <1>7, TotalUpdate
<1>9. Total(K) \in Nat /\ Total(K) >= Cardinality(K[x])
  BY <1>2, <1>7, TotalUpdate
<1>10. Total(W) \in Nat /\ Total(W) >= Cardinality(W[t])
  BY <1>3, <1>7, TotalUpdate
<1>11. Count(heap[x].kids, b) \in Nat /\ Count(Waiting(t), b) \in Nat
  BY KidsType, WaitingType, AtFinite DEF Typed
<1> QED
  BY <1>1, <1>2, <1>3, <1>4, <1>5, <1>6, <1>8, <1>9, <1>10, <1>11 DEF Holds

\* A box that somebody refers to is live.
LEMMA Referenced ==
    ASSUME TypeInv, Counts, NEW b \in Boxes, Refs(b) > 0
    PROVE  place[b] = "live" /\ heap[b].rc = Refs(b)
<1>1. place[b] \in Places
  BY DEF TypeInv
<1>2. /\ place[b] \in {"live", "dying", "queued", "lost"} => heap[b].rc = Refs(b)
      /\ place[b] \in {"husk", "pooled", "none"} => Refs(b) = 0
      /\ place[b] \notin {"live", "husk"} => heap[b].rc = 0
  BY DEF Counts, Counted
<1>3. Refs(b) # 0
  OBVIOUS
<1> QED
  BY <1>1, <1>2, <1>3 DEF Places

LEMMA TypeParts ==
    ASSUME TypeInv
    PROVE  /\ Typed /\ Runs /\ Roots
  BY DEF TypeInv, Typed, Runs, Roots

(***************************************************************************)
(* The free lists and the release queues.                                  *)
(***************************************************************************)

Free(b) == Count(pool, b) + Total([t \in Threads |-> At(localPool[t], b)])
Late(b) == Total([t \in Threads |-> At(queue[t].items, b)])

\* What thread t can change of them.
Near(t, b) == Count(pool, b) + Count(localPool[t], b)

Lists == localPool \in [Threads -> Items] /\ pool \in Items

LEMMA FreeStep ==
    ASSUME Lists, Lists', NEW t \in Threads, NEW b \in Boxes,
           \A u \in Threads \ {t} : localPool'[u] = localPool[u]
    PROVE  /\ Free(b) \in Nat /\ Free(b)' \in Nat /\ Near(t, b) \in Nat /\ Near(t, b)' \in Nat
           /\ Free(b)' - Near(t, b)' = Free(b) - Near(t, b) /\ Free(b) >= Near(t, b)
<1> DEFINE R == [u \in Threads |-> At(localPool[u], b)]
           Q == [u \in Threads |-> At(localPool'[u], b)]
<1>1. Family(Threads, R) /\ Family(Threads, Q) /\ \A u \in Threads \ {t} : Q[u] = R[u]
  BY AtFinite DEF Family, Lists
<1>2. Cardinality(R[t]) = Count(localPool[t], b) /\ Cardinality(Q[t]) = Count(localPool'[t], b)
  BY DEF Count
<1>3. Free(b) = Count(pool, b) + Total(R) /\ Free(b)' = Count(pool', b) + Total(Q)
  BY DEF Free
<1>4. Near(t, b) = Count(pool, b) + Count(localPool[t], b)
      /\ Near(t, b)' = Count(pool', b) + Count(localPool'[t], b)
  BY DEF Near
<1>5. /\ Count(pool, b) \in Nat /\ Count(localPool[t], b) \in Nat
      /\ Count(pool', b) \in Nat /\ Count(localPool'[t], b) \in Nat
  BY AtFinite DEF Lists
<1> HIDE DEF R
<1> HIDE DEF Q
<1>6. /\ Total(R) \in Nat /\ Total(Q) \in Nat
      /\ Total(Q) - Cardinality(Q[t]) = Total(R) - Cardinality(R[t])
      /\ Total(R) >= Cardinality(R[t])
  BY <1>1, ThreadsAssumption, TotalUpdate
<1> QED
  BY <1>2, <1>3, <1>4, <1>5, <1>6

LEMMA LateStep ==
    ASSUME queue \in [Threads -> Queue], queue' \in [Threads -> Queue],
           NEW t \in Threads, NEW b \in Boxes, \A u \in Threads \ {t} : queue'[u] = queue[u]
    PROVE  LET q == Count(queue[t].items, b)
               n == Count(queue'[t].items, b)
           IN  /\ Late(b) \in Nat /\ Late(b)' \in Nat /\ q \in Nat /\ n \in Nat
               /\ Late(b)' - n = Late(b) - q /\ Late(b) >= q
<1> DEFINE R == [u \in Threads |-> At(queue[u].items, b)]
           Q == [u \in Threads |-> At(queue'[u].items, b)]
<1>0. \A u \in Threads : queue[u].items \in Items /\ queue'[u].items \in Items
  BY DEF Queue
<1>1. Family(Threads, R) /\ Family(Threads, Q) /\ \A u \in Threads \ {t} : Q[u] = R[u]
  BY <1>0, AtFinite DEF Family
<1>2. /\ Cardinality(R[t]) = Count(queue[t].items, b)
      /\ Cardinality(Q[t]) = Count(queue'[t].items, b)
  BY DEF Count
<1>3. Late(b) = Total(R) /\ Late(b)' = Total(Q)
  BY DEF Late
<1>4. Count(queue[t].items, b) \in Nat /\ Count(queue'[t].items, b) \in Nat
  BY <1>0, AtFinite
<1> HIDE DEF R
<1> HIDE DEF Q
<1>5. /\ Total(R) \in Nat /\ Total(Q) \in Nat
      /\ Total(Q) - Cardinality(Q[t]) = Total(R) - Cardinality(R[t])
      /\ Total(R) >= Cardinality(R[t])
  BY <1>1, ThreadsAssumption, TotalUpdate
<1> QED
  BY <1>2, <1>3, <1>4, <1>5

LEMMA ListsDefined ==
    Recycled <=> \A b \in Boxes :
        /\ Free(b) = IF place[b] = "pooled" THEN 1 ELSE 0
        /\ Late(b) = IF place[b] = "queued" THEN 1 ELSE 0
  BY DEF Recycled, Free, Late

\* A step that leaves the lists alone, and the places up to boxes that are in none.
LEMMA ListsKept ==
    ASSUME Recycled, UNCHANGED <<localPool, pool, queue>>,
           \A b \in Boxes : /\ place'[b] = "pooled" <=> place[b] = "pooled"
                            /\ place'[b] = "queued" <=> place[b] = "queued"
    PROVE  Recycled'
  BY DEF Recycled

(***************************************************************************)
(* The boxes in the hands of a thread, the marks, the collector.           *)
(***************************************************************************)

LEMMA OwnersStep ==
    ASSUME TypeInv, Owners, NEW t \in Threads, NEW x,
           \A u \in Threads \ {t} : run'[u] = run[u],
           \A y \in Boxes \ {x} : place'[y] = place[y],
           \/ x \notin Boxes \/ x = Dying(t) \/ x = Shell(t) \/ place[x] \notin {"dying", "husk"},
           \/ Dying(t)' = NoBox
           \/ Dying(t)' = Dying(t) /\ place'[Dying(t)] = "dying"
           \/ Dying(t)' = x /\ x \in Boxes /\ place[x] # "dying" /\ place'[x] = "dying",
           \/ Shell(t)' = NoBox
           \/ Shell(t)' = Shell(t) /\ place'[Shell(t)] = "husk"
           \/ Shell(t)' = x /\ x \in Boxes /\ place[x] # "husk" /\ place'[x] = "husk",
           x \in Boxes /\ place'[x] = "husk" => Shell(t)' = x,
           Shell(t) \in Boxes => Shell(t)' = Shell(t) \/ place'[Shell(t)] # "husk"
    PROVE  Owners'
<1>0. NoBox \notin Boxes
  BY BoxesAssumption
<1>1. \A u \in Threads : Dying(u) \in Boxes \cup {NoBox} /\ Shell(u) \in Boxes \cup {NoBox}
  <2> SUFFICES ASSUME NEW u \in Threads
               PROVE  Dying(u) \in Boxes \cup {NoBox} /\ Shell(u) \in Boxes \cup {NoBox}
    OBVIOUS
  <2>1. /\ run[u].box \in Boxes \cup {NoBox} /\ run[u].work \in Items
        /\ run[u].op \in ChildOps => run[u].work # <<>>
    BY DEF TypeInv, Activity, Shape
  <2>2. run[u].op = "child" => Last(run[u].work) \in Boxes
    BY <2>1, FrontType DEF ChildOps
  <2> QED
    BY <2>1, <2>2 DEF Dying, Shell
<1>2. \A u \in Threads \ {t} : Dying(u)' = Dying(u) /\ Shell(u)' = Shell(u)
  BY DEF Dying, Shell
<1>3. \A u \in Threads : /\ Dying(u) # NoBox => place[Dying(u)] = "dying"
                         /\ Shell(u) # NoBox => place[Shell(u)] = "husk"
  BY DEF Owners
<1>4. \A u, v \in Threads : u # v => /\ Dying(u) # NoBox => Dying(u) # Dying(v)
                                     /\ Shell(u) # NoBox => Shell(u) # Shell(v)
  BY DEF Owners
<1>5. \A u \in Threads \ {t} :
        /\ Dying(u) # NoBox => Dying(u) # x \/ x \notin Boxes
        /\ Shell(u) # NoBox => Shell(u) # x \/ x \notin Boxes
  BY <1>0, <1>1, <1>3, <1>4
<1>6. \A u \in Threads : /\ Dying(u)' # NoBox => place'[Dying(u)'] = "dying"
                         /\ Shell(u)' # NoBox => place'[Shell(u)'] = "husk"
  <2>1. /\ Dying(t)' # NoBox => place'[Dying(t)'] = "dying"
        /\ Shell(t)' # NoBox => place'[Shell(t)'] = "husk"
    OBVIOUS
  <2>2. ASSUME NEW u \in Threads \ {t}
        PROVE  /\ Dying(u)' # NoBox => place'[Dying(u)'] = "dying"
               /\ Shell(u)' # NoBox => place'[Shell(u)'] = "husk"
    BY <1>1, <1>2, <1>3, <1>5
  <2> QED
    BY <2>1, <2>2
<1>7. ASSUME NEW u \in Threads \ {t}
      PROVE  /\ Dying(u)' # NoBox => Dying(u)' # Dying(t)'
             /\ Dying(t)' # NoBox => Dying(u)' # Dying(t)'
             /\ Shell(u)' # NoBox => Shell(u)' # Shell(t)'
             /\ Shell(t)' # NoBox => Shell(u)' # Shell(t)'
  BY <1>0, <1>1, <1>2, <1>4, <1>5
<1>8. \A u, v \in Threads : u # v => /\ Dying(u)' # NoBox => Dying(u)' # Dying(v)'
                                     /\ Shell(u)' # NoBox => Shell(u)' # Shell(v)'
  BY <1>2, <1>4, <1>7
<1>9. ASSUME NEW b \in Boxes, place'[b] = "husk" PROVE \E u \in Threads : Shell(u)' = b
  <2>1. CASE b = x
    BY <2>1, <1>9
  <2>2. CASE b # x
    <3>1. place[b] = "husk"
      BY <2>2, <1>9
    <3>2. PICK u \in Threads : Shell(u) = b
      BY <3>1 DEF Owners
    <3>3. CASE u = t
      BY <3>2, <3>3, <1>9
    <3>4. CASE u # t
      BY <3>2, <3>4, <1>2
    <3> QED
      BY <3>3, <3>4
  <2> QED
    BY <2>1, <2>2
<1> QED
  BY <1>6, <1>8, <1>9 DEF Owners

(***************************************************************************)
(* Steps that move no box to another place.                                *)
(***************************************************************************)

\* The thread works on no box, before and after.
LEMMA QuietStep ==
    ASSUME IInv, NEW t \in Threads, Runs', calls' \in Nat,
           UNCHANGED <<heap, place, held, mail, localPool, pool, underflow>>,
           queue' \in [Threads -> Queue], \A u \in Threads : queue'[u].items = queue[u].items,
           localRoots' \in [Threads -> Items], pending' \in BOOLEAN, det' \in Detector,
           \A u \in Threads \ {t} : run'[u] = run[u],
           run[t].op \notin (BoxOps \ {"root"}), run'[t].op \notin (BoxOps \ {"root"})
    PROVE  IInv'
<1>0. TypeInv'
  BY DEF IInv, TypeInv, Runs
<1>1. run[t].work = <<>> /\ run'[t].work = <<>>
  BY DEF IInv, TypeInv, Runs, Shape, BoxOps, DropOps
<1>2. Dying(t) = NoBox /\ Shell(t) = NoBox /\ Dying(t)' = NoBox /\ Shell(t)' = NoBox
  BY DEF Dying, Shell, BoxOps, DropOps
<1>3. Owners'
  <2>1. TypeInv /\ Owners /\ NoBox \notin Boxes
    BY BoxesAssumption DEF IInv
  <2> QED
    BY <2>1, <1>2, OwnersStep
<1>4. \A u \in Threads : Waiting(u)' = Waiting(u)
  <2>1. Waiting(t)' = Waiting(t)
    BY <1>1 DEF Waiting, BoxOps
  <2>2. \A u \in Threads \ {t} : Waiting(u)' = Waiting(u)
    BY DEF Waiting
  <2> QED
    BY <2>1, <2>2
<1>5. ASSUME NEW b \in Boxes PROVE Refs(b)' = Refs(b)
  <2>1. \A u \in Threads : run'[u].op = "release" /\ run'[u].box = b
                           <=> run[u].op = "release" /\ run[u].box = b
    BY DEF BoxOps
  <2>2. {u \in Threads : run[u].op = "release" /\ run[u].box = b}'
        = {u \in Threads : run[u].op = "release" /\ run[u].box = b}
    BY <2>1
  <2>3. [u \in Threads |-> At(Waiting(u), b)]' = [u \in Threads |-> At(Waiting(u), b)]
    BY <1>4
  <2>4. /\ [u \in Threads |-> 1 .. held[u][b]]' = [u \in Threads |-> 1 .. held[u][b]]
        /\ Count(mail, b)' = Count(mail, b)
        /\ [y \in Boxes |-> At(heap[y].kids, b)]' = [y \in Boxes |-> At(heap[y].kids, b)]
    OBVIOUS
  <2> QED
    BY <2>2, <2>3, <2>4 DEF Refs
<1>6. Counts'
  BY <1>5 DEF IInv, Counts, Counted
<1>7. Recycled'
  BY DEF IInv, Recycled
<1> QED
  BY <1>0, <1>3, <1>6, <1>7 DEF IInv

\* A live box changes its count with the references to it.
LEMMA LiveStep ==
    ASSUME IInv, NEW t \in Threads, NEW x \in Boxes, TypeInv', Steady(t, x),
           UNCHANGED <<place, localPool, pool, queue, underflow>>,
           run[t].op \notin {"notify", "dispose", "child"},
           run'[t].op \notin {"notify", "dispose", "child"},
           Shell(t)' = Shell(t),
           \A b \in Boxes :
               /\ heap'[b].rc - heap[b].rc = Part(t, x, b)' - Part(t, x, b)
               /\ place[b] # "live" =>
                      heap'[b].rc = heap[b].rc /\ heap'[b].kids = heap[b].kids
               /\ place[b] = "live" => heap'[b].rc > 0
    PROVE  Counts' /\ Owners' /\ Recycled'
<1>1. Dying(t) = NoBox /\ Dying(t)' = NoBox
  BY DEF Dying
<1>2. Owners'
  <2>1. TypeInv /\ Owners /\ NoBox \notin Boxes
    BY BoxesAssumption DEF IInv
  <2>2. Shell(t) # NoBox => place[Shell(t)] = "husk"
    BY <2>1 DEF Owners
  <2>3. /\ \A u \in Threads \ {t} : run'[u] = run[u]
        /\ \A y \in Boxes \ {NoBox} : place'[y] = place[y]
        /\ Shell(t)' = NoBox \/ (Shell(t)' = Shell(t) /\ place'[Shell(t)] = "husk")
    BY <2>2 DEF Steady
  <2> QED
    BY <2>1, <2>3, <1>1, OwnersStep
<1>3. ASSUME NEW b \in Boxes PROVE Counted(b)'
  <2>1. Typed /\ Typed'
    BY DEF IInv, TypeInv, Typed, Runs
  <2>2. /\ Refs(b) \in Nat /\ Refs(b)' \in Nat
        /\ Part(t, x, b) \in Nat /\ Part(t, x, b)' \in Nat
        /\ Refs(b)' - Part(t, x, b)' = Refs(b) - Part(t, x, b)
    BY <2>1, RefsStep
  <2>3. heap[b].rc \in Nat /\ heap'[b].rc \in Nat
    BY DEF IInv, TypeInv, Value
  <2>4. Counted(b)
    BY DEF IInv, Counts
  <2>5. Refs(b)' - Refs(b) = heap'[b].rc - heap[b].rc
    BY <2>2, <2>3
  <2>6. place[b] # "live" => Refs(b)' = Refs(b)
    BY <2>2, <2>3, <2>5
  <2>7. place[b] = "live" => heap'[b].rc = Refs(b)'
    BY <2>2, <2>3, <2>4, <2>5 DEF Counted
  <2> QED
    BY <2>4, <2>6, <2>7 DEF Counted
<1>4. Counts'
  BY <1>3 DEF IInv, Counts
<1>5. Recycled'
  BY DEF IInv, Recycled
<1> QED
  BY <1>2, <1>4, <1>5

LEMMA CallFacts ==
    ASSUME TypeInv, NEW t \in Threads, Call(t)
    PROVE  /\ run[t].op = "idle" /\ run[t].box = NoBox /\ run[t].work = <<>> /\ Waiting(t) = <<>>
           /\ Dying(t) = NoBox /\ Shell(t) = NoBox
           /\ \A b \in Boxes : Going(t, b) = 0 /\ Count(Waiting(t), b) = 0
           /\ calls' \in Nat
<1>1. run[t].op = "idle" /\ run[t].box \in Boxes \cup {NoBox} /\ Shape(run[t]) /\ calls \in Nat
  BY DEF TypeInv, Activity, Call
<1>2. run[t].box = NoBox /\ run[t].work = <<>>
  BY <1>1 DEF Shape, BoxOps, DropOps
<1>3. Waiting(t) = <<>>
  BY <1>1, <1>2 DEF Waiting
<1>4. \A b \in Boxes : Going(t, b) = 0 /\ Count(Waiting(t), b) = 0
  BY <1>1, <1>3, CountEmpty DEF Going
<1> QED
  BY <1>1, <1>2, <1>3, <1>4 DEF Call, Dying, Shell, DropOps

\* A call of the program that changes what thread t holds, the mailbox, or
\* the items of x: the counts follow.
LEMMA CallStep ==
    ASSUME IInv, NEW t \in Threads, NEW x \in Boxes, Call(t), Typed', Steady(t, x),
           UNCHANGED <<place, localPool, pool, queue, localRoots, pending, det, underflow>>,
           run'[t].op \in {"idle", "release"},
           \A b \in Boxes :
               /\ heap'[b].rc - heap[b].rc = Part(t, x, b)' - Part(t, x, b)
               /\ place[b] # "live" =>
                      heap'[b].rc = heap[b].rc /\ heap'[b].kids = heap[b].kids
               /\ place[b] = "live" => heap'[b].rc > 0
    PROVE  IInv'
<1>1. TypeInv
  BY DEF IInv
<1>2. run[t].op = "idle" /\ Shell(t) = NoBox /\ calls' \in Nat
  BY <1>1, CallFacts
<1>3. TypeInv'
  BY <1>1, <1>2 DEF TypeInv, Typed, Runs
<1>4. Counts' /\ Owners' /\ Recycled'
  <2>1. Shell(t)' = Shell(t)
    BY <1>2 DEF Shell, DropOps
  <2> QED
    BY <2>1, <1>2, <1>3, LiveStep
<1> QED
  BY <1>3, <1>4 DEF IInv

(***************************************************************************)
(* The calls of the program.                                               *)
(***************************************************************************)

LEMMA TakeEffect ==
    ASSUME held \in [Threads -> [Boxes -> Nat]], NEW t \in Threads, NEW b \in Boxes,
           held' = Take(t, b)
    PROVE  /\ held' \in [Threads -> [Boxes -> Nat]]
           /\ \A u \in Threads \ {t} : held'[u] = held[u]
           /\ \A y \in Boxes : held'[t][y] = held[t][y] + IF y = b THEN 1 ELSE 0
  BY DEF Take

\* Retaining one live box.
LEMMA RetainOne ==
    ASSUME NEW h \in [Boxes -> Value], NEW b \in Boxes, h[b].rc > 0
    PROVE  /\ RetainAll(h, <<b>>) \in [Boxes -> Value]
           /\ \A y \in Boxes :
               /\ Same(h[y], RetainAll(h, <<b>>)[y])
               /\ RetainAll(h, <<b>>)[y].rc = h[y].rc + IF y = b THEN 1 ELSE 0
<1>1. <<b>> \in Items
  BY DEF Items
<1>2. /\ RetainAll(h, <<b>>) \in [Boxes -> Value]
      /\ \A y \in Boxes :
          /\ Same(h[y], RetainAll(h, <<b>>)[y])
          /\ h[y].rc = 0 => RetainAll(h, <<b>>)[y].rc = 0
          /\ h[y].rc > 0 => RetainAll(h, <<b>>)[y].rc = h[y].rc + Count(<<b>>, y)
  BY <1>1, RetainEffect
<1>3. \A y \in Boxes : Count(<<b>>, y) = (IF y = b THEN 1 ELSE 0) /\ h[y].rc \in Nat
  BY CountOne DEF Value
<1> HIDE DEF RetainAll
<1> QED
  BY <1>2, <1>3

LEMMA HeldIsLive ==
    ASSUME TypeInv, Counts, NEW t \in Threads, NEW b \in Boxes, Holds(t, b)
    PROVE  place[b] = "live" /\ heap[b].rc > 0
<1>1. Refs(b) > 0
  BY RefsBound, TypeParts
<1> QED
  BY <1>1, Referenced

LEMMA ItemIsLive ==
    ASSUME TypeInv, Counts, NEW x \in Boxes, NEW b \in Boxes, b \in Range(heap[x].kids)
    PROVE  place[b] = "live" /\ heap[b].rc > 0
<1>1. Refs(b) > 0
  BY RefsBound, TypeParts, ThreadsAssumption
<1> QED
  BY <1>1, Referenced

\* Retain and GetItem: one more reference to a live box, held by t.
LEMMA HoldMore ==
    ASSUME IInv, NEW t \in Threads, NEW b \in Boxes, Call(t), place[b] = "live",
           heap' = RetainAll(heap, <<b>>), held' = Take(t, b),
           UNCHANGED <<place, mail, run, localPool, pool, queue, localRoots, pending, det,
                       underflow>>
    PROVE  IInv'
<1>1. TypeInv /\ Counts
  BY DEF IInv
<1>2. heap \in [Boxes -> Value] /\ held \in [Threads -> [Boxes -> Nat]] /\ Typed
  BY <1>1 DEF TypeInv, Typed, Runs
<1>3. heap[b].rc > 0
  BY <1>1 DEF Counts, Counted
<1>4. /\ heap' \in [Boxes -> Value]
      /\ \A y \in Boxes : /\ Same(heap[y], heap'[y])
                          /\ heap'[y].rc = heap[y].rc + IF y = b THEN 1 ELSE 0
  BY <1>2, <1>3, RetainOne
<1>5. /\ held' \in [Threads -> [Boxes -> Nat]]
      /\ \A u \in Threads \ {t} : held'[u] = held[u]
      /\ \A y \in Boxes : held'[t][y] = held[t][y] + IF y = b THEN 1 ELSE 0
  BY <1>2, TakeEffect
<1>6. Typed' /\ Steady(t, b)
  BY <1>2, <1>4, <1>5 DEF Typed, Runs, Steady, Same
<1>7. ASSUME NEW y \in Boxes
      PROVE  /\ heap'[y].rc - heap[y].rc = Part(t, b, y)' - Part(t, b, y)
             /\ place[y] # "live" => heap'[y].rc = heap[y].rc /\ heap'[y].kids = heap[y].kids
             /\ place[y] = "live" => heap'[y].rc > 0
  <2>1. Part(t, b, y) \in Nat /\ Part(t, b, y)' \in Nat
    BY <1>2, <1>6, RefsStep
  <2>2. /\ heap[y].rc \in Nat /\ held[t][y] \in Nat
        /\ place[y] = "live" => heap[y].rc > 0
    BY <1>1, <1>2 DEF Value, Counts, Counted
  <2>3. /\ Count(heap'[b].kids, y) = Count(heap[b].kids, y) /\ Count(heap[b].kids, y) \in Nat
        /\ Waiting(t)' = Waiting(t) /\ Going(t, y)' = Going(t, y)
        /\ Count(Waiting(t), y) = 0 /\ Going(t, y) = 0
        /\ Count(mail, y) \in Nat
    BY <1>1, <1>2, <1>4, CallFacts, AtFinite, KidsType DEF Same, Waiting, Going, Typed
  <2>4. Part(t, b, y)' - Part(t, b, y) = IF y = b THEN 1 ELSE 0
    BY <2>2, <2>3, <1>5 DEF Part
  <2> QED
    BY <2>2, <2>4, <1>4 DEF Same
<1> QED
  BY <1>6, <1>7, <1>1, CallFacts, CallStep

LEMMA RetainStep ==
    ASSUME IInv, NEW t \in Threads, NEW b \in Boxes, Retain(t, b) PROVE IInv'
<1>1. Call(t) /\ Holds(t, b)
  BY DEF Retain
<1>2. place[b] = "live"
  BY <1>1, HeldIsLive DEF IInv
<1> QED
  BY <1>1, <1>2, HoldMore DEF Retain

LEMMA GetItemStep ==
    ASSUME IInv, NEW t \in Threads, NEW l \in Boxes, NEW b \in Boxes, GetItem(t, l, b) PROVE IInv'
<1>1. Call(t) /\ b \in Range(heap[l].kids)
  BY DEF GetItem
<1>2. place[b] = "live"
  BY <1>1, ItemIsLive DEF IInv
<1> QED
  BY <1>1, <1>2, HoldMore DEF GetItem

LEMMA PushStep ==
    ASSUME IInv, NEW t \in Threads, NEW l \in Boxes, NEW b \in Boxes, Push(t, l, b) PROVE IInv'
<1>1. TypeInv /\ Counts /\ Call(t) /\ Holds(t, l) /\ Holds(t, b)
  BY DEF IInv, Push
<1>2. heap \in [Boxes -> Value] /\ held \in [Threads -> [Boxes -> Nat]] /\ Typed
  BY <1>1 DEF TypeInv, Typed, Runs
<1>3. place[b] = "live" /\ heap[b].rc > 0 /\ place[l] = "live" /\ heap[l].rc > 0
  BY <1>1, HeldIsLive
<1> DEFINE s == <<b, l>>
           r == RetainAll(heap, s)
           k == Append(r[l].kids, b)
<1>4. s \in Items /\ \A y \in Boxes : Count(s, y) = (IF y = b THEN 1 ELSE 0) + (IF y = l THEN 1 ELSE 0)
  <2>1. <<b>> \in Items /\ s = Append(<<b>>, l)
    BY DEF Items
  <2>2. s \in Items
    BY DEF Items
  <2>3. ASSUME NEW y \in Boxes
        PROVE Count(Append(<<b>>, l), y) = Count(<<b>>, y) + IF l = y THEN 1 ELSE 0
    BY <2>1, CountAppend
  <2>4. \A y \in Boxes : Count(<<b>>, y) = IF b = y THEN 1 ELSE 0
    BY CountOne
  <2> HIDE DEF s
  <2> QED
    BY <2>1, <2>2, <2>3, <2>4
<1> HIDE DEF s
<1>5. /\ r \in [Boxes -> Value]
      /\ \A y \in Boxes :
          /\ Same(heap[y], r[y])
          /\ heap[y].rc = 0 => r[y].rc = 0
          /\ heap[y].rc > 0 => r[y].rc = heap[y].rc + Count(s, y)
  BY <1>2, <1>4, RetainEffect
<1> HIDE DEF r
<1>6. heap' = [r EXCEPT ![l] = [r[l] EXCEPT !.kids = k]]
  BY DEF Push, r, s
<1>7. /\ k \in Items /\ k = Append(heap[l].kids, b) /\ heap[l].kids \in Items
      /\ \A y \in Boxes : Count(k, y) = Count(heap[l].kids, y) + IF b = y THEN 1 ELSE 0
  <2>1. heap[l].kids \in Items
    BY <1>2, KidsType
  <2>2. r[l].kids = heap[l].kids
    BY <1>5 DEF Same
  <2>3. k = Append(heap[l].kids, b)
    BY <2>2
  <2> HIDE DEF k
  <2>4. k \in Items
    BY <2>1, <2>3, AppendType
  <2> DEFINE m == heap[l].kids
  <2>5. m \in Items /\ k = Append(m, b)
    BY <2>1, <2>3
  <2> HIDE DEF m
  <2>6. \A y \in Boxes : Count(k, y) = Count(m, y) + IF b = y THEN 1 ELSE 0
    BY <2>5, CountAppend
  <2> QED
    BY <2>1, <2>3, <2>4, <2>6 DEF m
<1> HIDE DEF k
<1>8. /\ heap' \in [Boxes -> Value] /\ heap'[l].kids = k
      /\ \A y \in Boxes : heap'[y].rc = r[y].rc
      /\ \A y \in Boxes \ {l} : heap'[y] = r[y]
  <2>1. r[l] \in Value
    BY <1>5
  <2>2. [r[l] EXCEPT !.kids = k] \in Value
        /\ [r[l] EXCEPT !.kids = k].rc = r[l].rc /\ [r[l] EXCEPT !.kids = k].kids = k
    BY <2>1, <1>7 DEF Value
  <2> QED
    BY <2>2, <1>5, <1>6
<1>9. /\ held' \in [Threads -> [Boxes -> Nat]]
      /\ \A u \in Threads \ {t} : held'[u] = held[u]
      /\ \A y \in Boxes : held'[t][y] = held[t][y] + IF y = l THEN 1 ELSE 0
  <2>1. held' = Take(t, l)
    BY DEF Push
  <2> QED
    BY <2>1, <1>2, TakeEffect
<1>10. UNCHANGED <<place, mail, run, localPool, pool, queue, localRoots, pending, det, underflow>>
  BY DEF Push
<1>11. Typed' /\ Steady(t, l)
  BY <1>2, <1>5, <1>8, <1>9, <1>10 DEF Typed, Runs, Steady, Same
<1>12. ASSUME NEW y \in Boxes
       PROVE  /\ heap'[y].rc - heap[y].rc = Part(t, l, y)' - Part(t, l, y)
              /\ place[y] # "live" => heap'[y].rc = heap[y].rc /\ heap'[y].kids = heap[y].kids
              /\ place[y] = "live" => heap'[y].rc > 0
  <2>1. /\ heap[y].rc \in Nat /\ held[t][y] \in Nat
        /\ place[y] = "live" => heap[y].rc > 0
    BY <1>1, <1>2 DEF Value, Counts, Counted
  <2>2. Count(s, y) = (IF y = b THEN 1 ELSE 0) + (IF y = l THEN 1 ELSE 0)
    BY <1>4
  <2>3. heap'[y].rc = heap[y].rc + (IF y = b THEN 1 ELSE 0) + (IF y = l THEN 1 ELSE 0)
    BY <2>1, <2>2, <1>3, <1>5, <1>8
  <2>4. /\ Count(heap'[l].kids, y) = Count(heap[l].kids, y) + (IF b = y THEN 1 ELSE 0)
        /\ Count(heap[l].kids, y) \in Nat /\ Count(mail, y) \in Nat /\ mail' = mail
    BY <1>2, <1>7, <1>8, <1>10, AtFinite DEF Typed
  <2>5. /\ Waiting(t)' = Waiting(t) /\ Going(t, y)' = Going(t, y)
        /\ Count(Waiting(t), y) = 0 /\ Going(t, y) = 0
    BY <1>1, <1>10, CallFacts DEF Waiting, Going
  <2>6. Part(t, l, y)' - Part(t, l, y) = (IF y = b THEN 1 ELSE 0) + (IF y = l THEN 1 ELSE 0)
    BY <2>1, <2>4, <2>5, <1>9 DEF Part
  <2>7. heap'[y].rc - heap[y].rc = Part(t, l, y)' - Part(t, l, y)
    BY <2>1, <2>3, <2>6
  <2>8. place[y] # "live" => y # b /\ y # l
    BY <1>3
  <2>9. y # l => heap'[y].kids = heap[y].kids
    BY <1>5, <1>8 DEF Same
  <2> QED
    BY <2>1, <2>3, <2>7, <2>8, <2>9
<1>13. run'[t].op \in {"idle", "release"}
  BY <1>1, <1>10, CallFacts
<1> QED
  BY <1>1, <1>10, <1>11, <1>12, <1>13, CallStep

\* Freezing and retaining: the counts and the items.
LEMMA SendHeap ==
    ASSUME TypeInv, Counts, NEW t \in Threads, NEW b \in Boxes, Holds(t, b),
           heap' = RetainAll(Freeze(heap, b), <<b>>)
    PROVE  /\ heap' \in [Boxes -> Value]
           /\ \A y \in Boxes : /\ Same(Freeze(heap, b)[y], heap'[y])
                               /\ heap'[y].kids = heap[y].kids
                               /\ heap'[y].rc = heap[y].rc + IF y = b THEN 1 ELSE 0
<1> DEFINE f == Freeze(heap, b)
<1>1. heap \in [Boxes -> Value] /\ heap[b].rc > 0
  BY HeldIsLive DEF TypeInv
<1>2. f \in [Boxes -> Value] /\ \A y \in Boxes : f[y].rc = heap[y].rc /\ f[y].kids = heap[y].kids
  BY <1>1, FreezeEffect
<1> HIDE DEF f
<1>3. f[b].rc > 0
  BY <1>1, <1>2
<1>4. /\ RetainAll(f, <<b>>) \in [Boxes -> Value]
      /\ \A y \in Boxes : /\ Same(f[y], RetainAll(f, <<b>>)[y])
                          /\ RetainAll(f, <<b>>)[y].rc = f[y].rc + IF y = b THEN 1 ELSE 0
  BY <1>2, <1>3, RetainOne
<1>5. heap' = RetainAll(f, <<b>>)
  BY DEF f
<1> QED
  BY <1>2, <1>4, <1>5 DEF Same, f

LEMMA SendStep ==
    ASSUME IInv, NEW t \in Threads, NEW b \in Boxes, Send(t, b) PROVE IInv'
<1>1. TypeInv /\ Counts /\ Call(t) /\ Holds(t, b)
  BY DEF IInv, Send
<1>2. held \in [Threads -> [Boxes -> Nat]] /\ heap \in [Boxes -> Value] /\ mail \in Items /\ Typed
  BY <1>1 DEF TypeInv, Typed, Runs
<1>3. /\ heap' \in [Boxes -> Value]
      /\ \A y \in Boxes : /\ heap'[y].kids = heap[y].kids
                          /\ heap'[y].rc = heap[y].rc + IF y = b THEN 1 ELSE 0
  BY <1>1, SendHeap DEF Send
<1>4. /\ mail' = Append(mail, b)
      /\ UNCHANGED <<place, held, run, localPool, pool, queue, localRoots, pending, det, underflow>>
  BY DEF Send
<1>5. mail' \in Items /\ \A y \in Boxes : Count(mail', y) = Count(mail, y) + IF b = y THEN 1 ELSE 0
  <2>1. mail' \in Items
    BY <1>2, <1>4, AppendType
  <2>2. ASSUME NEW y \in Boxes
        PROVE  Count(Append(mail, b), y) = Count(mail, y) + IF b = y THEN 1 ELSE 0
    BY <1>2, CountAppend
  <2> QED
    BY <2>1, <2>2, <1>4
<1>6. Typed' /\ Steady(t, b)
  BY <1>2, <1>3, <1>4, <1>5 DEF Typed, Runs, Steady
<1>7. ASSUME NEW y \in Boxes
      PROVE  /\ heap'[y].rc - heap[y].rc = Part(t, b, y)' - Part(t, b, y)
             /\ place[y] # "live" => heap'[y].rc = heap[y].rc /\ heap'[y].kids = heap[y].kids
             /\ place[y] = "live" => heap'[y].rc > 0
  <2>1. /\ heap[y].rc \in Nat /\ held[t][y] \in Nat
        /\ place[y] = "live" => heap[y].rc > 0
    BY <1>1, <1>2 DEF Value, Counts, Counted
  <2>2. /\ heap'[b].kids = heap[b].kids /\ Count(heap[b].kids, y) \in Nat
        /\ Count(mail, y) \in Nat /\ held' = held
    BY <1>2, <1>3, <1>4, AtFinite, KidsType
  <2>3. /\ Waiting(t)' = Waiting(t) /\ Going(t, y)' = Going(t, y)
        /\ Count(Waiting(t), y) = 0 /\ Going(t, y) = 0
    BY <1>1, <1>4, CallFacts DEF Waiting, Going
  <2>4. Part(t, b, y)' - Part(t, b, y) = IF y = b THEN 1 ELSE 0
    BY <2>1, <2>2, <2>3, <1>5 DEF Part
  <2>5. place[b] = "live"
    BY <1>1, HeldIsLive
  <2> QED
    BY <2>1, <2>4, <2>5, <1>3
<1>8. run'[t].op \in {"idle", "release"}
  BY <1>1, <1>4, CallFacts
<1> QED
  BY <1>1, <1>4, <1>6, <1>7, <1>8, CallStep

LEMMA SendRefusedStep ==
    ASSUME IInv, NEW t \in Threads, NEW b \in Boxes, SendRefused(t, b) PROVE IInv'
<1>1. TypeInv /\ Counts /\ Call(t) /\ Holds(t, b)
  BY DEF IInv, SendRefused
<1>2. held \in [Threads -> [Boxes -> Nat]] /\ heap \in [Boxes -> Value] /\ mail \in Items /\ Typed
  BY <1>1 DEF TypeInv, Typed, Runs
<1>3. /\ heap' \in [Boxes -> Value]
      /\ \A y \in Boxes : /\ heap'[y].kids = heap[y].kids
                          /\ heap'[y].rc = heap[y].rc + IF y = b THEN 1 ELSE 0
  BY <1>1, SendHeap DEF SendRefused
<1>4. /\ Enter(t, "release", b)
      /\ UNCHANGED <<place, held, mail, localPool, pool, queue, localRoots, pending, det, underflow>>
  BY DEF SendRefused
<1>5. /\ Runs' /\ \A u \in Threads \ {t} : run'[u] = run[u]
      /\ run'[t].op = "release" /\ run'[t].box = b /\ run'[t].work = <<>>
  <2>1. Runs /\ "release" \in Ops
    BY <1>2 DEF Typed, Ops
  <2> QED
    BY <2>1, <1>4, EnterEffect DEF BoxOps, DropOps
<1>6. Typed' /\ Steady(t, b)
  BY <1>2, <1>3, <1>4, <1>5 DEF Typed, Steady
<1>7. ASSUME NEW y \in Boxes
      PROVE  /\ heap'[y].rc - heap[y].rc = Part(t, b, y)' - Part(t, b, y)
             /\ place[y] # "live" => heap'[y].rc = heap[y].rc /\ heap'[y].kids = heap[y].kids
             /\ place[y] = "live" => heap'[y].rc > 0
  <2>1. /\ heap[y].rc \in Nat /\ held[t][y] \in Nat
        /\ place[y] = "live" => heap[y].rc > 0
    BY <1>1, <1>2 DEF Value, Counts, Counted
  <2>2. /\ heap'[b].kids = heap[b].kids /\ Count(heap[b].kids, y) \in Nat
        /\ Count(mail, y) \in Nat /\ held' = held /\ mail' = mail
    BY <1>2, <1>3, <1>4, AtFinite, KidsType
  <2>3. Waiting(t)' = <<>> /\ Going(t, y)' = IF y = b THEN 1 ELSE 0
    BY <1>5 DEF Waiting, Going
  <2>4. Waiting(t) = <<>> /\ Going(t, y) = 0 /\ Count(<<>>, y) = 0
    BY <1>1, CallFacts, CountEmpty
  <2>5. Part(t, b, y)' - Part(t, b, y) = IF y = b THEN 1 ELSE 0
    BY <2>1, <2>2, <2>3, <2>4 DEF Part
  <2>6. place[b] = "live"
    BY <1>1, HeldIsLive
  <2> QED
    BY <2>1, <2>5, <2>6, <1>3
<1>8. run'[t].op \in {"idle", "release"}
  BY <1>5
<1> QED
  BY <1>1, <1>4, <1>6, <1>7, <1>8, CallStep

LEMMA ReceiveOne ==
    ASSUME IInv, NEW t \in Threads, NEW b \in Boxes, t = Receiver, b = Head(mail), Receive
    PROVE  IInv'
<1>1. TypeInv /\ Counts /\ Call(t) /\ mail # <<>> /\ held' = Take(t, b) /\ mail' = Tail(mail)
      /\ UNCHANGED <<heap, place, run, localPool, pool, queue, localRoots, pending, det, underflow>>
  BY DEF IInv, Receive
<1>2. held \in [Threads -> [Boxes -> Nat]] /\ heap \in [Boxes -> Value] /\ mail \in Items /\ Typed
  BY <1>1 DEF TypeInv, Typed, Runs
<1>3. mail' \in Items
  BY <1>1, <1>2, CountTail
<1>4. ASSUME NEW y \in Boxes
      PROVE Count(mail, y) = Count(mail', y) + IF b = y THEN 1 ELSE 0
  BY <1>1, <1>2, CountTail
<1>5. /\ held' \in [Threads -> [Boxes -> Nat]]
      /\ \A u \in Threads \ {t} : held'[u] = held[u]
      /\ \A y \in Boxes : held'[t][y] = held[t][y] + IF y = b THEN 1 ELSE 0
  BY <1>1, <1>2, <1>3, TakeEffect
<1>6. Typed' /\ Steady(t, b)
  BY <1>1, <1>2, <1>3, <1>5 DEF Typed, Runs, Steady
<1>7. ASSUME NEW y \in Boxes
      PROVE  /\ heap'[y].rc - heap[y].rc = Part(t, b, y)' - Part(t, b, y)
             /\ place[y] # "live" => heap'[y].rc = heap[y].rc /\ heap'[y].kids = heap[y].kids
             /\ place[y] = "live" => heap'[y].rc > 0
  <2>1. /\ heap[y].rc \in Nat /\ held[t][y] \in Nat
        /\ place[y] = "live" => heap[y].rc > 0
    BY <1>1, <1>2 DEF Value, Counts, Counted
  <2>2. /\ heap' = heap /\ Count(heap[b].kids, y) \in Nat
        /\ Count(mail', y) \in Nat
    BY <1>1, <1>2, <1>3, AtFinite, KidsType
  <2>3. /\ Waiting(t)' = Waiting(t) /\ Going(t, y)' = Going(t, y)
        /\ Count(Waiting(t), y) = 0 /\ Going(t, y) = 0
    BY <1>1, CallFacts DEF Waiting, Going
  <2>4. Part(t, b, y)' - Part(t, b, y) = 0
    <3>1. Count(mail, y) = Count(mail', y) + IF b = y THEN 1 ELSE 0
      BY <1>4
    <3>2. held'[t][y] = held[t][y] + IF y = b THEN 1 ELSE 0
      BY <1>5
    <3>3. CASE y = b
      BY <3>1, <3>2, <3>3, <2>1, <2>2, <2>3 DEF Part
    <3>4. CASE y # b
      BY <3>1, <3>2, <3>4, <2>1, <2>2, <2>3 DEF Part
    <3> QED
      BY <3>3, <3>4
  <2> QED
    BY <2>1, <2>2, <2>4
<1>8. run'[t].op \in {"idle", "release"}
  BY <1>1, CallFacts
<1> QED
  BY <1>1, <1>3, <1>6, <1>7, <1>8, CallStep

LEMMA ReceiveStep == ASSUME IInv, Receive PROVE IInv'
<1>1. mail \in Items /\ mail # <<>>
  BY DEF IInv, TypeInv, Receive
<1>2. Head(mail) \in Boxes
  BY <1>1, CountTail
<1> QED
  BY <1>2, ThreadsAssumption, ReceiveOne

LEMMA ReleaseStep ==
    ASSUME IInv, NEW t \in Threads, NEW b \in Boxes, Release(t, b) PROVE IInv'
<1>1. TypeInv /\ Counts /\ Call(t) /\ Holds(t, b)
  BY DEF IInv, Release
<1>2. held \in [Threads -> [Boxes -> Nat]] /\ heap \in [Boxes -> Value] /\ mail \in Items /\ Typed
  BY <1>1 DEF TypeInv, Typed, Runs
<1>3. /\ Enter(t, "release", b) /\ held' = [held EXCEPT ![t][b] = @ - 1]
      /\ UNCHANGED <<heap, place, mail, localPool, pool, queue, localRoots, pending, det, underflow>>
  BY DEF Release
<1>4. /\ held' \in [Threads -> [Boxes -> Nat]]
      /\ \A u \in Threads \ {t} : held'[u] = held[u]
      /\ \A y \in Boxes : held'[t][y] = held[t][y] - IF y = b THEN 1 ELSE 0
  <2>1. held[t][b] \in Nat /\ held[t][b] > 0
    BY <1>1, <1>2 DEF Holds
  <2> QED
    BY <2>1, <1>2, <1>3
<1>5. /\ Runs' /\ \A u \in Threads \ {t} : run'[u] = run[u]
      /\ run'[t].op = "release" /\ run'[t].box = b /\ run'[t].work = <<>>
  <2>1. Runs /\ "release" \in Ops
    BY <1>2 DEF Typed, Ops
  <2> QED
    BY <2>1, <1>3, EnterEffect DEF BoxOps, DropOps
<1>6. Typed' /\ Steady(t, b)
  BY <1>2, <1>3, <1>4, <1>5 DEF Typed, Steady
<1>7. ASSUME NEW y \in Boxes
      PROVE  /\ heap'[y].rc - heap[y].rc = Part(t, b, y)' - Part(t, b, y)
             /\ place[y] # "live" => heap'[y].rc = heap[y].rc /\ heap'[y].kids = heap[y].kids
             /\ place[y] = "live" => heap'[y].rc > 0
  <2>1. /\ heap[y].rc \in Nat /\ held[t][y] \in Nat
        /\ place[y] = "live" => heap[y].rc > 0
    BY <1>1, <1>2 DEF Value, Counts, Counted
  <2>2. /\ heap' = heap /\ Count(heap[b].kids, y) \in Nat
        /\ Count(mail, y) \in Nat /\ mail' = mail
    BY <1>2, <1>3, AtFinite, KidsType
  <2>3. Waiting(t)' = <<>> /\ Going(t, y)' = IF y = b THEN 1 ELSE 0
    BY <1>5 DEF Waiting, Going
  <2>4. Waiting(t) = <<>> /\ Going(t, y) = 0 /\ Count(<<>>, y) = 0
    BY <1>1, CallFacts, CountEmpty
  <2>5. Part(t, b, y)' - Part(t, b, y) = 0
    <3>1. held'[t][y] \in Nat /\ held'[t][y] = held[t][y] - IF y = b THEN 1 ELSE 0
      BY <1>4
    <3>2. CASE y = b
      BY <3>1, <3>2, <2>1, <2>2, <2>3, <2>4, SMTT(30) DEF Part
    <3>3. CASE y # b
      BY <3>1, <3>3, <2>1, <2>2, <2>3, <2>4 DEF Part
    <3> QED
      BY <3>2, <3>3
  <2> QED
    BY <2>1, <2>2, <2>5
<1>8. run'[t].op \in {"idle", "release"}
  BY <1>5
<1> QED
  BY <1>1, <1>3, <1>6, <1>7, <1>8, CallStep

\* alloc_value hands out a box that nobody uses, and takes it off its list.
LEMMA AllocEffect ==
    ASSUME TypeInv, Recycled, NEW t \in Threads, NEW b \in Boxes, AllocFrom(t, b), TakeBox(t)
    PROVE  /\ place[b] \in {"pooled", "none"}
           /\ Lists' /\ \A u \in Threads \ {t} : localPool'[u] = localPool[u]
           /\ \A y \in Boxes : Free(y)' = IF place[y] = "pooled" /\ y # b THEN 1 ELSE 0
<1>1. localPool \in [Threads -> Items] /\ pool \in Items /\ localPool[t] \in Items /\ Lists
  BY DEF TypeInv, Lists
<1>2. /\ Lists' /\ \A u \in Threads \ {t} : localPool'[u] = localPool[u]
      /\ localPool[t] # <<>> => localPool'[t] = Front(localPool[t]) /\ pool' = pool
      /\ localPool[t] = <<>> /\ pool # <<>> => localPool'[t] = <<>> /\ pool' = Front(pool)
      /\ localPool[t] = <<>> /\ pool = <<>> => localPool'[t] = <<>> /\ pool' = pool
  BY <1>1, TakeBoxType DEF Lists
<1>3. \A y \in Boxes :
        /\ Free(y) \in Nat /\ Free(y)' \in Nat /\ Near(t, y) \in Nat /\ Near(t, y)' \in Nat
        /\ Free(y)' - Near(t, y)' = Free(y) - Near(t, y) /\ Free(y) >= Near(t, y)
  BY <1>1, <1>2, FreeStep
<1>4. \A y \in Boxes : Free(y) = IF place[y] = "pooled" THEN 1 ELSE 0
  BY ListsDefined
<1>5. \A y \in Boxes : Count(pool, y) \in Nat /\ Count(localPool[t], y) \in Nat
  BY <1>1, AtFinite
<1>6. \A y \in Boxes : /\ Near(t, y) = Count(pool, y) + Count(localPool[t], y)
                       /\ Near(t, y)' = Count(pool', y) + Count(localPool'[t], y)
  BY DEF Near
<1>7. CASE localPool[t] # <<>> \/ pool # <<>>
  <2>1. ASSUME NEW y \in Boxes PROVE Near(t, y) = Near(t, y)' + IF y = b THEN 1 ELSE 0
    <3>1. CASE localPool[t] # <<>>
      <4>1. b = Last(localPool[t]) /\ localPool'[t] = Front(localPool[t]) /\ pool' = pool
        BY <3>1, <1>2 DEF AllocFrom
      <4>2. /\ Count(localPool[t], y) = Count(Front(localPool[t]), y)
                 + IF Last(localPool[t]) = y THEN 1 ELSE 0
            /\ Count(Front(localPool[t]), y) \in Nat
        BY <3>1, <1>1, CountFront
      <4> QED
        BY <4>1, <4>2, <1>5, <1>6
    <3>2. CASE localPool[t] = <<>>
      <4>1. /\ pool # <<>> /\ b = Last(pool) /\ localPool'[t] = localPool[t]
            /\ pool' = Front(pool)
        BY <3>2, <1>2, <1>7 DEF AllocFrom
      <4>2. /\ Count(pool, y) = Count(Front(pool), y) + IF Last(pool) = y THEN 1 ELSE 0
            /\ Count(Front(pool), y) \in Nat
        BY <4>1, <1>1, CountFront
      <4> QED
        BY <4>1, <4>2, <1>5, <1>6
    <3> QED
      BY <3>1, <3>2
  <2>2. Near(t, b) > 0
    BY <2>1, <1>3
  <2>3. place[b] = "pooled"
    BY <2>2, <1>3, <1>4
  <2>4. ASSUME NEW y \in Boxes PROVE Free(y)' = IF place[y] = "pooled" /\ y # b THEN 1 ELSE 0
    <3>1. Near(t, y) = Near(t, y)' + IF y = b THEN 1 ELSE 0
      BY <2>1
    <3>2. Free(y)' = Free(y) - IF y = b THEN 1 ELSE 0
      BY <3>1, <1>3
    <3> QED
      BY <3>2, <2>3, <1>4
  <2> QED
    BY <2>3, <2>4, <1>2
<1>8. CASE localPool[t] = <<>> /\ pool = <<>>
  <2>1. place[b] = "none" /\ localPool'[t] = localPool[t] /\ pool' = pool
    BY <1>2, <1>8 DEF AllocFrom
  <2>2. \A y \in Boxes : Near(t, y)' = Near(t, y)
    BY <2>1, <1>6
  <2>3. \A y \in Boxes : Free(y)' = Free(y)
    BY <2>2, <1>3
  <2> QED
    BY <2>1, <2>3, <1>2, <1>4
<1> QED
  BY <1>7, <1>8

LEMMA MakeStep ==
    ASSUME IInv, NEW t \in Makers, NEW b \in Boxes, NEW kind \in Kinds,
           NEW items \in ItemLists(b), Make(t, b, kind, items)
    PROVE  IInv'
<1>0. t \in Threads
  BY ThreadsAssumption
<1>1. TypeInv /\ Counts /\ Owners /\ Recycled /\ Call(t)
  BY DEF IInv, Make
<1>2. held \in [Threads -> [Boxes -> Nat]] /\ heap \in [Boxes -> Value] /\ Typed
  BY <1>1 DEF TypeInv, Typed, Runs
<1>3. /\ AllocFrom(t, b) /\ TakeBox(t) /\ (\A c \in Range(items) : Holds(t, c))
      /\ heap' = [RetainAll(heap, items) EXCEPT ![b] = NewValue(t, kind, items)]
      /\ place' = [place EXCEPT ![b] = "live"] /\ held' = Take(t, b)
      /\ UNCHANGED <<mail, run, queue, localRoots, pending, det, underflow>>
  BY DEF Make
<1>4. items \in Items /\ Count(items, b) = 0 /\ Range(items) \subseteq Boxes
  <2>1. items \in Items /\ b \notin Range(items) /\ Range(items) \subseteq Boxes
    <3>1. CASE items = <<>>
      BY <3>1 DEF Items, Range
    <3>2. CASE \E c \in Boxes \ {b} : items = <<c>>
      BY <3>2 DEF Items, Range
    <3> QED
      BY <3>1, <3>2 DEF ItemLists
  <2> QED
    BY <2>1, AtFinite
<1>5. /\ place[b] \in {"pooled", "none"} /\ Lists'
      /\ \A u \in Threads \ {t} : localPool'[u] = localPool[u]
      /\ \A y \in Boxes : Free(y)' = IF place[y] = "pooled" /\ y # b THEN 1 ELSE 0
  BY <1>0, <1>1, <1>3, AllocEffect
<1> DEFINE r == RetainAll(heap, items)
<1>6. /\ r \in [Boxes -> Value]
      /\ \A y \in Boxes :
          /\ Same(heap[y], r[y])
          /\ heap[y].rc = 0 => r[y].rc = 0
          /\ heap[y].rc > 0 => r[y].rc = heap[y].rc + Count(items, y)
  BY <1>2, <1>4, RetainEffect
<1> HIDE DEF r
<1> DEFINE v == NewValue(t, kind, items)
<1>7. v \in Value /\ v.rc = 1 /\ v.kids = items
  BY <1>0, <1>4, KindsAssumption DEF NewValue, Value, Owner, Tags
<1>8. heap' = [r EXCEPT ![b] = v]
  BY <1>3 DEF r
<1> HIDE DEF v
<1>9. /\ heap' \in [Boxes -> Value] /\ heap'[b] = v
      /\ \A y \in Boxes \ {b} : heap'[y] = r[y]
  BY <1>6, <1>7, <1>8
<1>10. /\ held' \in [Threads -> [Boxes -> Nat]]
       /\ \A u \in Threads \ {t} : held'[u] = held[u]
       /\ \A y \in Boxes : held'[t][y] = held[t][y] + IF y = b THEN 1 ELSE 0
  BY <1>0, <1>2, <1>3, TakeEffect
<1>11. /\ place' \in [Boxes -> Places] /\ place'[b] = "live"
       /\ \A y \in Boxes \ {b} : place'[y] = place[y]
  <2>1. place \in [Boxes -> Places]
    BY <1>1 DEF TypeInv
  <2> QED
    BY <2>1, <1>3 DEF Places
<1>12. Typed' /\ Steady(t, b)
  BY <1>2, <1>3, <1>6, <1>9, <1>10, <1>11 DEF Typed, Runs, Steady, Same
<1>13. TypeInv'
  <2>1. calls' \in Nat
    BY <1>0, <1>1, CallFacts
  <2> QED
    BY <2>1, <1>1, <1>3, <1>5, <1>11, <1>12 DEF TypeInv, Typed, Runs, Lists
<1>14. ASSUME NEW y \in Boxes PROVE Counted(y)'
  <2>1. /\ Refs(y) \in Nat /\ Refs(y)' \in Nat
        /\ Part(t, b, y) \in Nat /\ Part(t, b, y)' \in Nat
        /\ Refs(y)' - Part(t, b, y)' = Refs(y) - Part(t, b, y)
    BY <1>0, <1>2, <1>12, RefsStep
  <2>2. Counted(y) /\ Counted(b) /\ heap[y].rc \in Nat /\ held[t][y] \in Nat
    BY <1>0, <1>1, <1>2 DEF Counts, Value
  <2>3. heap[b].kids = <<>> /\ Refs(b) = 0
    BY <2>2, <1>5 DEF Counted
  <2>4. /\ Count(heap[b].kids, y) = 0 /\ Count(heap'[b].kids, y) = Count(items, y)
        /\ Count(items, y) \in Nat
    BY <2>3, <1>4, <1>7, <1>9, CountEmpty, AtFinite
  <2>5. /\ Waiting(t)' = Waiting(t) /\ Going(t, y)' = Going(t, y)
        /\ Count(Waiting(t), y) = 0 /\ Going(t, y) = 0
    BY <1>0, <1>1, <1>3, CallFacts DEF Waiting, Going
  <2>6. Count(mail, y) \in Nat /\ mail' = mail
    BY <1>2, <1>3, AtFinite DEF Typed
  <2>7. Part(t, b, y)' - Part(t, b, y) = Count(items, y) + IF y = b THEN 1 ELSE 0
    BY <2>2, <2>4, <2>5, <2>6, <1>10 DEF Part
  <2>8. Refs(y)' = Refs(y) + Count(items, y) + IF y = b THEN 1 ELSE 0
    BY <2>1, <2>4, <2>7
  <2>9. CASE y = b
    <3>1. Refs(b)' = 1
      BY <2>3, <2>8, <2>9, <1>4
    <3> QED
      BY <3>1, <2>9, <1>7, <1>9, <1>11 DEF Counted
  <2>10. CASE y # b
    <3>1. Same(heap[y], heap'[y]) /\ place'[y] = place[y]
      BY <2>10, <1>6, <1>9, <1>11
    <3>2. CASE Count(items, y) = 0
      <4>1. heap'[y].rc = heap[y].rc
        BY <3>2, <2>2, <2>10, <1>6, <1>9
      <4>2. Refs(y)' = Refs(y)
        BY <3>2, <2>1, <2>8, <2>10
      <4> QED
        BY <4>1, <4>2, <3>1, <2>2 DEF Counted, Same
    <3>3. CASE Count(items, y) # 0
      <4>1. y \in Range(items)
        BY <3>3, <1>4, AtFinite
      <4>2. place[y] = "live" /\ heap[y].rc > 0
        BY <4>1, <1>0, <1>1, <1>3, HeldIsLive
      <4>3. heap'[y].rc = heap[y].rc + Count(items, y)
        BY <4>2, <2>10, <1>6, <1>9
      <4>4. heap[y].rc = Refs(y)
        BY <4>2, <2>2 DEF Counted
      <4>5. heap'[y].rc = Refs(y)' /\ heap'[y].rc > 0
        BY <4>2, <4>3, <4>4, <2>1, <2>2, <2>4, <2>8, <2>10
      <4> QED
        BY <4>2, <4>5, <3>1 DEF Counted
    <3> QED
      BY <3>2, <3>3
  <2> QED
    BY <2>9, <2>10
<1>15. Counts'
  BY <1>1, <1>3, <1>14 DEF Counts
<1>16. Recycled'
  <2>1. \A y \in Boxes : Free(y)' = IF place'[y] = "pooled" THEN 1 ELSE 0
    BY <1>5, <1>11
  <2>2. \A y \in Boxes : Late(y)' = IF place'[y] = "queued" THEN 1 ELSE 0
    <3>1. \A y \in Boxes : Late(y)' = Late(y)
      BY <1>3 DEF Late
    <3>2. \A y \in Boxes : Late(y) = IF place[y] = "queued" THEN 1 ELSE 0
      BY <1>1, ListsDefined
    <3> QED
      BY <3>1, <3>2, <1>5, <1>11
  <2> QED
    BY <2>1, <2>2 DEF Recycled, Free, Late
<1>17. Owners'
  <2>1. /\ Dying(t) = NoBox /\ Shell(t) = NoBox
    BY <1>0, <1>1, CallFacts
  <2>2. Dying(t)' = NoBox /\ Shell(t)' = NoBox /\ \A u \in Threads \ {t} : run'[u] = run[u]
    BY <2>1, <1>3 DEF Dying, Shell
  <2>3. NoBox \notin Boxes
    BY BoxesAssumption
  <2> QED
    BY <2>1, <2>2, <2>3, <1>0, <1>1, <1>5, <1>11, OwnersStep
<1> QED
  BY <1>13, <1>15, <1>16, <1>17 DEF IInv

LEMMA QueueInitStep ==
    ASSUME IInv, NEW t \in Threads, QueueInit(t) PROVE IInv'
<1>1. /\ Call(t) /\ queue' = [queue EXCEPT ![t].on = TRUE]
      /\ UNCHANGED <<heap, place, held, mail, run, localPool, pool, localRoots, pending, det,
                     underflow>>
  BY DEF QueueInit
<1>2. /\ queue \in [Threads -> Queue] /\ det \in Detector /\ Runs /\ TypeInv
      /\ localRoots \in [Threads -> Items] /\ pending \in BOOLEAN
  BY DEF IInv, TypeInv, Runs
<1>3. queue' \in [Threads -> Queue] /\ \A u \in Threads : queue'[u].items = queue[u].items
  BY <1>1, <1>2 DEF Queue
<1>4. Runs' /\ run[t].op = "idle" /\ run'[t].op = "idle" /\ calls' \in Nat
  BY <1>1, <1>2, CallFacts DEF Runs
<1> QED
  BY <1>1, <1>2, <1>3, <1>4, QuietStep DEF BoxOps

LEMMA QueueFlushStep ==
    ASSUME IInv, NEW t \in Threads, QueueFlush(t) PROVE IInv'
<1>1. /\ Call(t) /\ Enter(t, "drain", NoBox)
      /\ UNCHANGED <<heap, place, held, mail, localPool, pool, queue, localRoots, pending, det,
                     underflow>>
  BY DEF QueueFlush
<1>2. /\ queue \in [Threads -> Queue] /\ det \in Detector /\ Runs /\ TypeInv
      /\ localRoots \in [Threads -> Items] /\ pending \in BOOLEAN
  BY DEF IInv, TypeInv, Runs
<1>3. Runs' /\ run'[t].op = "drain" /\ \A u \in Threads \ {t} : run'[u] = run[u]
  <2>1. "drain" \in Ops /\ NoBox \notin Boxes
    BY BoxesAssumption DEF Ops
  <2> QED
    BY <2>1, <1>1, <1>2, EnterEffect DEF BoxOps, DropOps
<1>4. run[t].op = "idle" /\ calls' \in Nat
  BY <1>1, <1>2, CallFacts
<1> QED
  BY <1>1, <1>2, <1>3, <1>4, QuietStep DEF BoxOps

(***************************************************************************)
(* Possible roots and collections: the detector's affairs.                 *)
(***************************************************************************)

LEMMA FlushEffect ==
    ASSUME IInv, NEW t \in Threads, det' = Flushed(det, localRoots[t]),
           localRoots' = [localRoots EXCEPT ![t] = <<>>]
    PROVE  det' \in Detector /\ Paler(det.info, det'.info) /\ localRoots' \in [Threads -> Items]
<1>1. heap \in [Boxes -> Value] /\ det \in Detector /\ localRoots \in [Threads -> Items]
  BY DEF IInv, TypeInv
<1>2. <<>> \in Items /\ localRoots[t] \in Items
  BY <1>1 DEF Items
<1> QED
  BY <1>1, <1>2, FlushedEffect

LEMMA CycleFlushStep ==
    ASSUME IInv, NEW t \in Threads, CycleFlush(t) PROVE IInv'
<1>1. /\ Call(t) /\ det' = Flushed(det, localRoots[t])
      /\ localRoots' = [localRoots EXCEPT ![t] = <<>>]
      /\ UNCHANGED <<heap, place, held, mail, run, localPool, pool, queue, pending, underflow>>
  BY DEF CycleFlush
<1>2. /\ queue \in [Threads -> Queue] /\ Runs /\ TypeInv /\ pending \in BOOLEAN
  BY DEF IInv, TypeInv, Runs
<1>3. det' \in Detector /\ localRoots' \in [Threads -> Items]
  BY <1>1, FlushEffect
<1>4. Runs' /\ run[t].op = "idle" /\ run'[t].op = "idle" /\ calls' \in Nat
  BY <1>1, <1>2, CallFacts DEF Runs
<1> QED
  BY <1>1, <1>2, <1>3, <1>4, QuietStep DEF BoxOps

LEMMA CollectStep ==
    ASSUME IInv, NEW t \in Threads, Collect(t) PROVE IInv'
<1>1. /\ Call(t) /\ Enter(t, "flush", NoBox)
      /\ UNCHANGED <<heap, place, held, mail, localPool, pool, queue, localRoots, pending, det,
                     underflow>>
  BY DEF Collect
<1>2. /\ queue \in [Threads -> Queue] /\ det \in Detector /\ Runs /\ TypeInv
      /\ localRoots \in [Threads -> Items] /\ pending \in BOOLEAN
  BY DEF IInv, TypeInv, Runs
<1>3. Runs' /\ run'[t].op = "flush" /\ \A u \in Threads \ {t} : run'[u] = run[u]
  <2>1. "flush" \in Ops /\ NoBox \notin Boxes
    BY BoxesAssumption DEF Ops
  <2> QED
    BY <2>1, <1>1, <1>2, EnterEffect DEF BoxOps, DropOps
<1>4. run[t].op = "idle" /\ calls' \in Nat
  BY <1>1, <1>2, CallFacts
<1> QED
  BY <1>1, <1>2, <1>3, <1>4, QuietStep DEF BoxOps

\* Outside the calls, a step that changes the detector and what t does.
LEMMA PhaseStep ==
    ASSUME IInv, NEW t \in Threads, Runs', \A u \in Threads \ {t} : run'[u] = run[u],
           run[t].op \notin (BoxOps \ {"root"}), run'[t].op \notin (BoxOps \ {"root"}),
           det' \in Detector, localRoots' \in [Threads -> Items], pending' \in BOOLEAN,
           UNCHANGED <<heap, place, held, mail, localPool, pool, queue, underflow, calls>>
    PROVE  IInv'
<1>1. queue \in [Threads -> Queue] /\ calls \in Nat
  BY DEF IInv, TypeInv
<1> QED
  BY <1>1, QuietStep

\* The collector's bookkeeping is well typed.
LEMMA DetectorParts ==
    ASSUME IInv
    PROVE  /\ Runs /\ heap \in [Boxes -> Value] /\ det \in Detector /\ det.info \in Infos
           /\ det.roots \in SUBSET Boxes /\ det.young \in SUBSET Boxes
           /\ det.old \in SUBSET Boxes /\ det.epoch \in Nat
           /\ localRoots \in [Threads -> Items] /\ pending \in BOOLEAN
           /\ \A t \in Threads : run[t].todo \in SUBSET Boxes /\ run[t].black \in SUBSET Boxes
  BY DEF IInv, TypeInv, Detector, Runs, Activity

\* A phase of the collection that leaves the detector's bookkeeping well typed.
LEMMA CollectorStep ==
    ASSUME IInv, NEW t \in Threads, run[t].op \in CollectOps,
           NEW op \in CollectOps \cup {"idle"}, NEW s \in SUBSET Boxes, op = "free" => s = {},
           Phase(t, op, s), det' \in Detector,
           UNCHANGED <<heap, place, held, mail, localPool, pool, queue, localRoots, pending,
                       underflow, calls>>
    PROVE  IInv'
<1>1. Runs /\ localRoots' \in [Threads -> Items] /\ pending' \in BOOLEAN
  BY DetectorParts
<1>2. op \in Ops /\ op \notin BoxOps
  BY DEF CollectOps, Ops, BoxOps
<1>3. Runs' /\ (\A u \in Threads \ {t} : run'[u] = run[u]) /\ run'[t].op = op
  BY <1>1, <1>2, PhaseEffect
<1>4. run[t].op \notin BoxOps
  BY DEF CollectOps, BoxOps
<1> QED
  BY <1>1, <1>2, <1>3, <1>4, PhaseStep

LEMMA FlushRootsStep ==
    ASSUME IInv, NEW t \in Threads, FlushRoots(t) PROVE IInv'
<1>1. /\ run[t].op = "flush" /\ det' = Flushed(det, localRoots[t]) /\ pending' = TRUE
      /\ localRoots' = [localRoots EXCEPT ![t] = <<>>] /\ Enter(t, "begin", NoBox)
      /\ UNCHANGED <<heap, place, held, mail, localPool, pool, queue, underflow, calls>>
  BY DEF FlushRoots
<1>2. det' \in Detector /\ localRoots' \in [Threads -> Items]
  BY <1>1, FlushEffect
<1>3. Runs' /\ run'[t].op = "begin" /\ \A u \in Threads \ {t} : run'[u] = run[u]
  <2>1. Runs /\ "begin" \in Ops /\ NoBox \notin Boxes
    BY DetectorParts, BoxesAssumption DEF Ops
  <2> QED
    BY <2>1, <1>1, EnterEffect DEF BoxOps, DropOps
<1> QED
  BY <1>1, <1>2, <1>3, PhaseStep DEF BoxOps

LEMMA CollectBeginStep ==
    ASSUME IInv, NEW t \in Threads, CollectBegin(t) PROVE IInv'
<1> DEFINE epoch == det.epoch + 1
           roots == IF epoch % FullInterval = 0 THEN det.young \cup det.old ELSE det.young
<1>1. det \in Detector /\ roots \in SUBSET Boxes /\ epoch \in Nat
  BY DetectorParts
<1>2. /\ run[t].op \in CollectOps
      /\ UNCHANGED <<heap, place, held, mail, localPool, pool, queue, localRoots, pending,
                     underflow, calls>>
  BY DEF CollectBegin, CollectOps
<1>3. CASE det.collecting
  <2>1. Phase(t, "idle", {}) /\ det' = det
    BY <1>3 DEF CollectBegin
  <2> QED
    BY <2>1, <1>1, <1>2, CollectorStep DEF CollectOps
<1>4. CASE ~det.collecting
  <2>1. /\ det' = [det EXCEPT !.collecting = TRUE, !.epoch = epoch, !.roots = roots]
        /\ Phase(t, "copy", {})
    BY <1>4 DEF CollectBegin
  <2> HIDE DEF roots
  <2> HIDE DEF epoch
  <2>2. det' \in Detector
    BY <2>1, <1>1 DEF Detector
  <2> QED
    BY <2>1, <2>2, <1>2, CollectorStep DEF CollectOps
<1> QED
  BY <1>3, <1>4

LEMMA CopyRootsStep ==
    ASSUME IInv, NEW t \in Threads, CopyRoots(t) PROVE IInv'
<1>1. /\ run[t].op \in CollectOps /\ Phase(t, "mark", det.roots) /\ det' = det
      /\ UNCHANGED <<heap, place, held, mail, localPool, pool, queue, localRoots, pending,
                     underflow, calls>>
  BY DEF CopyRoots, CollectOps
<1>2. det' \in Detector /\ det.roots \in SUBSET Boxes
  BY <1>1, DetectorParts
<1> QED
  BY <1>1, <1>2, CollectorStep DEF CollectOps

LEMMA MarkStep ==
    ASSUME IInv, NEW t \in Threads, Mark(t) PROVE IInv'
<1>1. /\ run[t].op \in CollectOps
      /\ UNCHANGED <<heap, place, held, mail, localPool, pool, queue, localRoots, pending,
                     underflow, calls>>
  BY DEF Mark, CollectOps
<1>2. /\ heap \in [Boxes -> Value] /\ det \in Detector /\ det.roots \in SUBSET Boxes
      /\ run[t].todo \in SUBSET Boxes
  BY DetectorParts
<1>3. CASE run[t].todo = {}
  <2>1. Phase(t, "scan", det.roots) /\ det' = det
    BY <1>3 DEF Mark
  <2> QED
    BY <2>1, <1>1, <1>2, CollectorStep DEF CollectOps
<1>4. CASE run[t].todo # {}
  <2>1. PICK b \in run[t].todo : det' = MarkRoot(det, b) /\ Phase(t, "mark", run[t].todo \ {b})
    BY <1>4 DEF Mark
  <2>2. det' \in Detector
    BY <2>1, <1>2, MarkRootEffect
  <2>3. run[t].todo \ {b} \in SUBSET Boxes /\ "mark" \in CollectOps
    BY <1>2 DEF CollectOps
  <2> QED
    BY <2>1, <2>2, <2>3, <1>1, CollectorStep
<1> QED
  BY <1>3, <1>4

\* The detector gives one box a colour.
LEMMA PaintOne ==
    ASSUME IInv, NEW b \in Boxes, NEW colour \in Colours,
           det' = [det EXCEPT !.info = Paint(det.info, {b}, colour)]
    PROVE  /\ det' \in Detector /\ det'.info[b] = colour
           /\ DOMAIN det'.info = DOMAIN det.info \cup {b}
           /\ \A x \in DOMAIN det.info \ {b} : det'.info[x] = det.info[x]
<1>1. det \in Detector /\ det.info \in Infos /\ {b} \in SUBSET Boxes
  BY DetectorParts
<1>2. PICK p : p = Paint(det.info, {b}, colour)
  OBVIOUS
<1>3. p \in Infos
  BY <1>1, <1>2, PaintEffect
<1>4. det' \in Detector /\ det'.info = p
  BY <1>1, <1>2, <1>3 DEF Detector
<1>5. p[b] = colour /\ DOMAIN p = DOMAIN det.info \cup {b}
  BY <1>2 DEF Paint
<1>6. \A x \in DOMAIN det.info \ {b} : p[x] = det.info[x]
  BY <1>2 DEF Paint
<1> QED
  BY <1>4, <1>5, <1>6

\* The collector's worklists.
LEMMA WorklistsEffect ==
    ASSUME IInv, NEW t \in Threads, run[t].op = "scan", NEW s \in SUBSET Boxes,
           NEW k \in SUBSET Boxes,
           run' = [run EXCEPT ![t] = [run[t] EXCEPT !.todo = s, !.black = k]]
    PROVE  Runs' /\ run'[t].op = "scan" /\ \A u \in Threads \ {t} : run'[u] = run[u]
<1> DEFINE a == [run[t] EXCEPT !.todo = s, !.black = k]
<1>1. Runs /\ run[t] \in Activity /\ Shape(run[t])
  BY DetectorParts DEF Runs
<1>2. a \in Activity /\ a.op = "scan" /\ a.box = run[t].box /\ a.work = run[t].work
  BY <1>1 DEF Activity
<1>3. Shape(a)
  <2> HIDE DEF a
  <2> QED
    BY <1>1, <1>2 DEF Shape
<1> HIDE DEF a
<1>4. run' = [run EXCEPT ![t] = a]
  BY DEF a
<1> QED
  BY <1>1, <1>2, <1>3, <1>4, RunSet

LEMMA ScanStep ==
    ASSUME IInv, NEW t \in Threads, Scan(t) PROVE IInv'
<1>1. /\ run[t].op = "scan" /\ run[t].op \in CollectOps
      /\ UNCHANGED <<heap, place, held, mail, localPool, pool, queue, localRoots, pending,
                     underflow, calls>>
  BY DEF Scan, CollectOps
<1>2. /\ heap \in [Boxes -> Value] /\ det \in Detector /\ det.info \in Infos /\ Runs
      /\ run[t].todo \in SUBSET Boxes /\ run[t].black \in SUBSET Boxes
      /\ localRoots' \in [Threads -> Items] /\ pending' \in BOOLEAN
  BY <1>1, DetectorParts
<1>3. PICK b \in run[t].todo :
          LET rest == run[t].todo \ {b} IN
          \/ Phase(t, "scan", rest) /\ UNCHANGED det
          \/ run' = [run EXCEPT ![t].todo = rest, ![t].black = {b}] /\ UNCHANGED det
          \/ /\ det' = [det EXCEPT !.info = Paint(@, {b}, "white")]
             /\ \E next \in {{}, Range(heap[b].kids)} : Phase(t, "scan", rest \cup next)
  BY DEF Scan
<1> DEFINE rest == run[t].todo \ {b}
<1>4. b \in Boxes /\ rest \in SUBSET Boxes /\ {b} \in SUBSET Boxes /\ "scan" \in CollectOps
  BY <1>2 DEF CollectOps
<1> HIDE DEF rest
<1>5. CASE Phase(t, "scan", rest) /\ UNCHANGED det
  BY <1>1, <1>2, <1>4, <1>5, CollectorStep
<1>6. CASE run' = [run EXCEPT ![t].todo = rest, ![t].black = {b}] /\ UNCHANGED det
  <2>1. run' = [run EXCEPT ![t] = [run[t] EXCEPT !.todo = rest, !.black = {b}]]
    BY <1>6, <1>2 DEF Runs, Activity
  <2>2. Runs' /\ run'[t].op = "scan" /\ \A u \in Threads \ {t} : run'[u] = run[u]
    BY <2>1, <1>1, <1>4, WorklistsEffect
  <2> QED
    BY <2>2, <1>1, <1>2, <1>6, PhaseStep DEF BoxOps
<1>7. CASE /\ det' = [det EXCEPT !.info = Paint(@, {b}, "white")]
           /\ \E next \in {{}, Range(heap[b].kids)} : Phase(t, "scan", rest \cup next)
  <2>1. PICK next \in {{}, Range(heap[b].kids)} : Phase(t, "scan", rest \cup next)
    BY <1>7
  <2>2. rest \cup next \in SUBSET Boxes
    BY <1>2, <1>4, KidsType
  <2>3. det' \in Detector
    BY <1>4, <1>7, PaintOne DEF Colours
  <2> QED
    BY <2>1, <2>2, <2>3, <1>1, <1>4, CollectorStep
<1> QED
  BY <1>3, <1>5, <1>6, <1>7 DEF rest

LEMMA ScanBlackStep ==
    ASSUME IInv, NEW t \in Threads, ScanBlack(t) PROVE IInv'
<1>1. /\ run[t].op = "scan"
      /\ UNCHANGED <<heap, place, held, mail, localPool, pool, queue, localRoots, pending,
                     underflow, calls>>
  BY DEF ScanBlack
<1>2. /\ heap \in [Boxes -> Value] /\ Runs
      /\ run[t].todo \in SUBSET Boxes /\ run[t].black \in SUBSET Boxes
      /\ localRoots' \in [Threads -> Items] /\ pending' \in BOOLEAN
  BY <1>1, DetectorParts
<1>3. PICK b \in run[t].black :
          LET follow == b \in DOMAIN det.info /\ det.info[b] # "black" IN
          /\ det' = [det EXCEPT !.info = Paint(@, {b}, "black")]
          /\ run' = [run EXCEPT ![t].black =
                        (@ \ {b}) \cup IF follow THEN Range(heap[b].kids) ELSE {}]
  BY DEF ScanBlack
<1> DEFINE next == IF b \in DOMAIN det.info /\ det.info[b] # "black"
                   THEN Range(heap[b].kids) ELSE {}
           k == (run[t].black \ {b}) \cup next
<1>4. b \in Boxes /\ k \in SUBSET Boxes
  BY <1>2, KidsType
<1>5. run' = [run EXCEPT ![t] = [run[t] EXCEPT !.todo = run[t].todo, !.black = k]]
  <2>1. run' = [run EXCEPT ![t].black = k]
    BY <1>3
  <2> HIDE DEF k
  <2> QED
    BY <2>1, <1>2 DEF Runs, Activity
<1> HIDE DEF k
<1>6. Runs' /\ run'[t].op = "scan" /\ \A u \in Threads \ {t} : run'[u] = run[u]
  BY <1>1, <1>2, <1>4, <1>5, WorklistsEffect
<1>7. det' \in Detector
  BY <1>3, <1>4, PaintOne DEF Colours
<1> QED
  BY <1>1, <1>2, <1>6, <1>7, PhaseStep DEF BoxOps

LEMMA ScannedStep ==
    ASSUME IInv, NEW t \in Threads, Scanned(t) PROVE IInv'
<1>1. /\ run[t].op \in CollectOps /\ Phase(t, "collect", det.roots) /\ det' = det
      /\ UNCHANGED <<heap, place, held, mail, localPool, pool, queue, localRoots, pending,
                     underflow, calls>>
  BY DEF Scanned, CollectOps
<1>2. det' \in Detector /\ det.roots \in SUBSET Boxes
  BY <1>1, DetectorParts
<1> QED
  BY <1>1, <1>2, CollectorStep DEF CollectOps

\* Unless the collector takes a value for garbage, it has nothing to free.
LEMMA CollectRootsStep ==
    ASSUME IInv, NEW t \in Threads, CollectRoots(t), "claimed" \notin amiss' PROVE IInv'
<1>1. {b \in run[t].todo : IsWhite(b)} = {}
  BY DEF CollectRoots
<1>2. /\ run[t].op \in CollectOps /\ det' = [det EXCEPT !.roots = {}] /\ Phase(t, "free", {})
      /\ UNCHANGED <<heap, place, held, mail, localPool, pool, queue, localRoots, pending,
                     underflow, calls>>
  BY <1>1 DEF CollectRoots, CollectOps
<1>3. det' \in Detector
  BY <1>2, DetectorParts DEF Detector
<1>4. "free" \in CollectOps \cup {"idle"} /\ {} \in SUBSET Boxes
  BY DEF CollectOps
<1> QED
  BY <1>2, <1>3, <1>4, CollectorStep, Zenon

LEMMA CollectWhiteStep ==
    ASSUME IInv, NEW t \in Threads, CollectWhite(t) PROVE IInv'
<1>1. run[t].op = "free" /\ run[t].todo = {}
  <2>1. run[t].op = "free"
    BY DEF CollectWhite
  <2> QED
    BY <2>1, DetectorParts DEF Runs, Shape
<1>2. /\ run[t].op \in CollectOps /\ Phase(t, "promote", {})
      /\ UNCHANGED <<heap, place, held, mail, localPool, pool, queue, localRoots, pending, det,
                     underflow, calls>>
  BY <1>1 DEF CollectWhite, CollectOps
<1>3. det' \in Detector
  BY <1>2, DetectorParts
<1> QED
  BY <1>2, <1>3, CollectorStep DEF CollectOps

LEMMA PromoteStep ==
    ASSUME IInv, NEW t \in Threads, Promote(t) PROVE IInv'
<1> DEFINE n == det.old \cup (det.young \cap DOMAIN det.info)
<1>1. /\ run[t].op \in CollectOps /\ Phase(t, "idle", {})
      /\ det' = [det EXCEPT !.old = n, !.young = {}, !.collecting = FALSE]
      /\ UNCHANGED <<heap, place, held, mail, localPool, pool, queue, localRoots, pending,
                     underflow, calls>>
  BY DEF Promote, CollectOps
<1>2. det \in Detector /\ n \in SUBSET Boxes
  BY DetectorParts
<1> HIDE DEF n
<1>3. det' \in Detector
  BY <1>1, <1>2 DEF Detector
<1> QED
  BY <1>1, <1>3, CollectorStep DEF CollectOps

\* A release that left references: the box is reported, nothing else changes.
LEMMA RootStep ==
    ASSUME IInv, NEW t \in Threads, Root(t) PROVE IInv'
<1>1. /\ run[t].op = "root" /\ PossibleRoot(t, run[t].box)
      /\ UNCHANGED <<heap, place, held, mail, localPool, pool, queue, underflow, calls>>
  BY DEF Root
<1>2. Runs /\ Roots /\ run[t].box \in Boxes
  <2>1. Runs /\ Roots
    BY DetectorParts DEF Roots
  <2> QED
    BY <2>1, <1>1 DEF Runs, Shape, BoxOps
<1>3. det' \in Detector /\ localRoots' \in [Threads -> Items] /\ pending' \in BOOLEAN
  BY <1>1, <1>2, PossibleRootEffect
<1>4. PICK next \in {"idle", "flush"} : Enter(t, next, NoBox)
  BY DEF Root
<1>5. Runs' /\ run'[t].op = next /\ \A u \in Threads \ {t} : run'[u] = run[u]
  <2>1. next \in Ops /\ next \notin BoxOps /\ next \notin DropOps /\ next # "free"
        /\ NoBox \notin Boxes
    BY BoxesAssumption DEF Ops, BoxOps, DropOps
  <2> QED
    BY <2>1, <1>2, <1>4, EnterEffect DEF BoxOps, DropOps
<1> QED
  BY <1>1, <1>3, <1>5, PhaseStep DEF BoxOps

(***************************************************************************)
(* Releasing and dropping.                                                 *)
(***************************************************************************)

LEMMA CountSet ==
    ASSUME heap \in [Boxes -> Value], NEW b \in Boxes, NEW n \in Nat,
           heap' = [heap EXCEPT ![b].rc = n]
    PROVE  /\ heap' \in [Boxes -> Value] /\ heap'[b].rc = n
           /\ \A y \in Boxes : Same(heap[y], heap'[y])
           /\ \A y \in Boxes \ {b} : heap'[y] = heap[y]
<1>1. heap[b] \in Value
  OBVIOUS
<1>2. /\ [heap[b] EXCEPT !.rc = n] \in Value /\ [heap[b] EXCEPT !.rc = n].rc = n
      /\ Same(heap[b], [heap[b] EXCEPT !.rc = n])
  BY <1>1 DEF Value, Same
<1>3. \A y \in Boxes \ {b} : heap'[y] = heap[y] /\ Same(heap[y], heap[y])
  BY DEF Same
<1>4. heap'[b] = [heap[b] EXCEPT !.rc = n]
  OBVIOUS
<1> QED
  BY <1>2, <1>3, <1>4

\* The references to the other boxes stay, and those to x as its count says.
LEMMA CountsStep ==
    ASSUME TypeInv, Counts, TypeInv', NEW t \in Threads, NEW x \in Boxes, Steady(t, x),
           underflow' = underflow,
           \A b \in Boxes \ {x} :
               Part(t, x, b)' = Part(t, x, b) /\ heap'[b].rc = heap[b].rc,
           Refs(x)' - Refs(x) = Part(t, x, x)' - Part(t, x, x) => Counted(x)'
    PROVE  Counts'
<1>1. Typed /\ Typed'
  BY DEF TypeInv, Typed, Runs
<1>2. ASSUME NEW b \in Boxes PROVE Counted(b)'
  <2>1. /\ Refs(b) \in Nat /\ Refs(b)' \in Nat
        /\ Part(t, x, b) \in Nat /\ Part(t, x, b)' \in Nat
        /\ Refs(b)' - Part(t, x, b)' = Refs(b) - Part(t, x, b)
    BY <1>1, RefsStep
  <2>2. CASE b = x
    BY <2>1, <2>2
  <2>3. CASE b # x
    <3>1. Refs(b)' = Refs(b)
      BY <2>1, <2>3
    <3>2. Counted(b) /\ place'[b] = place[b] /\ heap'[b].kids = heap[b].kids
          /\ heap'[b].rc = heap[b].rc
      BY <2>3 DEF Counts, Steady
    <3> QED
      BY <3>1, <3>2 DEF Counted
  <2> QED
    BY <2>2, <2>3
<1> QED
  BY <1>2 DEF Counts

\* A box that has lost its last reference moves on.
LEMMA GoneStep ==
    ASSUME TypeInv, Counts, TypeInv', NEW t \in Threads, NEW x \in Boxes, Steady(t, x),
           underflow' = underflow,
           \A b \in Boxes : Part(t, x, b)' = Part(t, x, b),
           \A b \in Boxes \ {x} : heap'[b].rc = heap[b].rc,
           place[x] \in {"dying", "queued", "husk"}, place'[x] # "live",
           place'[x] \in {"husk", "pooled", "none"} => heap'[x].kids = <<>>,
           place'[x] # "husk" => heap'[x].rc = 0
    PROVE  Counts'
<1>1. Refs(x) = 0 /\ Refs(x) \in Nat
  <2>1. Typed
    BY TypeParts
  <2>2. Refs(x) \in Nat
    BY <2>1, RefsBound
  <2>3. Refs(x) > 0 => place[x] = "live"
    BY Referenced
  <2> QED
    BY <2>2, <2>3
<1>2. Part(t, x, x)' = Part(t, x, x) /\ Part(t, x, x) \in Nat /\ Refs(x)' \in Nat
  BY RefsStep, TypeParts DEF TypeInv, Typed, Runs
<1>3. ASSUME Refs(x)' - Refs(x) = Part(t, x, x)' - Part(t, x, x) PROVE Counted(x)'
  <2>1. Refs(x)' = 0
    BY <1>1, <1>2, <1>3
  <2> QED
    BY <2>1 DEF Counted
<1> QED
  BY <1>3, CountsStep

\* A live box loses its last reference.
LEMMA LastStep ==
    ASSUME TypeInv, Counts, TypeInv', NEW t \in Threads, NEW x \in Boxes, Steady(t, x),
           underflow' = underflow,
           \A b \in Boxes : Part(t, x, b) = Part(t, x, b)' + IF b = x THEN 1 ELSE 0,
           \A b \in Boxes \ {x} : heap'[b].rc = heap[b].rc,
           place[x] = "live", heap[x].rc = 1, place'[x] = "dying", heap'[x].rc = 0
    PROVE  Counts'
<1>1. Refs(x) = 1
  BY DEF Counts, Counted
<1>2. /\ Part(t, x, x) = Part(t, x, x)' + 1 /\ Part(t, x, x)' \in Nat /\ Part(t, x, x) \in Nat
      /\ Refs(x)' \in Nat
  BY RefsStep, TypeParts DEF TypeInv, Typed, Runs
<1>3. ASSUME Refs(x)' - Refs(x) = Part(t, x, x)' - Part(t, x, x) PROVE Counted(x)'
  <2>1. Refs(x)' = 0
    BY <1>1, <1>2, <1>3
  <2> QED
    BY <2>1 DEF Counted
<1>4. \A b \in Boxes \ {x} : Part(t, x, b)' = Part(t, x, b)
  <2> SUFFICES ASSUME NEW b \in Boxes \ {x} PROVE Part(t, x, b)' = Part(t, x, b)
    OBVIOUS
  <2>1. Part(t, x, b)' \in Nat
    BY RefsStep, TypeParts DEF TypeInv, Typed, Runs
  <2>2. Part(t, x, b) = Part(t, x, b)' + 0
    OBVIOUS
  <2> QED
    BY <2>1, <2>2
<1> QED
  BY <1>3, <1>4, CountsStep

LEMMA DecrementOne ==
    ASSUME IInv, NEW t \in Threads, NEW b \in Boxes, b = run[t].box, Decrement(t)
    PROVE  IInv'
<1>1. TypeInv /\ Counts /\ Owners /\ Recycled /\ Typed /\ Runs /\ Roots
  BY TypeParts DEF IInv
<1>2. /\ run[t].op = "release"
      /\ UNCHANGED <<held, mail, localPool, pool, queue, localRoots, pending, det, calls>>
  BY DEF Decrement
<1>3. heap \in [Boxes -> Value] /\ place \in [Boxes -> Places] /\ heap[b].rc \in Nat
      /\ det.info \in Infos
  BY <1>1 DEF TypeInv, Value, Detector
<1>4. place[b] = "live" /\ heap[b].rc > 0 /\ heap[b].rc = Refs(b)
  <2>1. Refs(b) > 0
    BY <1>1, <1>2, RefsBound
  <2> QED
    BY <2>1, <1>1, Referenced
<1>5. /\ run[t].work = <<>> /\ Waiting(t) = <<>> /\ Dying(t) = NoBox /\ Shell(t) = NoBox
      /\ \A y \in Boxes : Going(t, y) = IF y = b THEN 1 ELSE 0
  <2>1. run[t].work = <<>>
    BY <1>1, <1>2 DEF Runs, Shape, BoxOps, DropOps, ChildOps
  <2> QED
    BY <2>1, <1>2 DEF Waiting, Dying, Shell, DropOps, Going
<1>6. CASE heap[b].rc > 1
  <2>1. /\ heap' = [heap EXCEPT ![b].rc = heap[b].rc - 1] /\ Enter(t, "root", b)
        /\ UNCHANGED <<place, underflow>>
    BY <1>3, <1>6 DEF Decrement
  <2>2. heap[b].rc - 1 \in Nat
    BY <1>3, <1>6
  <2>3. /\ heap' \in [Boxes -> Value] /\ heap'[b].rc = heap[b].rc - 1
        /\ \A y \in Boxes : Same(heap[y], heap'[y])
        /\ \A y \in Boxes \ {b} : heap'[y] = heap[y]
    BY <2>1, <2>2, <1>3, CountSet, ZenonT(30)
  <2>5. /\ Runs' /\ (\A u \in Threads \ {t} : run'[u] = run[u])
        /\ run'[t].op = "root" /\ run'[t].work = <<>>
    <3>1. "root" \in Ops
      BY DEF Ops
    <3> QED
      BY <3>1, <2>1, <1>1, EnterEffect DEF BoxOps, DropOps
  <2>6. TypeInv' /\ Steady(t, b)
    BY <2>1, <2>3, <2>5, <1>1, <1>2 DEF TypeInv, Runs, Steady, Same
  <2>9. ASSUME NEW y \in Boxes
        PROVE  /\ heap'[y].rc - heap[y].rc = Part(t, b, y)' - Part(t, b, y)
               /\ place[y] # "live" => heap'[y].rc = heap[y].rc /\ heap'[y].kids = heap[y].kids
               /\ place[y] = "live" => heap'[y].rc > 0
    <3>1. /\ heap[y].rc \in Nat /\ held[t][y] \in Nat /\ held' = held /\ mail' = mail
          /\ place[y] = "live" => heap[y].rc > 0
      BY <1>1, <1>2, <1>3 DEF Value, Counts, Counted, Typed
    <3>2. /\ heap'[b].kids = heap[b].kids /\ Count(heap[b].kids, y) \in Nat
          /\ Count(mail, y) \in Nat
      BY <1>1, <1>3, <2>3, AtFinite, KidsType DEF Typed, Same
    <3>3. Waiting(t)' = <<>> /\ Going(t, y)' = 0 /\ Count(<<>>, y) = 0
      BY <2>5, CountEmpty DEF Waiting, Going
    <3>4. Going(t, y) = (IF y = b THEN 1 ELSE 0) /\ Waiting(t) = <<>>
      BY <1>5
    <3>5. CASE y = b
      <4>1. Part(t, b, y)' - Part(t, b, y) = -1
        BY <3>1, <3>2, <3>3, <3>4, <3>5 DEF Part
      <4> QED
        BY <4>1, <3>1, <3>5, <2>3, <1>4, <1>6
    <3>6. CASE y # b
      <4>1. Part(t, b, y)' - Part(t, b, y) = 0
        BY <3>1, <3>2, <3>3, <3>4, <3>6 DEF Part
      <4> QED
        BY <4>1, <3>1, <3>6, <2>3
    <3> QED
      BY <3>5, <3>6
  <2>10. Counts' /\ Owners' /\ Recycled'
    <3>1. Shell(t)' = Shell(t)
      BY <2>5, <1>5 DEF Shell, DropOps
    <3> QED
      BY <3>1, <2>1, <2>5, <2>6, <2>9, <1>2, LiveStep
  <2> QED
    BY <2>6, <2>10 DEF IInv
<1>7. CASE heap[b].rc = 1
  <2>1. /\ heap' = [heap EXCEPT ![b].rc = 0] /\ place' = [place EXCEPT ![b] = "dying"]
        /\ Enter(t, "notify", b) /\ UNCHANGED underflow
    BY <1>3, <1>7 DEF Decrement
  <2>3. /\ heap' \in [Boxes -> Value] /\ heap'[b].rc = 0
        /\ \A y \in Boxes : Same(heap[y], heap'[y])
        /\ \A y \in Boxes \ {b} : heap'[y] = heap[y]
    BY <2>1, <1>3, CountSet
  <2>4. /\ place' \in [Boxes -> Places] /\ place'[b] = "dying"
        /\ \A y \in Boxes \ {b} : place'[y] = place[y]
    BY <2>1, <1>3 DEF Places
  <2>5. /\ Runs' /\ (\A u \in Threads \ {t} : run'[u] = run[u])
        /\ run'[t].op = "notify" /\ run'[t].box = b /\ run'[t].work = <<>>
    <3>1. "notify" \in Ops
      BY DEF Ops
    <3> QED
      BY <3>1, <2>1, <1>1, EnterEffect DEF BoxOps, DropOps
  <2>6. TypeInv' /\ Steady(t, b)
    BY <2>1, <2>3, <2>4, <2>5, <1>1, <1>2 DEF TypeInv, Runs, Steady, Same
  <2>8. Dying(t)' = b /\ Shell(t)' = NoBox
    BY <2>5 DEF Dying, Shell, DropOps
  <2>10. ASSUME NEW y \in Boxes
         PROVE  Part(t, b, y) = Part(t, b, y)' + IF y = b THEN 1 ELSE 0
    <3>1. held[t][y] \in Nat /\ held' = held /\ mail' = mail
      BY <1>1, <1>2 DEF Typed
    <3>2. /\ heap'[b].kids = heap[b].kids /\ Count(heap[b].kids, y) \in Nat
          /\ Count(mail, y) \in Nat
      BY <1>1, <1>3, <2>3, AtFinite, KidsType DEF Typed, Same
    <3>3. Waiting(t)' = <<>> /\ Going(t, y)' = 0 /\ Count(<<>>, y) = 0
      BY <2>5, CountEmpty DEF Waiting, Going
    <3>4. Going(t, y) = (IF y = b THEN 1 ELSE 0) /\ Waiting(t) = <<>>
      BY <1>5
    <3> QED
      BY <3>1, <3>2, <3>3, <3>4 DEF Part
  <2>11. Counts'
    BY <2>1, <2>3, <2>4, <2>6, <2>10, <1>1, <1>4, <1>7, LastStep
  <2>12. Recycled'
    BY <2>4, <1>1, <1>2, <1>4, ListsKept
  <2>13. Owners'
    <3>1. place[b] # "dying" /\ place[b] # "husk" /\ place'[b] # "husk" /\ NoBox \notin Boxes
      BY <2>4, <1>4, BoxesAssumption
    <3> QED
      BY <3>1, <2>4, <2>5, <2>8, <1>1, <1>4, <1>5, OwnersStep
  <2> QED
    BY <2>6, <2>11, <2>12, <2>13 DEF IInv
<1> QED
  BY <1>3, <1>4, <1>6, <1>7

LEMMA DecrementStep == ASSUME IInv, NEW t \in Threads, Decrement(t) PROVE IInv'
<1>1. run[t].box \in Boxes
  BY DEF IInv, TypeInv, Shape, BoxOps, DropOps, ChildOps, Decrement
<1> QED
  BY <1>1, DecrementOne

\* The thread before and after: no reference is in its hands except its worklist.
LEMMA PartSame ==
    ASSUME Typed, Typed', NEW t \in Threads, NEW x \in Boxes, NEW y \in Boxes,
           UNCHANGED <<held, mail>>, run[t].op # "release", run'[t].op # "release",
           Count(heap'[x].kids, y) + Count(Waiting(t)', y)
               = Count(heap[x].kids, y) + Count(Waiting(t), y)
    PROVE  Part(t, x, y)' = Part(t, x, y)
<1>1. held[t][y] \in Nat /\ Count(mail, y) \in Nat
  BY AtFinite DEF Typed
<1>2. Count(heap[x].kids, y) \in Nat /\ Count(Waiting(t), y) \in Nat
  BY KidsType, WaitingType, AtFinite DEF Typed
<1>3. Count(heap'[x].kids, y) \in Nat /\ Count(Waiting(t)', y) \in Nat
  <2>1. heap'[x].kids \in Items
    BY DEF Typed, Value
  <2>2. run'[t].work \in Items /\ (run'[t].op \in {"child", "childroot"} => run'[t].work # <<>>)
    BY DEF Typed, Runs, Activity, Shape, ChildOps
  <2>3. Waiting(t)' \in Items
    BY <2>2, FrontType DEF Waiting
  <2> QED
    BY <2>1, <2>3, AtFinite
<1>4. Going(t, y) = 0 /\ Going(t, y)' = 0
  BY DEF Going
<1>5. /\ Part(t, x, y) = held[t][y] + Count(mail, y) + Count(heap[x].kids, y)
                         + Count(Waiting(t), y) + 0
      /\ Part(t, x, y)' = held[t][y] + Count(mail, y) + Count(heap'[x].kids, y)
                         + Count(Waiting(t)', y) + 0
  BY <1>4 DEF Part
<1> QED
  BY <1>1, <1>2, <1>3, <1>5

LEMMA NotifyOne ==
    ASSUME IInv, NEW t \in Threads, NEW b \in Boxes, b = run[t].box, Notify(t)
    PROVE  IInv'
<1>1. TypeInv /\ Counts /\ Owners /\ Recycled /\ Typed /\ Runs
  BY TypeParts DEF IInv
<1>2. /\ run[t].op = "notify" /\ heap' = [heap EXCEPT ![b].epoch = heap[b].epoch + 1]
      /\ det' = Forget(det, b) /\ Enter(t, "dispose", b)
      /\ UNCHANGED <<place, held, mail, localPool, pool, queue, localRoots, pending, underflow,
                     calls>>
  BY DEF Notify
<1>3. heap \in [Boxes -> Value] /\ heap[b].epoch \in Nat /\ det \in Detector
  BY <1>1 DEF TypeInv, Value
<1>4. /\ heap' \in [Boxes -> Value]
      /\ \A y \in Boxes : heap'[y].rc = heap[y].rc /\ heap'[y].kids = heap[y].kids
  <2> DEFINE v == [heap[b] EXCEPT !.epoch = heap[b].epoch + 1]
  <2>1. v \in Value /\ v.rc = heap[b].rc /\ v.kids = heap[b].kids
    BY <1>3 DEF Value
  <2>2. heap' = [heap EXCEPT ![b] = v]
    BY <1>2
  <2> HIDE DEF v
  <2> QED
    BY <2>1, <2>2, <1>3
<1>5. /\ Runs' /\ (\A u \in Threads \ {t} : run'[u] = run[u])
      /\ run'[t].op = "dispose" /\ run'[t].box = b /\ run'[t].work = <<>>
  <2>1. "dispose" \in Ops
    BY DEF Ops
  <2> QED
    BY <2>1, <1>1, <1>2, EnterEffect DEF BoxOps, DropOps
<1>6. det' \in Detector /\ Paler(det.info, det'.info) /\ b \notin DOMAIN det'.info
  BY <1>2, <1>3, ForgetEffect
<1>7. TypeInv' /\ Typed' /\ Steady(t, b)
  BY <1>1, <1>2, <1>4, <1>5, <1>6 DEF TypeInv, Typed, Runs, Steady
<1>8. /\ Dying(t) = b /\ Dying(t)' = b /\ Shell(t) = NoBox /\ Shell(t)' = NoBox
      /\ b # NoBox /\ place[b] = "dying"
  <2>1. Dying(t) = b /\ Dying(t)' = b /\ Shell(t) = NoBox /\ Shell(t)' = NoBox /\ b # NoBox
    BY <1>2, <1>5, BoxesAssumption DEF Dying, Shell, DropOps
  <2> QED
    BY <2>1, <1>1 DEF Owners
<1>11. Owners'
  BY <1>1, <1>2, <1>5, <1>8, BoxesAssumption, OwnersStep
<1>12. Recycled'
  BY <1>1, <1>2, ListsKept
<1>13. ASSUME NEW y \in Boxes PROVE Part(t, b, y)' = Part(t, b, y)
  <2>1. run[t].work = <<>>
    BY <1>1, <1>2 DEF Runs, Shape, BoxOps, DropOps, ChildOps
  <2>2. Waiting(t)' = <<>> /\ Waiting(t) = <<>>
    BY <2>1, <1>2, <1>5 DEF Waiting
  <2>3. Count(heap'[b].kids, y) + Count(Waiting(t)', y) = Count(heap[b].kids, y) + Count(Waiting(t), y)
    BY <2>2, <1>4
  <2> QED
    BY <2>3, <1>1, <1>2, <1>5, <1>7, PartSame
<1>14. Counts'
  <2>1. heap[b].rc = 0
    BY <1>1, <1>8 DEF Counts, Counted
  <2> QED
    BY <2>1, <1>1, <1>2, <1>4, <1>7, <1>8, <1>13, GoneStep
<1> QED
  BY <1>7, <1>11, <1>12, <1>14 DEF IInv

LEMMA NotifyStep == ASSUME IInv, NEW t \in Threads, Notify(t) PROVE IInv'
<1>1. run[t].box \in Boxes
  BY DEF IInv, TypeInv, Shape, BoxOps, DropOps, ChildOps, Notify
<1> QED
  BY <1>1, NotifyOne

\* drop_heap_value takes over the items of x, which becomes a husk.
LEMMA HuskStep ==
    ASSUME IInv, NEW t \in Threads, NEW x \in Boxes, NEW then \in {"idle", "drain"},
           run[t].op \in {"dispose", "drain"}, Dying(t) \in {x, NoBox},
           place[x] = "dying" => Dying(t) = x, place[x] \in {"dying", "queued"},
           heap' = [heap EXCEPT ![x] = Unit(t)], place' = [place EXCEPT ![x] = "husk"],
           Drop(t, x, then), queue' \in [Threads -> Queue],
           \A y \in Boxes : Late(y)' = IF place'[y] = "queued" THEN 1 ELSE 0,
           UNCHANGED <<held, mail, localPool, pool, localRoots, pending, det, underflow, calls>>
    PROVE  IInv'
<1>1. TypeInv /\ Counts /\ Owners /\ Recycled /\ Typed /\ Runs
  BY TypeParts DEF IInv
<1>2. heap \in [Boxes -> Value] /\ place \in [Boxes -> Places] /\ det.info \in Infos
      /\ heap[x].kids \in Items
  BY <1>1, KidsType DEF TypeInv, Detector
<1>3. /\ heap' \in [Boxes -> Value] /\ heap'[x].kids = <<>>
      /\ \A y \in Boxes \ {x} : heap'[y] = heap[y]
  <2>1. t \in Owner
    BY DEF Owner
  <2>2. Unit(t) \in Value /\ Unit(t).kids = <<>>
    BY <2>1, UnitType
  <2> QED
    BY <2>2, <1>2
<1>4. /\ place' \in [Boxes -> Places] /\ place'[x] = "husk"
      /\ \A y \in Boxes \ {x} : place'[y] = place[y]
  BY <1>2 DEF Places
<1>5. /\ Runs' /\ (\A u \in Threads \ {t} : run'[u] = run[u])
      /\ run'[t].op = "drop" /\ run'[t].box = x /\ run'[t].work = heap[x].kids
  BY <1>1, <1>2, DropEffect
<1>6. TypeInv' /\ Typed' /\ Steady(t, x)
  BY <1>1, <1>3, <1>4, <1>5 DEF TypeInv, Typed, Runs, Steady
<1>7. Dying(t)' = NoBox /\ Shell(t)' = x /\ Shell(t) = NoBox /\ x # NoBox
  BY <1>5, BoxesAssumption DEF Dying, Shell, DropOps
<1>10. Owners'
  <2>1. x = Dying(t) \/ place[x] \notin {"dying", "husk"}
    OBVIOUS
  <2>2. Shell(t)' = x /\ place[x] # "husk" /\ place'[x] = "husk"
    BY <1>4, <1>7
  <2>3. NoBox \notin Boxes
    BY BoxesAssumption
  <2> QED
    BY <2>1, <2>2, <2>3, <1>1, <1>4, <1>5, <1>7, OwnersStep
<1>11. Recycled'
  <2>1. \A y \in Boxes : Free(y)' = Free(y)
    BY DEF Free
  <2>2. \A y \in Boxes : Free(y) = IF place[y] = "pooled" THEN 1 ELSE 0
    BY <1>1, ListsDefined
  <2>3. \A y \in Boxes : Free(y)' = IF place'[y] = "pooled" THEN 1 ELSE 0
    BY <2>1, <2>2, <1>4
  <2> QED
    BY <2>3 DEF Recycled, Free, Late
<1>12. ASSUME NEW y \in Boxes PROVE Part(t, x, y)' = Part(t, x, y)
  <2>1. run[t].work = <<>>
    BY <1>1 DEF Runs, Shape, BoxOps, DropOps, ChildOps
  <2>2. Waiting(t)' = heap[x].kids /\ Waiting(t) = <<>>
    BY <2>1, <1>5 DEF Waiting
  <2>3. Count(heap[x].kids, y) \in Nat /\ Count(<<>>, y) = 0
    BY <1>2, AtFinite, CountEmpty
  <2>4. Count(heap'[x].kids, y) + Count(Waiting(t)', y) = Count(heap[x].kids, y) + Count(Waiting(t), y)
    BY <2>2, <2>3, <1>3
  <2> QED
    BY <2>4, <1>1, <1>5, <1>6, PartSame
<1>13. Counts'
  BY <1>1, <1>3, <1>4, <1>6, <1>12, GoneStep
<1> QED
  BY <1>6, <1>10, <1>11, <1>13 DEF IInv

\* The release queue of a thread becomes s.
LEMMA QueueSet ==
    ASSUME queue \in [Threads -> Queue], NEW t \in Threads, NEW s \in Items,
           queue' = [queue EXCEPT ![t].items = s]
    PROVE  /\ queue' \in [Threads -> Queue] /\ queue'[t].items = s
           /\ \A u \in Threads \ {t} : queue'[u] = queue[u]
<1>1. queue[t] \in Queue
  OBVIOUS
<1>2. [queue[t] EXCEPT !.items = s] \in Queue /\ [queue[t] EXCEPT !.items = s].items = s
  BY <1>1 DEF Queue
<1>3. queue'[t] = [queue[t] EXCEPT !.items = s]
  OBVIOUS
<1> QED
  BY <1>2, <1>3

\* The box waits in the release queue, or is forgotten.
LEMMA DisposeLater ==
    ASSUME IInv, NEW t \in Threads, NEW b \in Boxes, b = run[t].box, Dispose(t), queue[t].on
    PROVE  IInv'
<1> DEFINE room == Len(queue[t].items) < QueueLimit
           to == IF room THEN "queued" ELSE "lost"
<1>1. TypeInv /\ Counts /\ Owners /\ Recycled /\ Typed /\ Runs
  BY TypeParts DEF IInv
<1>2. /\ run[t].op = "dispose" /\ heap' = heap
      /\ queue' = IF room THEN [queue EXCEPT ![t].items = Append(queue[t].items, b)] ELSE queue
      /\ place' = [place EXCEPT ![b] = to] /\ run' = [run EXCEPT ![t] = Idle]
      /\ UNCHANGED <<held, mail, localPool, pool, localRoots, pending, det, underflow, calls>>
  BY DEF Dispose
<1>3. /\ heap \in [Boxes -> Value] /\ place \in [Boxes -> Places] /\ det.info \in Infos
      /\ queue \in [Threads -> Queue] /\ queue[t].items \in Items
  BY <1>1 DEF TypeInv, Detector, Queue
<1>4. /\ Dying(t) = b /\ Shell(t) = NoBox /\ b # NoBox /\ place[b] = "dying"
  <2>1. Dying(t) = b /\ Shell(t) = NoBox /\ b # NoBox
    BY <1>2, BoxesAssumption DEF Dying, Shell, DropOps
  <2> QED
    BY <2>1, <1>1 DEF Owners
<1>5. /\ place' \in [Boxes -> Places] /\ place'[b] = to /\ to \in {"queued", "lost"}
      /\ \A y \in Boxes \ {b} : place'[y] = place[y]
  BY <1>2, <1>3 DEF Places
<1>6. /\ Runs' /\ (\A u \in Threads \ {t} : run'[u] = run[u])
      /\ run'[t].op = "idle" /\ run'[t].work = <<>>
  BY <1>1, <1>2, StopEffect
<1>7. /\ queue' \in [Threads -> Queue] /\ (\A u \in Threads \ {t} : queue'[u] = queue[u])
      /\ \A y \in Boxes : Count(queue'[t].items, y)
             = Count(queue[t].items, y) + IF y = b /\ room THEN 1 ELSE 0
  <2>1. CASE room
    <3> DEFINE s == queue[t].items
    <3>1. s \in Items /\ Append(s, b) \in Items
      BY <1>3, AppendType
    <3>2. ASSUME NEW y \in Boxes PROVE Count(Append(s, b), y) = Count(s, y) + IF b = y THEN 1 ELSE 0
      <4> HIDE DEF s
      <4> QED
        BY <3>1, CountAppend
    <3>3. queue' = [queue EXCEPT ![t].items = Append(s, b)]
      BY <2>1, <1>2
    <3>4. /\ queue' \in [Threads -> Queue] /\ queue'[t].items = Append(s, b)
          /\ \A u \in Threads \ {t} : queue'[u] = queue[u]
      <4> HIDE DEF s
      <4> QED
        BY <3>1, <3>3, <1>3, QueueSet
    <3> QED
      BY <3>2, <3>4, <2>1
  <2>2. CASE ~room
    <3>1. queue' = queue /\ \A y \in Boxes : Count(queue[t].items, y) \in Nat
      BY <2>2, <1>2, <1>3, AtFinite
    <3> QED
      BY <3>1, <2>2, <1>3
  <2> QED
    BY <2>1, <2>2
<1> HIDE DEF room
<1>8. TypeInv' /\ Typed' /\ Steady(t, b)
  BY <1>1, <1>2, <1>3, <1>5, <1>6, <1>7 DEF TypeInv, Typed, Runs, Steady
<1>9. Dying(t)' = NoBox /\ Shell(t)' = NoBox
  BY <1>6 DEF Dying, Shell, DropOps
<1>12. Owners'
  <2>1. place'[b] # "husk" /\ NoBox \notin Boxes
    BY <1>5, BoxesAssumption
  <2> QED
    BY <2>1, <1>1, <1>4, <1>5, <1>6, <1>9, OwnersStep
<1>13. Recycled'
  <2>1. \A y \in Boxes : Free(y)' = Free(y)
    BY <1>2 DEF Free
  <2>2. \A y \in Boxes : /\ Free(y) = IF place[y] = "pooled" THEN 1 ELSE 0
                         /\ Late(y) = IF place[y] = "queued" THEN 1 ELSE 0
    BY <1>1, ListsDefined
  <2>3. \A y \in Boxes : Free(y)' = IF place'[y] = "pooled" THEN 1 ELSE 0
    BY <2>1, <2>2, <1>4, <1>5
  <2>4. ASSUME NEW y \in Boxes PROVE Late(y)' = IF place'[y] = "queued" THEN 1 ELSE 0
    <3>1. /\ Late(y) \in Nat /\ Late(y)' \in Nat
          /\ Count(queue[t].items, y) \in Nat /\ Count(queue'[t].items, y) \in Nat
          /\ Late(y)' - Count(queue'[t].items, y) = Late(y) - Count(queue[t].items, y)
      BY <1>3, <1>7, LateStep
    <3>2. Late(y)' = Late(y) + IF y = b /\ room THEN 1 ELSE 0
      BY <3>1, <1>7
    <3>3. CASE y = b
      BY <3>2, <3>3, <2>2, <1>4, <1>5
    <3>4. CASE y # b
      BY <3>1, <3>2, <3>4, <2>2, <1>5
    <3> QED
      BY <3>3, <3>4
  <2> QED
    BY <2>3, <2>4 DEF Recycled, Free, Late
<1>14. ASSUME NEW y \in Boxes PROVE Part(t, b, y)' = Part(t, b, y)
  <2>1. run[t].work = <<>>
    BY <1>1, <1>2 DEF Runs, Shape, BoxOps, DropOps, ChildOps
  <2>2. Waiting(t)' = <<>> /\ Waiting(t) = <<>>
    BY <2>1, <1>2, <1>6 DEF Waiting
  <2>3. Count(heap'[b].kids, y) + Count(Waiting(t)', y) = Count(heap[b].kids, y) + Count(Waiting(t), y)
    BY <2>2, <1>2
  <2> QED
    BY <2>3, <1>1, <1>2, <1>6, <1>8, PartSame
<1>15. Counts'
  <2>1. heap[b].rc = 0
    BY <1>1, <1>4 DEF Counts, Counted
  <2> QED
    BY <2>1, <1>1, <1>2, <1>4, <1>5, <1>8, <1>14, GoneStep
<1> QED
  BY <1>8, <1>12, <1>13, <1>15 DEF IInv

LEMMA DisposeNow ==
    ASSUME IInv, NEW t \in Threads, NEW b \in Boxes, b = run[t].box, Dispose(t), ~queue[t].on
    PROVE  IInv'
<1>1. TypeInv /\ Owners /\ Recycled
  BY DEF IInv
<1>2. /\ run[t].op = "dispose" /\ queue' = queue /\ heap' = [heap EXCEPT ![b] = Unit(t)]
      /\ place' = [place EXCEPT ![b] = "husk"] /\ Drop(t, b, "idle")
      /\ UNCHANGED <<held, mail, localPool, pool, localRoots, pending, det, underflow, calls>>
  BY DEF Dispose
<1>3. Dying(t) = b /\ place[b] = "dying"
  <2>1. Dying(t) = b /\ b # NoBox
    BY <1>2, BoxesAssumption DEF Dying
  <2> QED
    BY <2>1, <1>1 DEF Owners
<1>4. queue' \in [Threads -> Queue] /\ place \in [Boxes -> Places]
  BY <1>1, <1>2 DEF TypeInv
<1>5. \A y \in Boxes : Late(y)' = IF place'[y] = "queued" THEN 1 ELSE 0
  <2>1. \A y \in Boxes : Late(y) = IF place[y] = "queued" THEN 1 ELSE 0
    BY <1>1, ListsDefined
  <2>2. \A y \in Boxes : Late(y)' = Late(y)
    BY <1>2 DEF Late
  <2> QED
    BY <2>1, <2>2, <1>2, <1>3, <1>4
<1> QED
  BY <1>2, <1>3, <1>4, <1>5, HuskStep

LEMMA DisposeStep == ASSUME IInv, NEW t \in Threads, Dispose(t) PROVE IInv'
<1>1. run[t].box \in Boxes
  BY DEF IInv, TypeInv, Shape, BoxOps, DropOps, ChildOps, Dispose
<1> QED
  BY <1>1, DisposeLater, DisposeNow

LEMMA DrainOne ==
    ASSUME IInv, NEW t \in Threads, queue[t].items # <<>>, NEW b \in Boxes,
           b = Head(queue[t].items), Drain(t)
    PROVE  IInv'
<1> DEFINE s == queue[t].items
<1>1. TypeInv /\ Owners /\ Recycled
  BY DEF IInv
<1>2. /\ run[t].op = "drain" /\ queue' = [queue EXCEPT ![t].items = Tail(s)]
      /\ heap' = [heap EXCEPT ![b] = Unit(t)]
      /\ place' = [place EXCEPT ![b] = "husk"] /\ Drop(t, b, "drain")
      /\ UNCHANGED <<held, mail, localPool, pool, localRoots, pending, det, underflow, calls>>
  BY DEF Drain
<1>3. queue \in [Threads -> Queue] /\ s \in Items /\ s # <<>> /\ b = Head(s)
      /\ place \in [Boxes -> Places]
  BY <1>1 DEF TypeInv, Queue
<1>4. Count(queue[t].items, b) = Count(s, b)
  OBVIOUS
<1>5. \A y \in Boxes : Count(queue[t].items, y) = Count(s, y)
  OBVIOUS
<1> HIDE DEF s
<1>6. Tail(s) \in Items /\ \A y \in Boxes : Count(s, y) = Count(Tail(s), y) + IF b = y THEN 1 ELSE 0
  BY <1>3, CountTail
<1>7. /\ queue' \in [Threads -> Queue] /\ queue'[t].items = Tail(s)
      /\ \A u \in Threads \ {t} : queue'[u] = queue[u]
  BY <1>2, <1>3, <1>6, QueueSet
<1>8. ASSUME NEW y \in Boxes
      PROVE /\ Late(y) = Late(y)' + (IF b = y THEN 1 ELSE 0) /\ Late(y)' \in Nat
  <2>1. /\ Late(y) \in Nat /\ Late(y)' \in Nat
        /\ Count(queue[t].items, y) \in Nat /\ Count(queue'[t].items, y) \in Nat
        /\ Late(y)' - Count(queue'[t].items, y) = Late(y) - Count(queue[t].items, y)
    BY <1>3, <1>7, LateStep
  <2>2. Count(queue[t].items, y) = Count(queue'[t].items, y) + IF b = y THEN 1 ELSE 0
    BY <1>5, <1>6, <1>7
  <2> QED
    BY <2>1, <2>2
<1>9. \A y \in Boxes : Late(y) = IF place[y] = "queued" THEN 1 ELSE 0
  BY <1>1, ListsDefined
<1>10. place[b] = "queued"
  <2>1. Late(b) = Late(b)' + 1 /\ Late(b)' \in Nat
    BY <1>8
  <2> QED
    BY <2>1, <1>9
<1>11. \A y \in Boxes : Late(y)' = IF place'[y] = "queued" THEN 1 ELSE 0
  <2> SUFFICES ASSUME NEW y \in Boxes PROVE Late(y)' = IF place'[y] = "queued" THEN 1 ELSE 0
    OBVIOUS
  <2>1. Late(y) = Late(y)' + (IF b = y THEN 1 ELSE 0) /\ Late(y)' \in Nat
    BY <1>8
  <2>2. Late(y) = IF place[y] = "queued" THEN 1 ELSE 0
    BY <1>9
  <2>3. place'[y] = IF y = b THEN "husk" ELSE place[y]
    BY <1>2, <1>3
  <2> QED
    BY <2>1, <2>2, <2>3, <1>10
<1>12. Dying(t) = NoBox
  BY <1>2 DEF Dying
<1> QED
  BY <1>2, <1>7, <1>10, <1>11, <1>12, HuskStep

LEMMA DrainStep == ASSUME IInv, NEW t \in Threads, Drain(t) PROVE IInv'
<1>1. CASE queue[t].items = <<>>
  <2>1. /\ run[t].op = "drain" /\ run' = [run EXCEPT ![t] = Idle]
        /\ UNCHANGED <<heap, place, queue, held, mail, localPool, pool, localRoots, pending, det,
                       underflow, calls>>
    BY <1>1 DEF Drain
  <2>2. Runs
    BY DetectorParts
  <2>3. Runs' /\ (\A u \in Threads \ {t} : run'[u] = run[u]) /\ run'[t].op = "idle"
    BY <2>1, <2>2, StopEffect
  <2>4. det' \in Detector /\ localRoots' \in [Threads -> Items] /\ pending' \in BOOLEAN
    BY <2>1, DetectorParts
  <2> QED
    BY <2>1, <2>3, <2>4, PhaseStep DEF BoxOps
<1>2. CASE queue[t].items # <<>>
  <2>1. queue[t].items \in Items
    BY DEF IInv, TypeInv, Queue
  <2>2. Head(queue[t].items) \in Boxes
    BY <2>1, <1>2, CountTail
  <2> QED
    BY <2>2, <1>2, DrainOne
<1> QED
  BY <1>1, <1>2

LEMMA DropChildOne ==
    ASSUME IInv, NEW t \in Threads, NEW c \in Boxes, c = Last(run[t].work), DropChild(t)
    PROVE  IInv'
<1> DEFINE w == run[t].work
<1>1. TypeInv /\ Counts /\ Owners /\ Recycled /\ Typed /\ Runs /\ Roots
  BY TypeParts DEF IInv
<1>2. /\ run[t].op = "drop" /\ w # <<>>
      /\ UNCHANGED <<held, mail, localPool, pool, queue, localRoots, pending, det, calls>>
  BY DEF DropChild
<1>3. /\ heap \in [Boxes -> Value] /\ place \in [Boxes -> Places] /\ heap[c].rc \in Nat
      /\ det.info \in Infos /\ run \in [Threads -> Activity] /\ w \in Items /\ run[t].box \in Boxes
  BY <1>1, <1>2 DEF TypeInv, Value, Detector, Activity, Shape, BoxOps, DropOps, ChildOps
<1>4. /\ Front(w) \in Items /\ c \in Range(w) /\ Waiting(t) = w /\ c = Last(w)
  BY <1>2, <1>3, FrontType DEF Waiting
<1>5. ASSUME NEW y \in Boxes
      PROVE  /\ Count(w, y) = Count(Front(w), y) + (IF y = c THEN 1 ELSE 0)
             /\ Count(Front(w), y) \in Nat
  BY <1>2, <1>3, CountFront
<1>6. run[t] = [run[t] EXCEPT !.op = "drop"]
  BY <1>2, <1>3 DEF Activity
<1>7. place[c] = "live" /\ heap[c].rc > 0 /\ heap[c].rc = Refs(c)
  <2>1. Refs(c) > 0
    BY <1>1, <1>4, RefsBound
  <2> QED
    BY <2>1, <1>1, Referenced
<1>8. Dying(t) = NoBox /\ Shell(t) = run[t].box
  BY <1>2 DEF Dying, Shell, DropOps
<1>9. \A y \in Boxes : Going(t, y) = 0 /\ Waiting(t) = w
  BY <1>2, <1>4 DEF Going
<1>10. CASE heap[c].rc > 1
  <2>1. /\ heap' = [heap EXCEPT ![c].rc = heap[c].rc - 1]
        /\ run' = [run EXCEPT ![t] = [run[t] EXCEPT !.op = "childroot", !.work = w]]
        /\ UNCHANGED <<place, underflow>>
    <3>1. /\ run' = [run EXCEPT ![t] = [run[t] EXCEPT !.op = "childroot"]]
          /\ heap' = [heap EXCEPT ![c].rc = heap[c].rc - 1]
          /\ UNCHANGED <<place, underflow>>
      BY <1>3, <1>10 DEF DropChild
    <3>2. [run[t] EXCEPT !.op = "childroot", !.work = w] = [run[t] EXCEPT !.op = "childroot"]
      BY <1>2, <1>3 DEF Activity
    <3> QED
      BY <3>1, <3>2, Zenon
  <2>2. heap[c].rc - 1 \in Nat
    BY <1>3, <1>10
  <2>3. /\ heap' \in [Boxes -> Value] /\ heap'[c].rc = heap[c].rc - 1
        /\ \A y \in Boxes : Same(heap[y], heap'[y])
        /\ \A y \in Boxes \ {c} : heap'[y] = heap[y]
    BY <2>1, <2>2, <1>3, CountSet
  <2>5. /\ Runs' /\ (\A u \in Threads \ {t} : run'[u] = run[u])
        /\ run'[t].op = "childroot" /\ run'[t].box = run[t].box /\ run'[t].work = w
    <3> HIDE DEF w
    <3> QED
      BY <2>1, <1>1, <1>2, <1>3, WorkEffect DEF DropOps, ChildOps
  <2>6. TypeInv' /\ Steady(t, c)
    BY <2>1, <2>3, <2>5, <1>1, <1>2 DEF TypeInv, Runs, Steady, Same
  <2>9. ASSUME NEW y \in Boxes
        PROVE  /\ heap'[y].rc - heap[y].rc = Part(t, c, y)' - Part(t, c, y)
               /\ place[y] # "live" => heap'[y].rc = heap[y].rc /\ heap'[y].kids = heap[y].kids
               /\ place[y] = "live" => heap'[y].rc > 0
    <3>1. /\ heap[y].rc \in Nat /\ held[t][y] \in Nat /\ held' = held /\ mail' = mail
          /\ place[y] = "live" => heap[y].rc > 0
      BY <1>1, <1>2, <1>3 DEF Value, Counts, Counted, Typed
    <3>2. /\ heap'[c].kids = heap[c].kids /\ Count(heap[c].kids, y) \in Nat
          /\ Count(mail, y) \in Nat
      BY <1>1, <1>3, <2>3, AtFinite, KidsType DEF Typed, Same
    <3>3. Waiting(t)' = Front(w) /\ Going(t, y)' = 0 /\ Waiting(t) = w /\ Going(t, y) = 0
      BY <2>5, <1>9 DEF Waiting, Going
    <3>4. /\ Count(w, y) = Count(Front(w), y) + (IF y = c THEN 1 ELSE 0)
          /\ Count(Front(w), y) \in Nat
      BY <1>5
    <3>5. CASE y = c
      <4>1. Part(t, c, y)' - Part(t, c, y) = -1
        BY <3>1, <3>2, <3>3, <3>4, <3>5 DEF Part
      <4> QED
        BY <4>1, <3>1, <3>5, <2>3, <1>7, <1>10
    <3>6. CASE y # c
      <4>1. Part(t, c, y)' - Part(t, c, y) = 0
        BY <3>1, <3>2, <3>3, <3>4, <3>6 DEF Part
      <4> QED
        BY <4>1, <3>1, <3>6, <2>3
    <3> QED
      BY <3>5, <3>6
  <2>10. Counts' /\ Owners' /\ Recycled'
    <3>1. Shell(t)' = Shell(t)
      BY <2>5, <1>8 DEF Shell, DropOps
    <3> QED
      BY <3>1, <2>1, <2>5, <2>6, <2>9, <1>2, LiveStep
  <2> QED
    BY <2>6, <2>10 DEF IInv
<1>11. CASE heap[c].rc = 1
  <2>1. /\ heap' = [heap EXCEPT ![c].rc = 0] /\ place' = [place EXCEPT ![c] = "dying"]
        /\ run' = [run EXCEPT ![t] = [run[t] EXCEPT !.op = "child", !.work = w]]
        /\ UNCHANGED underflow
    <3>1. /\ run' = [run EXCEPT ![t] = [run[t] EXCEPT !.op = "child"]]
          /\ heap' = [heap EXCEPT ![c].rc = 0] /\ place' = [place EXCEPT ![c] = "dying"]
          /\ UNCHANGED underflow
      BY <1>3, <1>11 DEF DropChild
    <3>2. [run[t] EXCEPT !.op = "child", !.work = w] = [run[t] EXCEPT !.op = "child"]
      BY <1>3 DEF Activity
    <3> QED
      BY <3>1, <3>2, Zenon
  <2>3. /\ heap' \in [Boxes -> Value] /\ heap'[c].rc = 0
        /\ \A y \in Boxes : Same(heap[y], heap'[y])
        /\ \A y \in Boxes \ {c} : heap'[y] = heap[y]
    BY <2>1, <1>3, CountSet
  <2>4. /\ place' \in [Boxes -> Places] /\ place'[c] = "dying"
        /\ \A y \in Boxes \ {c} : place'[y] = place[y]
    BY <2>1, <1>3 DEF Places
  <2>5. /\ Runs' /\ (\A u \in Threads \ {t} : run'[u] = run[u])
        /\ run'[t].op = "child" /\ run'[t].box = run[t].box /\ run'[t].work = w
    <3> HIDE DEF w
    <3> QED
      BY <2>1, <1>1, <1>2, <1>3, WorkEffect DEF DropOps, ChildOps
  <2>6. TypeInv' /\ Steady(t, c)
    BY <2>1, <2>3, <2>4, <2>5, <1>1, <1>2 DEF TypeInv, Runs, Steady, Same
  <2>8. Dying(t)' = c /\ Shell(t)' = Shell(t)
    BY <2>5, <1>4, <1>8 DEF Dying, Shell, DropOps
  <2>10. ASSUME NEW y \in Boxes
         PROVE  Part(t, c, y) = Part(t, c, y)' + IF y = c THEN 1 ELSE 0
    <3>1. held[t][y] \in Nat /\ held' = held /\ mail' = mail
      BY <1>1, <1>2 DEF Typed
    <3>2. /\ heap'[c].kids = heap[c].kids /\ Count(heap[c].kids, y) \in Nat
          /\ Count(mail, y) \in Nat
      BY <1>1, <1>3, <2>3, AtFinite, KidsType DEF Typed, Same
    <3>3. Waiting(t)' = Front(w) /\ Going(t, y)' = 0 /\ Waiting(t) = w /\ Going(t, y) = 0
      BY <2>5, <1>9 DEF Waiting, Going
    <3>4. /\ Count(w, y) = Count(Front(w), y) + (IF y = c THEN 1 ELSE 0)
          /\ Count(Front(w), y) \in Nat
      BY <1>5
    <3> QED
      BY <3>1, <3>2, <3>3, <3>4 DEF Part
  <2>11. Counts'
    BY <2>1, <2>3, <2>4, <2>6, <2>10, <1>1, <1>7, <1>11, LastStep
  <2>12. Recycled'
    BY <2>4, <1>1, <1>2, <1>7, ListsKept
  <2>13. Owners'
    <3>1. place[c] # "dying" /\ place[c] # "husk" /\ place'[c] # "husk" /\ NoBox \notin Boxes
      BY <2>4, <1>7, BoxesAssumption
    <3>2. Shell(t) \in Boxes /\ place[Shell(t)] = "husk"
      BY <3>1, <1>1, <1>3, <1>8 DEF Owners
    <3>3. place'[Shell(t)] = "husk"
      BY <3>1, <3>2, <2>4
    <3> QED
      BY <3>1, <3>2, <3>3, <2>4, <2>5, <2>8, <1>1, <1>7, OwnersStep
  <2> QED
    BY <2>6, <2>11, <2>12, <2>13 DEF IInv
<1> QED
  BY <1>3, <1>7, <1>10, <1>11

LEMMA DropChildStep == ASSUME IInv, NEW t \in Threads, DropChild(t) PROVE IInv'
<1>1. run[t].work \in Items /\ run[t].work # <<>>
  BY DEF IInv, TypeInv, Activity, DropChild
<1>2. Last(run[t].work) \in Boxes
  BY <1>1, FrontType
<1> QED
  BY <1>2, DropChildOne

\* A child with references left: the box is reported, nothing else changes.
LEMMA ChildRootStep ==
    ASSUME IInv, NEW t \in Threads, ChildRoot(t) PROVE IInv'
<1> DEFINE w == run[t].work
<1>1. /\ run[t].op = "childroot" /\ PossibleRoot(t, Last(w))
      /\ run' = [run EXCEPT ![t].op = "drop", ![t].work = Front(@)]
      /\ UNCHANGED <<heap, place, held, mail, localPool, pool, queue, underflow, calls>>
  BY DEF ChildRoot
<1>2. /\ TypeInv /\ Typed /\ Runs /\ Roots /\ run \in [Threads -> Activity]
      /\ w \in Items /\ w # <<>>
  <2>1. TypeInv /\ Typed /\ Runs /\ Roots
    BY TypeParts DEF IInv
  <2> QED
    BY <2>1, <1>1 DEF Runs, Activity, Shape, ChildOps
<1>3. Last(w) \in Boxes /\ Front(w) \in Items
  BY <1>2, FrontType
<1>4. /\ localRoots' \in [Threads -> Items] /\ pending' \in BOOLEAN /\ det' \in Detector
  <2> HIDE DEF w
  <2> QED
    BY <1>1, <1>2, <1>3, PossibleRootEffect
<1> DEFINE f == Front(w)
<1>5. run' = [run EXCEPT ![t] = [run[t] EXCEPT !.op = "drop", !.work = f]]
  BY <1>1, <1>2
<1>6. f \in Items /\ run[t].op \in DropOps /\ "drop" \in DropOps /\ "drop" \notin ChildOps
  BY <1>1, <1>3 DEF DropOps, ChildOps
<1> HIDE DEF f
<1> HIDE DEF w
<1>7. /\ Runs' /\ (\A u \in Threads \ {t} : run'[u] = run[u])
      /\ run'[t].op = "drop" /\ run'[t].box = run[t].box /\ run'[t].work = f
  BY <1>2, <1>5, <1>6, WorkEffect
<1>8. TypeInv'
  BY <1>1, <1>2, <1>4, <1>7 DEF TypeInv, Runs
<1>9. \A u \in Threads : /\ Waiting(u)' = Waiting(u) /\ Dying(u)' = Dying(u) /\ Shell(u)' = Shell(u)
                         /\ run'[u].op = "release" <=> run[u].op = "release"
                         /\ run'[u].box = run[u].box
  <2>1. ASSUME NEW u \in Threads, u = t
        PROVE  /\ Waiting(u)' = Waiting(u) /\ Dying(u)' = Dying(u) /\ Shell(u)' = Shell(u)
               /\ run'[u].op = "release" <=> run[u].op = "release"
               /\ run'[u].box = run[u].box
    BY <2>1, <1>1, <1>7 DEF Waiting, Dying, Shell, DropOps, f, w
  <2>2. ASSUME NEW u \in Threads, u # t
        PROVE  /\ Waiting(u)' = Waiting(u) /\ Dying(u)' = Dying(u) /\ Shell(u)' = Shell(u)
               /\ run'[u].op = "release" <=> run[u].op = "release"
               /\ run'[u].box = run[u].box
    BY <2>2, <1>7 DEF Waiting, Dying, Shell
  <2> QED
    BY <2>1, <2>2
<1>10. Owners'
  BY <1>1, <1>9 DEF IInv, Owners
<1>11. ASSUME NEW b \in Boxes PROVE Refs(b)' = Refs(b)
  <2>1. {u \in Threads : run[u].op = "release" /\ run[u].box = b}'
        = {u \in Threads : run[u].op = "release" /\ run[u].box = b}
    BY <1>9
  <2>2. [u \in Threads |-> At(Waiting(u), b)]' = [u \in Threads |-> At(Waiting(u), b)]
    BY <1>9
  <2>3. /\ [u \in Threads |-> 1 .. held[u][b]]' = [u \in Threads |-> 1 .. held[u][b]]
        /\ Count(mail, b)' = Count(mail, b)
        /\ [y \in Boxes |-> At(heap[y].kids, b)]' = [y \in Boxes |-> At(heap[y].kids, b)]
    BY <1>1
  <2> QED
    BY <2>1, <2>2, <2>3 DEF Refs
<1>12. Counts'
  BY <1>1, <1>11 DEF IInv, Counts, Counted
<1>13. Recycled'
  BY <1>1 DEF IInv, Recycled
<1> QED
  BY <1>8, <1>10, <1>12, <1>13 DEF IInv

\* The box goes to one free list, or to none.
LEMMA RecycleLists ==
    ASSUME TypeInv, Recycled, NEW t \in Threads, NEW b \in Boxes, Recycle(t, b),
           place[b] \notin {"pooled", "queued"}, queue' = queue
    PROVE  /\ Lists' /\ place' \in [Boxes -> Places] /\ place'[b] \in {"pooled", "none"}
           /\ \A y \in Boxes \ {b} : place'[y] = place[y]
           /\ Recycled'
<1>1. localPool \in [Threads -> Items] /\ pool \in Items /\ place \in [Boxes -> Places]
      /\ Lists /\ localPool[t] \in Items
  BY DEF TypeInv, Lists
<1>2. /\ Lists' /\ place' \in [Boxes -> Places]
      /\ \A y \in Boxes \ {b} : place'[y] = place[y]
      /\ \A u \in Threads \ {t} : localPool'[u] = localPool[u]
      /\ \/ place'[b] = "pooled" /\ pool' = pool /\ localPool'[t] = Append(localPool[t], b)
         \/ place'[b] = "pooled" /\ pool' = Append(pool, b) /\ localPool'[t] = localPool[t]
         \/ place'[b] = "none" /\ pool' = pool /\ localPool'[t] = localPool[t]
  BY <1>1, RecycleType DEF Lists
<1>3. \A y \in Boxes : /\ Free(y) = IF place[y] = "pooled" THEN 1 ELSE 0
                       /\ Late(y) = IF place[y] = "queued" THEN 1 ELSE 0
  BY ListsDefined
<1>4. ASSUME NEW y \in Boxes
      PROVE  Near(t, y)' = Near(t, y) + IF y = b /\ place'[b] = "pooled" THEN 1 ELSE 0
  <2>1. /\ Near(t, y) = Count(pool, y) + Count(localPool[t], y)
        /\ Near(t, y)' = Count(pool', y) + Count(localPool'[t], y)
        /\ Count(pool, y) \in Nat /\ Count(localPool[t], y) \in Nat
    BY <1>1, AtFinite DEF Near
  <2>2. Count(Append(pool, b), y) = Count(pool, y) + IF b = y THEN 1 ELSE 0
    BY <1>1, CountAppend
  <2>3. Count(Append(localPool[t], b), y) = Count(localPool[t], y) + IF b = y THEN 1 ELSE 0
    BY <1>1, CountAppend
  <2>4. CASE place'[b] = "pooled" /\ pool' = pool /\ localPool'[t] = Append(localPool[t], b)
    BY <2>1, <2>3, <2>4
  <2>5. CASE place'[b] = "pooled" /\ pool' = Append(pool, b) /\ localPool'[t] = localPool[t]
    BY <2>1, <2>2, <2>5
  <2>6. CASE place'[b] = "none" /\ pool' = pool /\ localPool'[t] = localPool[t]
    BY <2>1, <2>6
  <2> QED
    BY <1>2, <2>4, <2>5, <2>6
<1>5. ASSUME NEW y \in Boxes PROVE Free(y)' = IF place'[y] = "pooled" THEN 1 ELSE 0
  <2>1. /\ Free(y) \in Nat /\ Free(y)' \in Nat /\ Near(t, y) \in Nat /\ Near(t, y)' \in Nat
        /\ Free(y)' - Near(t, y)' = Free(y) - Near(t, y)
    BY <1>1, <1>2, FreeStep
  <2>2. Free(y)' = Free(y) + IF y = b /\ place'[b] = "pooled" THEN 1 ELSE 0
    BY <2>1, <1>4
  <2>3. CASE y = b
    BY <2>2, <2>3, <1>3
  <2>4. CASE y # b
    BY <2>1, <2>2, <2>4, <1>2, <1>3
  <2> QED
    BY <2>3, <2>4
<1>6. ASSUME NEW y \in Boxes PROVE Late(y)' = IF place'[y] = "queued" THEN 1 ELSE 0
  <2>1. Late(y)' = Late(y)
    BY DEF Late
  <2> QED
    BY <2>1, <1>2, <1>3
<1>7. Recycled'
  BY <1>5, <1>6 DEF Recycled, Free, Late
<1> QED
  BY <1>2, <1>7

LEMMA ChildDiesOne ==
    ASSUME IInv, NEW t \in Threads, NEW c \in Boxes, c = Last(run[t].work), ChildDies(t)
    PROVE  IInv'
<1> DEFINE w == run[t].work
           k == heap[c].kids
           n == Front(w) \o k
<1>1. TypeInv /\ Counts /\ Owners /\ Recycled /\ Typed /\ Runs
  BY TypeParts DEF IInv
<1>2. /\ run[t].op = "child" /\ det' = Forget(det, c) /\ Recycle(t, c)
      /\ run' = [run EXCEPT ![t] = [run[t] EXCEPT !.op = "drop", !.work = n]]
      /\ heap' = [heap EXCEPT ![c] = Pooled(Unit(t))]
      /\ UNCHANGED <<held, mail, queue, localRoots, pending, underflow, calls>>
  BY DEF ChildDies
<1>3. /\ heap \in [Boxes -> Value] /\ det \in Detector /\ k \in Items
      /\ w \in Items /\ w # <<>> /\ run[t].box \in Boxes
  BY <1>1, <1>2, KidsType DEF TypeInv, Activity, Shape, BoxOps, DropOps, ChildOps
<1>4. Front(w) \in Items /\ n \in Items /\ Waiting(t) = Front(w)
  BY <1>2, <1>3, FrontType, CountConcat DEF Waiting
<1>5. ASSUME NEW y \in Boxes
      PROVE  /\ Count(n, y) = Count(Front(w), y) + Count(k, y)
             /\ Count(Front(w), y) \in Nat /\ Count(k, y) \in Nat
  BY <1>3, <1>4, CountConcat, AtFinite
<1> HIDE DEF n
<1>6. /\ heap' \in [Boxes -> Value] /\ heap'[c].kids = <<>> /\ heap'[c].rc = 0
      /\ \A y \in Boxes \ {c} : heap'[y] = heap[y]
  <2>1. t \in Owner
    BY DEF Owner
  <2>2. Pooled(Unit(t)) \in Value /\ Pooled(Unit(t)).kids = <<>> /\ Pooled(Unit(t)).rc = 0
    BY <2>1, UnitType
  <2> QED
    BY <2>2, <1>2, <1>3
<1>7. /\ Dying(t) = c /\ Shell(t) = run[t].box /\ c # NoBox /\ place[c] = "dying"
      /\ place[Shell(t)] = "husk" /\ Shell(t) \in Boxes
  <2>1. Dying(t) = c /\ Shell(t) = run[t].box /\ c # NoBox /\ run[t].box # NoBox
    BY <1>2, <1>3, BoxesAssumption DEF Dying, Shell, DropOps
  <2> QED
    BY <2>1, <1>1, <1>3 DEF Owners
<1>8. /\ Lists' /\ place' \in [Boxes -> Places] /\ place'[c] \in {"pooled", "none"}
      /\ (\A y \in Boxes \ {c} : place'[y] = place[y]) /\ Recycled'
  BY <1>1, <1>2, <1>7, RecycleLists
<1>9. /\ Runs' /\ (\A u \in Threads \ {t} : run'[u] = run[u])
      /\ run'[t].op = "drop" /\ run'[t].box = run[t].box /\ run'[t].work = n
  BY <1>1, <1>2, <1>4, WorkEffect DEF DropOps, ChildOps
<1>10. det' \in Detector /\ Paler(det.info, det'.info) /\ c \notin DOMAIN det'.info
  BY <1>2, <1>3, ForgetEffect
<1>11. TypeInv' /\ Typed' /\ Steady(t, c)
  BY <1>1, <1>2, <1>6, <1>8, <1>9, <1>10 DEF TypeInv, Typed, Runs, Steady, Lists
<1>12. Dying(t)' = NoBox /\ Shell(t)' = Shell(t)
  BY <1>7, <1>9 DEF Dying, Shell, DropOps
<1>15. Owners'
  <2>1. place'[c] # "husk" /\ place'[Shell(t)] = "husk" /\ NoBox \notin Boxes
    BY <1>7, <1>8, BoxesAssumption
  <2> QED
    BY <2>1, <1>1, <1>7, <1>8, <1>9, <1>12, OwnersStep
<1>16. ASSUME NEW y \in Boxes PROVE Part(t, c, y)' = Part(t, c, y)
  <2>1. Waiting(t)' = n /\ Waiting(t) = Front(w)
    BY <1>4, <1>9 DEF Waiting
  <2>2. /\ Count(heap'[c].kids, y) = 0 /\ Count(heap[c].kids, y) = Count(k, y)
        /\ Count(n, y) = Count(Front(w), y) + Count(k, y)
        /\ Count(Front(w), y) \in Nat /\ Count(k, y) \in Nat
    BY <1>5, <1>6, CountEmpty
  <2>3. Count(heap'[c].kids, y) + Count(Waiting(t)', y) = Count(heap[c].kids, y) + Count(Waiting(t), y)
    BY <2>1, <2>2
  <2> QED
    BY <2>3, <1>1, <1>2, <1>9, <1>11, PartSame
<1>17. Counts'
  BY <1>1, <1>2, <1>6, <1>7, <1>8, <1>11, <1>16, GoneStep
<1> QED
  BY <1>8, <1>11, <1>15, <1>17 DEF IInv

LEMMA ChildDiesStep == ASSUME IInv, NEW t \in Threads, ChildDies(t) PROVE IInv'
<1>1. run[t].work \in Items /\ run[t].work # <<>>
  BY DEF IInv, TypeInv, Activity, Shape, BoxOps, DropOps, ChildOps, ChildDies
<1>2. Last(run[t].work) \in Boxes
  BY <1>1, FrontType
<1> QED
  BY <1>2, ChildDiesOne

LEMMA DroppedOne ==
    ASSUME IInv, NEW t \in Threads, NEW b \in Boxes, b = run[t].box,
           NEW op \in {"idle", "drain"}, op = run[t].then, Dropped(t)
    PROVE  IInv'
<1>1. TypeInv /\ Counts /\ Owners /\ Recycled /\ Typed /\ Runs
  BY TypeParts DEF IInv
<1>2. /\ run[t].op = "drop" /\ run[t].work = <<>> /\ heap' = [heap EXCEPT ![b] = Pooled(heap[b])]
      /\ Recycle(t, b) /\ run' = [run EXCEPT ![t] = [Idle EXCEPT !.op = op]]
      /\ UNCHANGED <<held, mail, queue, localRoots, pending, det, underflow, calls>>
  BY DEF Dropped
<1>3. heap \in [Boxes -> Value] /\ det.info \in Infos
  BY <1>1 DEF TypeInv, Detector
<1>4. /\ heap' \in [Boxes -> Value] /\ heap'[b].kids = heap[b].kids /\ heap'[b].rc = 0
      /\ \A y \in Boxes \ {b} : heap'[y] = heap[y]
  <2>1. heap[b] \in Value
    BY <1>3
  <2>2. Pooled(heap[b]) \in Value /\ Pooled(heap[b]).kids = heap[b].kids /\ Pooled(heap[b]).rc = 0
    BY <2>1, PooledType
  <2> QED
    BY <2>2, <1>2, <1>3
<1>5. /\ Dying(t) = NoBox /\ Shell(t) = b /\ b # NoBox /\ place[b] = "husk" /\ heap[b].kids = <<>>
  <2>1. Dying(t) = NoBox /\ Shell(t) = b /\ b # NoBox
    BY <1>2, BoxesAssumption DEF Dying, Shell, DropOps
  <2>2. place[b] = "husk"
    BY <2>1, <1>1 DEF Owners
  <2> QED
    BY <2>1, <2>2, <1>1 DEF Counts, Counted
<1>6. /\ Lists' /\ place' \in [Boxes -> Places] /\ place'[b] \in {"pooled", "none"}
      /\ (\A y \in Boxes \ {b} : place'[y] = place[y]) /\ Recycled'
  BY <1>1, <1>2, <1>5, RecycleLists
<1>7. /\ Runs' /\ (\A u \in Threads \ {t} : run'[u] = run[u])
      /\ run'[t].op = op /\ run'[t].work = <<>>
  <2> DEFINE a == [Idle EXCEPT !.op = op]
  <2>1. a \in Activity /\ a.op = op /\ a.box = NoBox /\ a.work = <<>>
    BY IdleType DEF Activity, Ops
  <2>2. Shape(a)
    <3> HIDE DEF a
    <3> QED
      BY <2>1, BoxesAssumption DEF Shape, BoxOps, DropOps, ChildOps
  <2>3. run' = [run EXCEPT ![t] = a]
    BY <1>2
  <2> HIDE DEF a
  <2> QED
    BY <2>1, <2>2, <2>3, <1>1, RunSet
<1>8. TypeInv' /\ Typed' /\ Steady(t, b)
  BY <1>1, <1>2, <1>4, <1>6, <1>7 DEF TypeInv, Typed, Runs, Steady, Lists
<1>9. Dying(t)' = NoBox /\ Shell(t)' = NoBox
  BY <1>7 DEF Dying, Shell, DropOps
<1>12. Owners'
  <2>1. place'[b] # "husk" /\ NoBox \notin Boxes
    BY <1>6, BoxesAssumption
  <2> QED
    BY <2>1, <1>1, <1>5, <1>6, <1>7, <1>9, OwnersStep
<1>13. ASSUME NEW y \in Boxes PROVE Part(t, b, y)' = Part(t, b, y)
  <2>1. Waiting(t)' = <<>> /\ Waiting(t) = <<>>
    BY <1>2, <1>7 DEF Waiting
  <2>2. Count(heap'[b].kids, y) + Count(Waiting(t)', y) = Count(heap[b].kids, y) + Count(Waiting(t), y)
    BY <2>1, <1>4
  <2> QED
    BY <2>2, <1>1, <1>2, <1>7, <1>8, PartSame
<1>14. Counts'
  BY <1>1, <1>2, <1>4, <1>5, <1>6, <1>8, <1>13, GoneStep
<1> QED
  BY <1>6, <1>8, <1>12, <1>14 DEF IInv

LEMMA DroppedStep == ASSUME IInv, NEW t \in Threads, Dropped(t) PROVE IInv'
<1>1. run[t].box \in Boxes /\ run[t].then \in {"idle", "drain"}
  BY DEF IInv, TypeInv, Activity, Shape, BoxOps, DropOps, ChildOps, Dropped
<1> QED
  BY <1>1, DroppedOne

(***************************************************************************)
(* The invariant of every behaviour.                                       *)
(***************************************************************************)

LEMMA TotalEmpty ==
    ASSUME NEW R, \A x \in DOMAIN R : R[x] = {} PROVE Total(R) = 0
<1>1. UNION {{x} \X R[x] : x \in DOMAIN R} = {}
  OBVIOUS
<1> QED
  BY <1>1, FS_EmptySet, Zenon DEF Total

LEMMA Initial == Init => IInv
<1> SUFFICES ASSUME Init PROVE IInv
  OBVIOUS
<1>0. <<>> \in Items /\ NoOwner \in Owner
  BY DEF Items, Owner
<1>1. TypeInv
  <2>1. heap \in [Boxes -> Value]
    BY <1>0, UnitType DEF Init
  <2>2. \A t \in Threads : run[t] \in Activity /\ Shape(run[t])
    BY IdleType DEF Init
  <2>3. run = [t \in Threads |-> run[t]]
    BY DEF Init
  <2>4. run \in [Threads -> Activity]
    BY <2>2, <2>3
  <2>5. det \in Detector
    <3>1. NoDetector.info \in [{} -> Colours]
      BY DEF NoDetector
    <3>2. NoDetector.info \in Infos
      BY <3>1 DEF Infos
    <3> QED
      BY <3>2 DEF Init, NoDetector, Detector
  <2>6. queue \in [Threads -> Queue]
    BY <1>0 DEF Init, Queue
  <2> QED
    BY <2>1, <2>2, <2>4, <2>5, <2>6, <1>0 DEF Init, Places, TypeInv
<1>2. /\ \A t \in Threads : run[t].op = "idle" /\ run[t].work = <<>> /\ run[t].box = NoBox
      /\ \A t \in Threads : Dying(t) = NoBox /\ Shell(t) = NoBox /\ Waiting(t) = <<>>
  <2>1. \A t \in Threads : run[t].op = "idle" /\ run[t].work = <<>> /\ run[t].box = NoBox
    BY IdleType DEF Init
  <2> QED
    BY <2>1 DEF Dying, Shell, Waiting, DropOps
<1>4. Owners
  BY <1>2 DEF Owners, Init
<1>5. \A b : At(<<>>, b) = {} /\ Count(<<>>, b) = 0
  BY CountEmpty DEF At
<1>6. Counts
  <2> SUFFICES ASSUME NEW b \in Boxes PROVE Counted(b)
    BY DEF Counts, Init
  <2>1. heap[b].rc = 0 /\ heap[b].kids = <<>> /\ place[b] = "none"
    BY <1>0, UnitType DEF Init
  <2>2. Total([t \in Threads |-> 1 .. held[t][b]]) = 0
    <3>1. \A t \in Threads : 1 .. held[t][b] = {}
      BY DEF Init
    <3> QED
      BY <3>1, TotalEmpty
  <2>3. Total([x \in Boxes |-> At(heap[x].kids, b)]) = 0
    <3>1. \A x \in Boxes : heap[x].kids = <<>>
      BY <1>0, UnitType DEF Init
    <3>2. \A x \in Boxes : At(heap[x].kids, b) = {}
      BY <3>1, <1>5
    <3> QED
      BY <3>2, TotalEmpty
  <2>4. Total([t \in Threads |-> At(Waiting(t), b)]) = 0
    <3>1. \A t \in Threads : At(Waiting(t), b) = {}
      BY <1>2, <1>5
    <3> QED
      BY <3>1, TotalEmpty
  <2>5. Cardinality({t \in Threads : run[t].op = "release" /\ run[t].box = b}) = 0
    <3>1. {t \in Threads : run[t].op = "release" /\ run[t].box = b} = {}
      BY <1>2
    <3> QED
      BY <3>1, FS_EmptySet, Zenon
  <2>6. Count(mail, b) = 0
    BY <1>5 DEF Init
  <2>7. Refs(b) = 0
    BY <2>2, <2>3, <2>4, <2>5, <2>6 DEF Refs
  <2> QED
    BY <2>1, <2>7 DEF Counted
<1>7. Recycled
  <2> SUFFICES ASSUME NEW b \in Boxes
               PROVE  /\ Count(pool, b) + Total([t \in Threads |-> At(localPool[t], b)]) = 0
                      /\ Total([t \in Threads |-> At(queue[t].items, b)]) = 0
    BY DEF Recycled, Init
  <2>1. Total([t \in Threads |-> At(localPool[t], b)]) = 0
    <3>1. \A t \in Threads : At(localPool[t], b) = {}
      BY <1>5 DEF Init
    <3> QED
      BY <3>1, TotalEmpty
  <2>2. Total([t \in Threads |-> At(queue[t].items, b)]) = 0
    <3>1. \A t \in Threads : At(queue[t].items, b) = {}
      BY <1>5 DEF Init
    <3> QED
      BY <3>1, TotalEmpty
  <2>3. Count(pool, b) = 0
    BY <1>5 DEF Init
  <2> QED
    BY <2>1, <2>2, <2>3
<1> QED
  BY <1>1, <1>4, <1>6, <1>7 DEF IInv

LEMMA Stutter == IInv /\ UNCHANGED vars => IInv'
<1> SUFFICES ASSUME IInv, UNCHANGED vars PROVE IInv'
  OBVIOUS
<1>1. TypeInv'
  BY DEF IInv, TypeInv, vars
<1>3. Owners'
  BY DEF IInv, Owners, Dying, Shell, vars
<1>4. Counts'
  BY DEF IInv, Counts, Counted, Refs, Waiting, vars
<1>5. Recycled'
  BY DEF IInv, Recycled, vars
<1> QED
  BY <1>1, <1>3, <1>4, <1>5 DEF IInv

\* The collector takes nothing for garbage in the step.
LEMMA Inductive ==
    ASSUME IInv, [Next]_vars, "claimed" \notin amiss' PROVE IInv'
<1>1. ASSUME NEW t \in Makers, NEW b \in Boxes, NEW kind \in Kinds, NEW items \in ItemLists(b),
             Make(t, b, kind, items)
      PROVE  IInv'
  BY <1>1, MakeStep
<1>2. ASSUME NEW t \in Makers, Collect(t) PROVE IInv'
  BY <1>2, CollectStep, ThreadsAssumption
<1>3. ASSUME NEW t \in Threads, Calls(t) PROVE IInv'
  BY <1>3, RetainStep, SendStep, SendRefusedStep, ReleaseStep, PushStep, GetItemStep,
     QueueInitStep, QueueFlushStep, CycleFlushStep DEF Calls
<1>4. ASSUME NEW t \in Threads, Releasing(t) PROVE IInv'
  BY <1>4, DecrementStep, RootStep, NotifyStep, DisposeStep, DropChildStep, ChildRootStep,
     ChildDiesStep, DroppedStep, DrainStep DEF Releasing
<1>5. ASSUME NEW t \in Threads, CollectSteps(t) PROVE IInv'
  BY <1>5, FlushRootsStep, CollectBeginStep, CopyRootsStep, MarkStep, ScanStep, ScanBlackStep,
     ScannedStep, CollectRootsStep, CollectWhiteStep, PromoteStep
  DEF CollectSteps
<1>6. CASE Receive
  BY <1>6, ReceiveStep
<1>7. CASE UNCHANGED vars
  BY <1>7, Stutter
<1> QED
  BY <1>1, <1>2, <1>3, <1>4, <1>5, <1>6, <1>7 DEF Next

\* What went amiss stays so.
LEMMA AmissKept == ASSUME [Next]_vars PROVE amiss \subseteq amiss'
<1>1. ASSUME NEW b \in Boxes, Leak(b) PROVE amiss \subseteq amiss'
  BY <1>1 DEF Leak
<1>2. ASSUME NEW t \in Makers, NEW b \in Boxes, NEW kind \in Kinds, NEW items \in ItemLists(b),
             Make(t, b, kind, items)
      PROVE  amiss \subseteq amiss'
  BY <1>2 DEF Make
<1>3. ASSUME NEW t \in Makers, Collect(t) PROVE amiss \subseteq amiss'
  BY <1>3 DEF Collect
<1>4. ASSUME NEW t \in Threads, NEW b \in Boxes,
             Retain(t, b) \/ Send(t, b) \/ SendRefused(t, b) \/ Release(t, b)
      PROVE  amiss \subseteq amiss'
  BY <1>1, <1>4 DEF Retain, Send, SendRefused, Release
<1>5. ASSUME NEW t \in Threads, NEW l \in Boxes, NEW b \in Boxes, Push(t, l, b) \/ GetItem(t, l, b)
      PROVE  amiss \subseteq amiss'
  BY <1>5 DEF Push, GetItem
<1>6. ASSUME NEW t \in Threads, QueueInit(t) \/ QueueFlush(t) \/ CycleFlush(t)
      PROVE  amiss \subseteq amiss'
  BY <1>6 DEF QueueInit, QueueFlush, CycleFlush
<1>7. ASSUME NEW t \in Threads, Releasing(t) PROVE amiss \subseteq amiss'
  BY <1>7 DEF Releasing, Decrement, Root, Notify, Dispose, DropChild, ChildRoot, ChildDies,
     Dropped, Drain
<1>8. ASSUME NEW t \in Threads, CollectSteps(t) PROVE amiss \subseteq amiss'
  BY <1>8 DEF CollectSteps, FlushRoots, CollectBegin, CopyRoots, Mark, Scan, ScanBlack, Scanned,
     CollectRoots, CollectWhite, Promote
<1>9. CASE Receive
  BY <1>9 DEF Receive
<1>10. CASE UNCHANGED vars
  BY <1>10 DEF vars
<1> QED
  BY <1>2, <1>3, <1>4, <1>5, <1>6, <1>7, <1>8, <1>9, <1>10 DEF Next, Calls

(***************************************************************************)
(* The invariant holds in every interleaving of the calls, of releases,    *)
(* drops and recyclings under way, and of collections on any thread, until *)
(* a collector takes a value for garbage.                                  *)
(***************************************************************************)
THEOREM InvariantCorrect == Spec => []("claimed" \notin amiss => IInv)
<1> DEFINE Inv == "claimed" \notin amiss => IInv
<1>1. Init => Inv
  BY Initial
<1>2. Inv /\ [Next]_vars => Inv'
  BY Inductive, AmissKept
<1> QED
  BY <1>1, <1>2, PTL DEF Spec

(***************************************************************************)
(* Every refcount kept by coral_value_retain, coral_value_release and      *)
(* drop_heap_value is the number of references there are, and no release   *)
(* meets a count of zero, whatever collections run meanwhile on whichever  *)
(* threads, until one takes a value for garbage.                           *)
(***************************************************************************)
THEOREM CountsCorrect == Spec => []CountsExact
<1>1. ("claimed" \notin amiss => IInv) => CountsExact
  BY DEF IInv, Counts, Counted, CountsExact, Undisturbed
<1> QED
  BY <1>1, InvariantCorrect, PTL

(***************************************************************************)
(* recycle_value_box and the release queue never list a box twice, or one  *)
(* that is in use, so that alloc_value hands out free boxes only, until a  *)
(* collector takes a value for garbage.                                    *)
(***************************************************************************)
THEOREM RecycleCorrect == Spec => []RecycledOnce
<1>1. ("claimed" \notin amiss => IInv) => RecycledOnce
  BY DEF IInv, Recycled, RecycledOnce, Undisturbed
<1> QED
  BY <1>1, InvariantCorrect, PTL

(***************************************************************************)
(* What is frozen.                                                         *)
(***************************************************************************)

\* Where a box is that a thread has in its hands.
Located(t, b) ==
    \/ place[b] \in {"live", "queued"}
    \/ place[b] = "dying" /\ Dying(t) = b
    \/ place[b] = "husk" /\ Shell(t) = b

InHands == \A t \in Threads, b \in Boxes : Touches(t, b) => Located(t, b)

\* What a release queue lists is there to be dropped.
LEMMA QueuedPlace ==
    ASSUME IInv, NEW t \in Threads, NEW b \in Boxes, b \in Range(queue[t].items)
    PROVE  place[b] = "queued"
<1>1. Recycled /\ queue[t].items \in Items /\ \A u \in Threads : queue[u].items \in Items
  BY DEF IInv, TypeInv, Queue
<1>2. Count(queue[t].items, b) # 0 /\ Count(queue[t].items, b) \in Nat
  BY <1>1, AtFinite
<1> DEFINE R == [u \in Threads |-> At(queue[u].items, b)]
<1>3. Family(Threads, R) /\ Cardinality(R[t]) = Count(queue[t].items, b)
  BY <1>1, AtFinite DEF Family, Count
<1>4. Late(b) = Total(R)
  BY DEF Late
<1> HIDE DEF R
<1>5. Total(R) \in Nat /\ Total(R) >= Cardinality(R[t])
  BY <1>3, ThreadsAssumption, TotalUpdate
<1>6. Late(b) = IF place[b] = "queued" THEN 1 ELSE 0
  BY <1>1, ListsDefined
<1> QED
  BY <1>2, <1>3, <1>4, <1>5, <1>6

LEMMA TouchPlace == IInv => InHands
<1> SUFFICES ASSUME IInv, NEW t \in Threads, NEW b \in Boxes, Touches(t, b) PROVE Located(t, b)
  BY DEF InHands
<1>1. TypeInv /\ Counts /\ Owners /\ Recycled /\ Typed /\ Runs
  BY TypeParts DEF IInv
<1>2. Refs(b) > 0 => place[b] = "live"
  BY <1>1, Referenced
<1>3. /\ Dying(t) # NoBox => place[Dying(t)] = "dying"
      /\ Shell(t) # NoBox => place[Shell(t)] = "husk"
  BY <1>1 DEF Owners
<1>4. b # NoBox
  BY BoxesAssumption
<1>5. /\ run[t].op \in Ops /\ run[t].work \in Items
      /\ run[t].op \in BoxOps <=> run[t].box \in Boxes
      /\ run[t].op \in ChildOps => run[t].work # <<>>
  BY <1>1 DEF Runs, Activity, Shape
<1>6. CASE Holds(t, b)
  <2>1. Refs(b) > 0
    BY <1>1, <1>6, RefsBound
  <2> QED
    BY <2>1, <1>2 DEF Located
<1>7. CASE b \in Range(Waiting(t))
  <2>1. Refs(b) > 0
    BY <1>7, <1>1, RefsBound
  <2> QED
    BY <2>1, <1>2 DEF Located
<1>8. CASE b \in Range(queue[t].items)
  BY <1>8, QueuedPlace DEF Located
<1>9. CASE run[t].box = b /\ run[t].op # "root"
  <2>1. run[t].op \in BoxOps \ {"root"}
    BY <1>5, <1>9
  <2>2. CASE run[t].op = "release"
    <3>1. Refs(b) > 0
      BY <2>2, <1>1, <1>9, RefsBound
    <3> QED
      BY <3>1, <1>2 DEF Located
  <2>3. CASE run[t].op \in {"notify", "dispose"}
    <3>1. Dying(t) = b
      BY <2>3, <1>9 DEF Dying
    <3> QED
      BY <3>1, <1>3, <1>4 DEF Located
  <2>4. CASE run[t].op \in DropOps
    <3>1. Shell(t) = b
      BY <2>4, <1>9 DEF Shell
    <3> QED
      BY <3>1, <1>3, <1>4 DEF Located
  <2> QED
    BY <2>1, <2>2, <2>3, <2>4 DEF BoxOps, DropOps
<1>10. CASE run[t].op = "child" /\ b \in Range(run[t].work) \ Range(Waiting(t))
  <2> DEFINE w == run[t].work
  <2>1. w # <<>> /\ w \in Items /\ Waiting(t) = Front(w)
    BY <1>5, <1>10 DEF Waiting, ChildOps
  <2>2. Count(w, b) # 0
    BY <2>1, <1>10, AtFinite
  <2>3. Count(Front(w), b) = 0
    BY <2>1, <1>10, FrontType, AtFinite
  <2>4. Count(w, b) = Count(Front(w), b) + IF Last(w) = b THEN 1 ELSE 0
    BY <2>1, CountFront
  <2>5. Last(w) = b
    BY <2>2, <2>3, <2>4
  <2>6. Dying(t) = b
    BY <2>5, <1>10 DEF Dying
  <2> QED
    BY <2>6, <1>3, <1>4 DEF Located
<1>11. \/ Holds(t, b) \/ b \in Range(queue[t].items) \/ b \in Range(Waiting(t))
       \/ run[t].box = b /\ run[t].op # "root"
       \/ run[t].op = "child" /\ b \in Range(run[t].work) \ Range(Waiting(t))
  BY DEF Touches, InWork, Waiting
<1> QED
  BY <1>6, <1>7, <1>8, <1>9, <1>10, <1>11

LEMMA TouchPlaceNext == IInv' => InHands'
  BY TouchPlace, PTL

\* A thread that neither releases nor drops has no box in its hands.
EmptyHanded ==
    \A t \in Threads : run[t].op \notin (BoxOps \ {"root"}) => InWork(t) = {}

LEMMA HandsEmpty == IInv => EmptyHanded
<1> SUFFICES ASSUME IInv, NEW t \in Threads, run[t].op \notin (BoxOps \ {"root"})
             PROVE  InWork(t) = {}
  BY DEF EmptyHanded
<1>1. CASE run[t].op = "root"
  BY <1>1 DEF InWork
<1>2. CASE run[t].op # "root"
  <2>1. run[t].op \notin BoxOps /\ run[t].op \notin DropOps /\ run[t].op # "childroot"
    BY <1>2 DEF BoxOps, DropOps
  <2>2. run[t].box = NoBox /\ run[t].work = <<>>
    BY <2>1 DEF IInv, TypeInv, Activity, Shape
  <2>3. Range(run[t].work) = {}
    BY <2>2 DEF Range
  <2> QED
    BY <1>2, <2>1, <2>2, <2>3 DEF InWork
<1> QED
  BY <1>1, <1>2

LEMMA HandsEmptyNext == IInv' => EmptyHanded'
  BY HandsEmpty, PTL

\* What refers to a box is the thread's with it.
LEMMA KidsMine ==
    ASSUME TypeInv, Shared, NEW t \in Threads, NEW x \in Boxes, Mine(t, x),
           NEW c \in Range(heap[x].kids)
    PROVE  c \in Boxes /\ Mine(t, c)
<1>1. c \in Boxes
  BY KidsType DEF TypeInv
<1> QED
  BY <1>1 DEF Shared, Sound, Mine

\* The values keep all but their counts.
LEMMA SharedSame ==
    ASSUME Shared, TypeInv, \A b \in Boxes : Same(heap[b], heap'[b]),
           \A t \in Threads, b \in Boxes : Touches(t, b)' => Touches(t, b) \/ Mine(t, b),
           Range(mail') \subseteq Boxes,
           \A b \in Range(mail') : b \in Range(mail) \/ heap[b].frozen
    PROVE  Shared'
<1>0. \A b \in Boxes : Range(heap[b].kids) \subseteq Boxes
  BY KidsType DEF TypeInv
<1>1. \A b \in Boxes : /\ heap'[b].frozen = heap[b].frozen /\ heap'[b].owner = heap[b].owner
                       /\ heap'[b].kids = heap[b].kids /\ heap'[b].tag = heap[b].tag
  BY DEF Same
<1>2. ASSUME NEW b \in Boxes PROVE Sound(b)'
  <2>1. Sound(b)
    BY DEF Shared
  <2> QED
    BY <2>1, <1>0, <1>1 DEF Sound, Mine
<1>3. ASSUME NEW t \in Threads, NEW b \in Boxes, Touches(t, b)' PROVE Mine(t, b)'
  <2>1. Mine(t, b)
    BY <1>3 DEF Shared
  <2> QED
    BY <2>1, <1>1 DEF Mine
<1>4. \A b \in Range(mail') : heap'[b].frozen
  BY <1>1 DEF Shared
<1> QED
  BY <1>2, <1>3, <1>4 DEF Shared

\* One box, to which nothing refers, gets a new value.
LEMMA SharedNew ==
    ASSUME Shared, TypeInv, Counts, NEW x \in Boxes, Refs(x) = 0,
           \A b \in Boxes \ {x} : Same(heap[b], heap'[b]),
           heap'[x].frozen => heap'[x].owner = NoOwner /\ heap'[x].kids = <<>>,
           \A c \in Range(heap'[x].kids) : c \in Boxes \ {x} /\ Mine(heap'[x].owner, c),
           \A t \in Threads, b \in Boxes \ {x} : Touches(t, b)' => Touches(t, b) \/ Mine(t, b),
           \A t \in Threads : Touches(t, x)' => heap'[x].owner = t,
           mail' = mail
    PROVE  Shared'
<1>0. \A b \in Boxes : Range(heap[b].kids) \subseteq Boxes
  BY KidsType DEF TypeInv
<1>1. \A b \in Boxes \ {x} :
        /\ heap'[b].frozen = heap[b].frozen /\ heap'[b].owner = heap[b].owner
        /\ heap'[b].kids = heap[b].kids /\ heap'[b].tag = heap[b].tag
  BY DEF Same
<1>2. /\ x \notin Range(mail) /\ \A b \in Boxes : x \notin Range(heap[b].kids)
  <2>1. Typed /\ Receiver \in Threads
    BY TypeParts, ThreadsAssumption
  <2>2. ASSUME NEW b \in Boxes PROVE x \notin Range(heap[b].kids) /\ x \notin Range(mail)
    BY <2>1, RefsBound
  <2> QED
    BY <2>2
<1>3. ASSUME NEW b \in Boxes PROVE Sound(b)'
  <2>1. CASE b = x
    <3>1. heap'[x].frozen => Range(heap'[x].kids) = {}
      BY DEF Range
    <3> QED
      BY <3>1, <2>1, <1>1 DEF Sound, Mine
  <2>2. CASE b # x
    <3>1. Sound(b)
      BY DEF Shared
    <3>2. \A c \in Range(heap[b].kids) : c \in Boxes \ {x}
      BY <1>0, <1>2
    <3> QED
      BY <3>1, <3>2, <2>2, <1>1 DEF Sound, Mine
  <2> QED
    BY <2>1, <2>2
<1>4. ASSUME NEW t \in Threads, NEW b \in Boxes, Touches(t, b)' PROVE Mine(t, b)'
  <2>1. CASE b = x
    BY <2>1, <1>4 DEF Mine
  <2>2. CASE b # x
    <3>1. Mine(t, b)
      BY <2>2, <1>4 DEF Shared
    <3> QED
      BY <3>1, <2>2, <1>1 DEF Mine
  <2> QED
    BY <2>1, <2>2
<1>5. \A b \in Range(mail') : heap'[b].frozen
  <2>1. Range(mail) \subseteq Boxes
    BY DEF TypeInv, Items, Range
  <2> QED
    BY <2>1, <1>1, <1>2 DEF Shared
<1> QED
  BY <1>3, <1>4, <1>5 DEF Shared

\* Only thread t takes or gives up boxes.
Others(t) ==
    \A u \in Threads \ {t} :
        run'[u] = run[u] /\ held'[u] = held[u] /\ queue'[u].items = queue[u].items

LEMMA SharedTouch ==
    ASSUME Shared, TypeInv, NEW t \in Threads, Others(t), mail' \in Items,
           \A b \in Boxes : Same(heap[b], heap'[b]),
           \A b \in Boxes : Touches(t, b)' => Touches(t, b) \/ Mine(t, b),
           \A b \in Range(mail') : b \in Range(mail) \/ heap[b].frozen
    PROVE  Shared'
<1>1. ASSUME NEW u \in Threads, NEW b \in Boxes, Touches(u, b)'
      PROVE  Touches(u, b) \/ Mine(u, b)
  <2>1. CASE u = t
    BY <2>1, <1>1
  <2>2. CASE u # t
    BY <2>2, <1>1 DEF Touches, Others, Holds, InWork, Waiting
  <2> QED
    BY <2>1, <2>2
<1>2. Range(mail') \subseteq Boxes
  BY DEF Items, Range
<1> QED
  BY <1>1, <1>2, SharedSame

LEMMA SharedQuiet ==
    ASSUME IInv, IInv', Shared, NEW t \in Threads, UNCHANGED <<heap, held, mail>>,
           \A u \in Threads : queue'[u].items = queue[u].items,
           \A u \in Threads \ {t} : run'[u] = run[u],
           run'[t].op \notin (BoxOps \ {"root"})
    PROVE  Shared'
<1>1. \A b \in Boxes : Same(heap[b], heap'[b])
  BY DEF Same
<1>2. Others(t)
  BY DEF Others
<1>3. InWork(t)' = {}
  BY HandsEmptyNext DEF EmptyHanded
<1>4. \A b \in Boxes : Touches(t, b)' => Touches(t, b)
  BY <1>3 DEF Touches, Holds, InWork, Waiting
<1>5. TypeInv /\ mail' \in Items
  BY DEF IInv, TypeInv
<1> QED
  BY <1>1, <1>2, <1>4, <1>5, SharedTouch

\* Thread t takes one more reference to a box of its own.
LEMMA SharedHold ==
    ASSUME Shared, TypeInv, NEW t \in Threads, NEW b \in Boxes, Mine(t, b), held' = Take(t, b),
           UNCHANGED <<run, queue>>, mail' \in Items, Range(mail') \subseteq Range(mail),
           \A y \in Boxes : Same(heap[y], heap'[y])
    PROVE  Shared'
<1>1. /\ \A u \in Threads \ {t} : held'[u] = held[u]
      /\ \A y \in Boxes : held'[t][y] = held[t][y] + IF y = b THEN 1 ELSE 0
      /\ \A y \in Boxes : held[t][y] \in Nat
  BY TakeEffect DEF TypeInv
<1>2. Others(t)
  BY <1>1 DEF Others
<1>3. ASSUME NEW y \in Boxes, Touches(t, y)' PROVE Touches(t, y) \/ Mine(t, y)
  <2>1. CASE y = b
    BY <2>1
  <2>2. CASE y # b
    <3>1. held'[t][y] = held[t][y]
      BY <2>2, <1>1
    <3> QED
      BY <3>1, <1>3 DEF Touches, Holds, InWork, Waiting
  <2> QED
    BY <2>1, <2>2
<1> QED
  BY <1>2, <1>3, SharedTouch

LEMMA HeldMine ==
    ASSUME Shared, NEW t \in Threads, NEW b \in Boxes, Holds(t, b) PROVE Mine(t, b)
  BY DEF Shared, Touches

LEMMA RetainShared ==
    ASSUME IInv, Shared, NEW t \in Threads, NEW b \in Boxes, Retain(t, b) PROVE Shared'
<1>1. Holds(t, b) /\ TypeInv /\ heap \in [Boxes -> Value] /\ <<b>> \in Items /\ mail \in Items
  BY DEF Retain, IInv, TypeInv, Items
<1>2. heap' = RetainAll(heap, <<b>>) /\ held' = Take(t, b) /\ UNCHANGED <<run, queue, mail>>
  BY DEF Retain
<1>3. \A y \in Boxes : Same(heap[y], heap'[y])
  BY <1>1, <1>2, RetainEffect
<1> QED
  BY <1>1, <1>2, <1>3, HeldMine, SharedHold

LEMMA GetItemShared ==
    ASSUME IInv, Shared, NEW t \in Threads, NEW l \in Boxes, NEW b \in Boxes, GetItem(t, l, b)
    PROVE  Shared'
<1>1. /\ Holds(t, l) /\ b \in Range(heap[l].kids) /\ TypeInv /\ heap \in [Boxes -> Value]
      /\ <<b>> \in Items /\ mail \in Items
  BY DEF GetItem, IInv, TypeInv, Items
<1>2. heap' = RetainAll(heap, <<b>>) /\ held' = Take(t, b) /\ UNCHANGED <<run, queue, mail>>
  BY DEF GetItem
<1>3. \A y \in Boxes : Same(heap[y], heap'[y])
  BY <1>1, <1>2, RetainEffect
<1>4. Mine(t, b)
  BY <1>1, HeldMine, KidsMine
<1> QED
  BY <1>1, <1>2, <1>3, <1>4, SharedHold

LEMMA ReceiveSharedOne ==
    ASSUME IInv, Shared, NEW t \in Threads, NEW b \in Boxes, t = Receiver, b = Head(mail), Receive
    PROVE  Shared'
<1>1. TypeInv /\ mail \in Items /\ mail # <<>> /\ held' = Take(t, b) /\ mail' = Tail(mail)
      /\ UNCHANGED <<heap, run, queue>>
  BY DEF Receive, IInv, TypeInv
<1>2. b \in Range(mail) /\ Range(mail') \subseteq Range(mail) /\ mail' \in Items
  BY <1>1, CountTail
<1>3. Mine(t, b)
  BY <1>2 DEF Shared, Mine
<1>4. \A y \in Boxes : Same(heap[y], heap'[y])
  BY <1>1 DEF Same
<1> QED
  BY <1>1, <1>2, <1>3, <1>4, SharedHold

LEMMA ReceiveShared == ASSUME IInv, Shared, Receive PROVE Shared'
<1>1. mail \in Items /\ mail # <<>>
  BY DEF IInv, TypeInv, Receive
<1>2. Head(mail) \in Boxes
  BY <1>1, CountTail
<1> QED
  BY <1>2, ThreadsAssumption, ReceiveSharedOne

LEMMA ReleaseShared ==
    ASSUME IInv, Shared, NEW t \in Threads, NEW b \in Boxes, Release(t, b) PROVE Shared'
<1>1. TypeInv /\ Runs /\ mail \in Items /\ Holds(t, b) /\ held \in [Threads -> [Boxes -> Nat]]
  BY TypeParts DEF Release, IInv, TypeInv
<1>2. /\ held' = [held EXCEPT ![t][b] = @ - 1] /\ Enter(t, "release", b)
      /\ UNCHANGED <<heap, mail, queue>>
  BY DEF Release
<1>3. /\ \A u \in Threads \ {t} : run'[u] = run[u]
      /\ run'[t].op = "release" /\ run'[t].box = b /\ run'[t].work = <<>>
  <2>1. "release" \in Ops
    BY DEF Ops
  <2> QED
    BY <2>1, <1>1, <1>2, EnterEffect DEF BoxOps, DropOps
<1>4. \A u \in Threads \ {t} : held'[u] = held[u]
  BY <1>1, <1>2
<1>5. \A y \in Boxes \ {b} : held'[t][y] = held[t][y]
  BY <1>1, <1>2
<1>6. \A y : y \in InWork(t)' => y = b
  BY <1>3 DEF InWork, Range
<1>7. Others(t)
  BY <1>2, <1>3, <1>4 DEF Others
<1>8. ASSUME NEW y \in Boxes, Touches(t, y)' PROVE Touches(t, y) \/ Mine(t, y)
  <2>1. CASE y = b
    BY <2>1, <1>1 DEF Touches
  <2>2. CASE y # b
    BY <2>2, <1>2, <1>5, <1>8, <1>6 DEF Touches, Holds
  <2> QED
    BY <2>1, <2>2
<1>9. \A y \in Boxes : Same(heap[y], heap'[y])
  BY <1>2 DEF Same
<1> QED
  BY <1>1, <1>2, <1>7, <1>8, <1>9, SharedTouch

LEMMA PushShared ==
    ASSUME IInv, Shared, NEW t \in Threads, NEW l \in Boxes, NEW b \in Boxes, Push(t, l, b)
    PROVE  Shared'
<1> DEFINE r == RetainAll(heap, <<b, l>>)
<1>1. /\ Holds(t, l) /\ Holds(t, b) /\ heap[l].tag = "list" /\ ~heap[l].frozen
      /\ heap' = [r EXCEPT ![l] = [r[l] EXCEPT !.kids = Append(r[l].kids, b)]]
      /\ held' = Take(t, l) /\ UNCHANGED <<run, queue, mail>>
  BY DEF Push
<1>2. /\ TypeInv /\ heap \in [Boxes -> Value] /\ <<b, l>> \in Items /\ mail \in Items
      /\ held \in [Threads -> [Boxes -> Nat]] /\ heap[l].kids \in Items
  BY KidsType DEF IInv, TypeInv, Items
<1>3. r \in [Boxes -> Value] /\ \A y \in Boxes : Same(heap[y], r[y])
  BY <1>2, RetainEffect
<1> HIDE DEF r
<1>4. /\ heap'[l].kids = Append(heap[l].kids, b)
      /\ \A y \in Boxes \ {l} : heap'[y].kids = heap[y].kids
      /\ \A y \in Boxes : /\ heap'[y].frozen = heap[y].frozen /\ heap'[y].owner = heap[y].owner
                          /\ heap'[y].tag = heap[y].tag
  <2>1. r[l] \in Value /\ r[l].kids = heap[l].kids
    BY <1>3 DEF Same
  <2> DEFINE k == Append(r[l].kids, b)
             v == [r[l] EXCEPT !.kids = k]
  <2>2. v.kids = k /\ v.frozen = r[l].frozen /\ v.owner = r[l].owner /\ v.tag = r[l].tag
    <3> HIDE DEF k
    <3> QED
      BY <2>1 DEF Value
  <2>3. heap' = [r EXCEPT ![l] = v]
    BY <1>1
  <2>4. k = Append(heap[l].kids, b)
    BY <2>1
  <2> HIDE DEF v
  <2> HIDE DEF k
  <2>5. heap'[l] = v /\ \A y \in Boxes \ {l} : heap'[y] = r[y]
    BY <2>3, <1>3
  <2> QED
    BY <2>2, <2>4, <2>5, <1>3 DEF Same
<1>5. \A y \in Boxes : \A u : Mine(u, y)' <=> Mine(u, y)
  BY <1>4 DEF Mine
<1>6. Mine(t, l) /\ Mine(t, b) /\ heap[l].owner = t
  <2>1. Mine(t, l) /\ Mine(t, b)
    BY <1>1, HeldMine
  <2> QED
    BY <2>1, <1>1 DEF Mine
<1>7. Range(heap'[l].kids) \subseteq Range(heap[l].kids) \cup {b}
  <2> DEFINE s == heap[l].kids
  <2>1. s \in Items /\ heap'[l].kids = Append(s, b)
    BY <1>2, <1>4
  <2> HIDE DEF s
  <2>2. /\ DOMAIN Append(s, b) = 1 .. Len(s) + 1 /\ Append(s, b)[Len(s) + 1] = b
        /\ \A i \in 1 .. Len(s) : Append(s, b)[i] = s[i]
    BY <2>1, AppendType
  <2>3. DOMAIN s = 1 .. Len(s) /\ Len(s) \in Nat
    BY <2>1 DEF Items
  <2>4. Range(Append(s, b)) \subseteq Range(s) \cup {b}
    BY <2>2, <2>3 DEF Range
  <2> QED
    BY <2>1, <2>4 DEF s
<1>8. ASSUME NEW y \in Boxes PROVE Sound(y)'
  <2>1. Sound(y) /\ Range(heap[y].kids) \subseteq Boxes
    BY <1>2, KidsType DEF Shared
  <2>2. CASE y = l
    <3>1. \A c \in Range(heap'[l].kids) : c \in Boxes /\ Mine(heap[l].owner, c)
      BY <2>1, <2>2, <1>1, <1>6, <1>7 DEF Sound
    <3> QED
      BY <3>1, <2>1, <2>2, <1>1, <1>4, <1>5 DEF Sound, Mine
  <2>3. CASE y # l
    BY <2>1, <2>3, <1>4 DEF Sound, Mine
  <2> QED
    BY <2>2, <2>3
<1>9. ASSUME NEW u \in Threads, NEW y \in Boxes, Touches(u, y)' PROVE Mine(u, y)'
  <2>1. /\ \A v \in Threads \ {t} : held'[v] = held[v]
        /\ \A z \in Boxes : held'[t][z] = held[t][z] + IF z = l THEN 1 ELSE 0
        /\ \A z \in Boxes : held[t][z] \in Nat
    BY <1>1, <1>2, TakeEffect
  <2>2. Touches(u, y) \/ (u = t /\ y = l)
    <3>1. CASE u # t
      BY <3>1, <2>1, <1>1, <1>9 DEF Touches, Holds, InWork, Waiting
    <3>2. CASE u = t /\ y # l
      <4>1. held'[t][y] = held[t][y]
        BY <3>2, <2>1
      <4> QED
        BY <4>1, <3>2, <1>1, <1>9 DEF Touches, Holds, InWork, Waiting
    <3> QED
      BY <3>1, <3>2
  <2> QED
    BY <2>2, <1>5, <1>6 DEF Shared
<1>10. \A y \in Range(mail') : heap'[y].frozen
  <2>1. Range(mail) \subseteq Boxes
    BY <1>2 DEF Items, Range
  <2> QED
    BY <2>1, <1>1, <1>4 DEF Shared
<1> QED
  BY <1>8, <1>9, <1>10 DEF Shared

\* What freeze_value gets to is all that is reached, when it reaches all.
LEMMA ThroughClosed ==
    ASSUME heap \in [Boxes -> Value], NEW b \in Boxes, Reach(heap, b) \subseteq Through(heap, b)
    PROVE  /\ Through(heap, b) \subseteq Boxes /\ b \in Through(heap, b)
           /\ \A x \in Through(heap, b) : Range(heap[x].kids) \subseteq Through(heap, b)
<1> DEFINE next == [x \in Boxes |-> IF heap[x].tag = "list" THEN Range(heap[x].kids) ELSE {}]
           any == [x \in Boxes |-> Range(heap[x].kids)]
           r == Reach(heap, b)
           all == Through(heap, b)
<1>1. \A x \in Boxes : Range(heap[x].kids) \subseteq Boxes
  BY KidsType
<1>2. all = Closure({b}, next)
  BY DEF Through
<1>3. r = Closure({b}, any)
  BY DEF Reach
<1>4. \A x \in Boxes : any[x] = Range(heap[x].kids) /\ next[x] \subseteq any[x]
  OBVIOUS
<1>5. r \subseteq all /\ {b} \in SUBSET Boxes
  OBVIOUS
<1> HIDE DEF next, any, all, r
<1>6. \A x \in Boxes : next[x] \subseteq Boxes
  BY <1>1, <1>4
<1>7. \A x \in Boxes : any[x] \subseteq Boxes
  BY <1>1, <1>4
<1>8. all \subseteq Boxes /\ {b} \subseteq all
  BY <1>2, <1>5, <1>6, ClosureClosed
<1>9. r \subseteq Boxes /\ {b} \subseteq r
  BY <1>3, <1>5, <1>7, ClosureClosed
<1>10. \A x \in r : any[x] \subseteq r
  <2>1. \A x \in Closure({b}, any) : any[x] \subseteq Closure({b}, any)
    BY <1>5, <1>7, ClosureClosed
  <2> QED
    BY <2>1, <1>3
<1>11. all \subseteq r
  <2>1. \A x \in r : next[x] \subseteq r
    BY <1>4, <1>9, <1>10
  <2>2. r \in SUBSET Boxes
    BY <1>9
  <2>3. Closure({b}, next) \subseteq r
    BY <2>1, <2>2, <1>9, ClosureLeast
  <2> QED
    BY <2>3, <1>2
<1>12. \A x \in all : any[x] \subseteq all
  BY <1>5, <1>10, <1>11
<1>13. b \in all
  BY <1>8
<1> QED
  BY <1>4, <1>8, <1>12, <1>13 DEF all

\* freeze_value freezes all that the value reaches, if it gets there through
\* lists alone.
LEMMA FreezeShared ==
    ASSUME TypeInv, Shared, NEW b \in Boxes, heap' = RetainAll(Freeze(heap, b), <<b>>),
           \A t \in Threads, y \in Boxes : Touches(t, y)' => Touches(t, y) \/ Mine(t, y),
           Range(mail') \subseteq Range(mail) \cup {b},
           Reach(heap, b) \subseteq Through(heap, b)
    PROVE  Shared'
<1> DEFINE f == Freeze(heap, b)
           all == Through(heap, b)
<1>1. heap \in [Boxes -> Value] /\ <<b>> \in Items /\ mail \in Items
  BY DEF TypeInv, Items
<1>2. \A x \in Boxes : Range(heap[x].kids) \subseteq Boxes
  BY <1>1, KidsType
<1>3. all \subseteq Boxes /\ b \in all /\ \A x \in all : Range(heap[x].kids) \subseteq all
  BY <1>1, ThroughClosed
<1>4. /\ f \in [Boxes -> Value]
      /\ \A x \in Boxes :
          /\ f[x].kids = heap[x].kids /\ f[x].tag = heap[x].tag
          /\ x \in all => f[x].frozen /\ f[x].owner = NoOwner
          /\ x \notin all => f[x] = heap[x]
  BY <1>1, FreezeEffect
<1>5. \A x \in Boxes : Same(f[x], heap'[x])
  <2> HIDE DEF f
  <2>1. \A x \in Boxes : Same(f[x], RetainAll(f, <<b>>)[x])
    BY <1>1, <1>4, RetainEffect
  <2> QED
    BY <2>1 DEF f
<1> HIDE DEF f
<1> HIDE DEF all
<1>6. \A x \in Boxes :
        /\ heap'[x].kids = heap[x].kids /\ heap'[x].tag = heap[x].tag
        /\ x \in all => heap'[x].frozen /\ heap'[x].owner = NoOwner
        /\ x \notin all => heap'[x].frozen = heap[x].frozen /\ heap'[x].owner = heap[x].owner
  BY <1>4, <1>5 DEF Same
<1>7. \A x \in Boxes : /\ heap[x].frozen => heap'[x].frozen
                       /\ \A u : Mine(u, x) => heap'[x].frozen \/ heap'[x].owner = u
  BY <1>6 DEF Mine
<1>8. ASSUME NEW x \in Boxes PROVE Sound(x)'
  <2>1. Sound(x)
    BY DEF Shared
  <2>2. CASE x \in all
    BY <2>1, <2>2, <1>2, <1>3, <1>6 DEF Sound
  <2>3. CASE x \notin all
    <3>1. /\ heap'[x].kids = heap[x].kids /\ heap'[x].tag = heap[x].tag
          /\ heap'[x].frozen = heap[x].frozen /\ heap'[x].owner = heap[x].owner
      BY <2>3, <1>6
    <3>2. ASSUME NEW c \in Range(heap[x].kids)
          PROVE  IF heap[x].frozen THEN heap'[c].frozen
                 ELSE heap'[c].frozen \/ heap'[c].owner = heap[x].owner
      BY <2>1, <1>2, <1>7 DEF Sound
    <3> QED
      BY <3>1, <3>2, <2>1 DEF Sound, Mine
  <2> QED
    BY <2>2, <2>3
<1>9. ASSUME NEW t \in Threads, NEW y \in Boxes, Touches(t, y)' PROVE Mine(t, y)'
  <2>1. Mine(t, y)
    BY <1>9 DEF Shared
  <2> QED
    BY <2>1, <1>7 DEF Mine
<1>10. \A y \in Range(mail') : heap'[y].frozen
  <2>1. Range(mail) \subseteq Boxes
    BY <1>1 DEF Items, Range
  <2>2. heap'[b].frozen
    BY <1>3, <1>6
  <2> QED
    BY <2>1, <2>2, <1>7 DEF Shared
<1> QED
  BY <1>8, <1>9, <1>10 DEF Shared

LEMMA SendShared ==
    ASSUME IInv, Shared, NEW t \in Threads, NEW b \in Boxes, Send(t, b),
           "leaked" \notin amiss'
    PROVE  Shared'
<1>0. Reach(heap, b) \subseteq Through(heap, b)
  BY DEF Send, Leak
<1>1. /\ TypeInv /\ mail \in Items /\ heap' = RetainAll(Freeze(heap, b), <<b>>)
      /\ mail' = Append(mail, b) /\ UNCHANGED <<held, run, queue>>
  BY DEF Send, IInv, TypeInv
<1>2. \A u \in Threads, y \in Boxes : Touches(u, y)' => Touches(u, y)
  BY <1>1 DEF Touches, Holds, InWork, Waiting
<1>3. Range(mail') \subseteq Range(mail) \cup {b}
  <2>1. /\ DOMAIN mail' = 1 .. Len(mail) + 1 /\ mail'[Len(mail) + 1] = b
        /\ \A i \in 1 .. Len(mail) : mail'[i] = mail[i]
    BY <1>1, AppendType
  <2>2. DOMAIN mail = 1 .. Len(mail) /\ Len(mail) \in Nat
    BY <1>1 DEF Items
  <2> QED
    BY <2>1, <2>2 DEF Range
<1> QED
  BY <1>0, <1>1, <1>2, <1>3, FreezeShared

LEMMA SendRefusedShared ==
    ASSUME IInv, Shared, NEW t \in Threads, NEW b \in Boxes, SendRefused(t, b),
           "leaked" \notin amiss'
    PROVE  Shared'
<1>0. Reach(heap, b) \subseteq Through(heap, b)
  BY DEF SendRefused, Leak
<1>1. /\ TypeInv /\ Runs /\ Holds(t, b) /\ heap' = RetainAll(Freeze(heap, b), <<b>>)
      /\ Enter(t, "release", b) /\ UNCHANGED <<held, mail, queue>>
  BY TypeParts DEF SendRefused, IInv
<1>2. /\ \A u \in Threads \ {t} : run'[u] = run[u]
      /\ \A y : y \in InWork(t)' => y = b
  <2>1. "release" \in Ops
    BY DEF Ops
  <2>2. /\ \A u \in Threads \ {t} : run'[u] = run[u]
        /\ run'[t].op = "release" /\ run'[t].box = b /\ run'[t].work = <<>>
    BY <2>1, <1>1, EnterEffect DEF BoxOps, DropOps
  <2> QED
    BY <2>2 DEF InWork, Range
<1>3. ASSUME NEW u \in Threads, NEW y \in Boxes, Touches(u, y)' PROVE Touches(u, y) \/ Mine(u, y)
  <2>1. CASE u # t
    BY <2>1, <1>1, <1>2, <1>3 DEF Touches, Holds, InWork, Waiting
  <2>2. CASE u = t /\ y = b
    BY <2>2, <1>1 DEF Touches
  <2>3. CASE u = t /\ y # b
    BY <2>3, <1>1, <1>2, <1>3 DEF Touches, Holds
  <2> QED
    BY <2>1, <2>2, <2>3
<1> QED
  BY <1>0, <1>1, <1>3, FreezeShared

LEMMA MakeShared ==
    ASSUME IInv, Shared, NEW t \in Makers, NEW b \in Boxes, NEW kind \in Kinds,
           NEW items \in ItemLists(b), Make(t, b, kind, items)
    PROVE  Shared'
<1>0. t \in Threads
  BY ThreadsAssumption
<1>1. TypeInv /\ Counts /\ Recycled /\ heap \in [Boxes -> Value]
      /\ held \in [Threads -> [Boxes -> Nat]]
  BY DEF IInv, TypeInv
<1>2. /\ AllocFrom(t, b) /\ TakeBox(t) /\ (\A c \in Range(items) : Holds(t, c))
      /\ kind = "atom" => items = <<>>
      /\ heap' = [RetainAll(heap, items) EXCEPT ![b] = NewValue(t, kind, items)]
      /\ held' = Take(t, b) /\ UNCHANGED <<mail, run, queue>>
  BY DEF Make
<1>3. place[b] \in {"pooled", "none"}
  BY <1>0, <1>1, <1>2, AllocEffect
<1>4. Refs(b) = 0 /\ \A u \in Threads : ~Touches(u, b)
  <2>1. InHands
    BY TouchPlace
  <2> QED
    BY <2>1, <1>1, <1>3 DEF InHands, Located, Counts, Counted
<1>5. items \in Items /\ Range(items) \subseteq Boxes \ {b}
  <2>1. CASE items = <<>>
    BY <2>1 DEF Items, Range
  <2>2. CASE \E c \in Boxes \ {b} : items = <<c>>
    BY <2>2 DEF Items, Range
  <2> QED
    BY <2>1, <2>2 DEF ItemLists
<1> DEFINE r == RetainAll(heap, items)
           v == NewValue(t, kind, items)
<1>6. r \in [Boxes -> Value] /\ \A y \in Boxes : Same(heap[y], r[y])
  BY <1>1, <1>5, RetainEffect
<1>7. v.kids = items /\ v.tag = kind /\ v.frozen = FALSE /\ v.owner = t
  BY DEF NewValue
<1>8. heap' = [r EXCEPT ![b] = v]
  BY <1>2
<1> HIDE DEF r
<1> HIDE DEF v
<1>9. heap'[b] = v /\ \A y \in Boxes \ {b} : heap'[y] = r[y]
  BY <1>6, <1>8
<1>10. \A y \in Boxes \ {b} : Same(heap[y], heap'[y])
  BY <1>6, <1>9
<1>11. \A c \in Range(heap'[b].kids) : c \in Boxes \ {b} /\ Mine(heap'[b].owner, c)
  BY <1>0, <1>2, <1>5, <1>7, <1>9, HeldMine
<1>12. /\ \A u \in Threads \ {t} : held'[u] = held[u]
       /\ \A y \in Boxes : held'[t][y] = held[t][y] + IF y = b THEN 1 ELSE 0
       /\ \A y \in Boxes : held[t][y] \in Nat
  BY <1>0, <1>1, <1>2, TakeEffect
<1>13. ASSUME NEW u \in Threads, NEW y \in Boxes, Touches(u, y)', y # b \/ u # t PROVE Touches(u, y)
  <2>1. held'[u][y] = held[u][y]
    <3>1. CASE u # t
      BY <3>1, <1>12
    <3>2. CASE u = t /\ y # b
      <4>1. held'[t][y] = held[t][y]
        BY <3>2, <1>12
      <4> QED
        BY <4>1, <3>2
    <3> QED
      BY <3>1, <3>2, <1>13
  <2> QED
    BY <2>1, <1>2, <1>13 DEF Touches, Holds, InWork, Waiting
<1>14. \A u \in Threads : Touches(u, b)' => heap'[b].owner = u
  BY <1>4, <1>7, <1>9, <1>13
<1> QED
  BY <1>1, <1>2, <1>4, <1>7, <1>9, <1>10, <1>11, <1>13, <1>14, SharedNew

LEMMA QueueInitShared ==
    ASSUME IInv, IInv', Shared, NEW t \in Threads, QueueInit(t) PROVE Shared'
<1>1. /\ queue \in [Threads -> Queue] /\ queue' = [queue EXCEPT ![t].on = TRUE]
      /\ UNCHANGED <<heap, held, mail, run>>
  BY DEF QueueInit, IInv, TypeInv
<1>2. \A u \in Threads : queue'[u].items = queue[u].items
  BY <1>1 DEF Queue
<1>3. run'[t].op \notin (BoxOps \ {"root"})
  BY <1>1 DEF QueueInit, Call, BoxOps
<1> QED
  BY <1>1, <1>2, <1>3, SharedQuiet

LEMMA QueueFlushShared ==
    ASSUME IInv, IInv', Shared, NEW t \in Threads, QueueFlush(t) PROVE Shared'
<1>1. Runs /\ Enter(t, "drain", NoBox) /\ UNCHANGED <<heap, held, mail, queue>>
  BY TypeParts DEF QueueFlush, IInv
<1>2. (\A u \in Threads \ {t} : run'[u] = run[u]) /\ run'[t].op = "drain"
  <2>1. "drain" \in Ops /\ NoBox \notin Boxes
    BY BoxesAssumption DEF Ops
  <2> QED
    BY <2>1, <1>1, EnterEffect DEF BoxOps, DropOps
<1> QED
  BY <1>1, <1>2, SharedQuiet DEF BoxOps

LEMMA CycleFlushShared ==
    ASSUME IInv, IInv', Shared, NEW t \in Threads, CycleFlush(t) PROVE Shared'
<1>1. run[t].op = "idle" /\ UNCHANGED <<heap, held, mail, run, queue>>
  BY DEF CycleFlush, Call
<1> QED
  BY <1>1, SharedQuiet DEF BoxOps

LEMMA CollectShared ==
    ASSUME IInv, IInv', Shared, NEW t \in Threads, Collect(t) PROVE Shared'
<1>1. Runs /\ Enter(t, "flush", NoBox) /\ UNCHANGED <<heap, held, mail, queue>>
  BY TypeParts DEF Collect, IInv
<1>2. (\A u \in Threads \ {t} : run'[u] = run[u]) /\ run'[t].op = "flush"
  <2>1. "flush" \in Ops /\ NoBox \notin Boxes
    BY BoxesAssumption DEF Ops
  <2> QED
    BY <2>1, <1>1, EnterEffect DEF BoxOps, DropOps
<1> QED
  BY <1>1, <1>2, SharedQuiet DEF BoxOps

LEMMA PhaseShared ==
    ASSUME IInv, IInv', Shared, NEW t \in Threads, NEW op \in CollectOps \cup {"idle"},
           NEW s, Phase(t, op, s), UNCHANGED <<heap, held, mail, queue>>
    PROVE  Shared'
<1>1. Runs
  BY TypeParts DEF IInv
<1>2. (\A u \in Threads \ {t} : run'[u] = run[u]) /\ run'[t].op = op
  BY <1>1 DEF Phase, Idle, Runs
<1> QED
  BY <1>2, SharedQuiet DEF CollectOps, BoxOps

LEMMA ScanShared ==
    ASSUME IInv, IInv', Shared, NEW t \in Threads, Scan(t) \/ ScanBlack(t) PROVE Shared'
<1>1. Runs /\ UNCHANGED <<heap, held, mail, queue>>
  BY TypeParts DEF IInv, Scan, ScanBlack
<1>2. \/ \E s : Phase(t, "scan", s)
      \/ /\ run[t].op = "scan"
         /\ \/ \E s, k : run' = [run EXCEPT ![t].todo = s, ![t].black = k]
            \/ \E k : run' = [run EXCEPT ![t].black = k]
  BY DEF Scan, ScanBlack
<1>3. CASE \E s : Phase(t, "scan", s)
  BY <1>1, <1>3, PhaseShared DEF CollectOps
<1>4. CASE /\ run[t].op = "scan"
           /\ \/ \E s, k : run' = [run EXCEPT ![t].todo = s, ![t].black = k]
              \/ \E k : run' = [run EXCEPT ![t].black = k]
  <2>1. (\A u \in Threads \ {t} : run'[u] = run[u]) /\ run'[t].op = "scan"
    BY <1>1, <1>4 DEF Runs, Activity
  <2> QED
    BY <2>1, <1>1, SharedQuiet DEF BoxOps
<1> QED
  BY <1>2, <1>3, <1>4

\* While nothing was claimed, the collector frees nothing.
LEMMA CollectStepsShared ==
    ASSUME IInv, IInv', Shared, NEW t \in Threads, CollectSteps(t) PROVE Shared'
<1>1. CASE FlushRoots(t)
  <2>1. Runs /\ Enter(t, "begin", NoBox) /\ UNCHANGED <<heap, held, mail, queue>>
    BY <1>1, TypeParts DEF FlushRoots, IInv
  <2>2. (\A u \in Threads \ {t} : run'[u] = run[u]) /\ run'[t].op = "begin"
    <3>1. "begin" \in Ops /\ NoBox \notin Boxes
      BY BoxesAssumption DEF Ops
    <3> QED
      BY <3>1, <2>1, EnterEffect DEF BoxOps, DropOps
  <2> QED
    BY <2>1, <2>2, SharedQuiet DEF BoxOps
<1>2. CASE CollectBegin(t)
  <2>1. UNCHANGED <<heap, held, mail, queue>> /\ (Phase(t, "idle", {}) \/ Phase(t, "copy", {}))
    BY <1>2 DEF CollectBegin
  <2> QED
    BY <2>1, PhaseShared DEF CollectOps
<1>3. CASE CopyRoots(t)
  BY <1>3, PhaseShared DEF CopyRoots, CollectOps
<1>4. CASE Mark(t)
  <2>1. UNCHANGED <<heap, held, mail, queue>>
        /\ \/ Phase(t, "scan", det.roots)
           \/ \E b \in run[t].todo : Phase(t, "mark", run[t].todo \ {b})
    BY <1>4 DEF Mark
  <2> QED
    BY <2>1, PhaseShared DEF CollectOps
<1>5. CASE Scan(t) \/ ScanBlack(t)
  BY <1>5, ScanShared
<1>6. CASE Scanned(t)
  BY <1>6, PhaseShared DEF Scanned, CollectOps
<1>7. CASE CollectRoots(t)
  <2>1. UNCHANGED <<heap, held, mail, queue>> /\ \E s : Phase(t, "free", s)
    BY <1>7 DEF CollectRoots
  <2> QED
    BY <2>1, PhaseShared DEF CollectOps
<1>8. CASE CollectWhite(t)
  <2>1. run[t].op = "free" => run[t].todo = {}
    BY DEF IInv, TypeInv, Shape
  <2>2. UNCHANGED <<heap, held, mail, queue>> /\ Phase(t, "promote", {})
    BY <1>8, <2>1 DEF CollectWhite
  <2> QED
    BY <2>2, PhaseShared DEF CollectOps
<1>9. CASE Promote(t)
  <2>1. UNCHANGED <<heap, held, mail, queue>> /\ Phase(t, "idle", {})
    BY <1>9 DEF Promote
  <2> QED
    BY <2>1, PhaseShared
<1> QED
  BY <1>1, <1>2, <1>3, <1>4, <1>5, <1>6, <1>7, <1>8, <1>9 DEF CollectSteps

\* Steps in which a thread that releases or drops keeps its box, or gives it up.
LEMMA SharedKeep ==
    ASSUME IInv, Shared, NEW t \in Threads, UNCHANGED <<held, mail, queue>>,
           \A b \in Boxes : Same(heap[b], heap'[b]),
           \A u \in Threads \ {t} : run'[u] = run[u],
           InWork(t)' \subseteq InWork(t)
    PROVE  Shared'
<1>1. TypeInv /\ mail' \in Items /\ Others(t)
  BY DEF IInv, TypeInv, Others
<1>2. \A b \in Boxes : Touches(t, b)' => Touches(t, b)
  BY DEF Touches, Holds
<1> QED
  BY <1>1, <1>2, SharedTouch

LEMMA DecrementShared ==
    ASSUME IInv, Shared, NEW t \in Threads, Decrement(t) PROVE Shared'
<1> DEFINE b == run[t].box
<1>1. TypeInv /\ Runs /\ heap \in [Boxes -> Value] /\ run[t].op = "release" /\ b \in Boxes
      /\ UNCHANGED <<held, mail, queue>>
  BY TypeParts DEF Decrement, IInv, TypeInv, Shape, BoxOps
<1>2. heap[b].rc \in Nat
  BY <1>1 DEF Value
<1>3. \A y \in Boxes : Same(heap[y], heap'[y])
  <2>1. CASE heap' = heap
    BY <2>1 DEF Same
  <2>2. CASE \E n \in Nat : heap' = [heap EXCEPT ![b].rc = n]
    BY <2>2, <1>1, CountSet
  <2>3. heap' = heap \/ \E n \in Nat : heap' = [heap EXCEPT ![b].rc = n]
    <3>1. heap[b].rc > 1 => heap[b].rc - 1 \in Nat
      BY <1>2
    <3>2. \/ heap' = heap
          \/ heap[b].rc > 1 /\ heap' = [heap EXCEPT ![b].rc = heap[b].rc - 1]
          \/ heap' = [heap EXCEPT ![b].rc = 0]
      BY DEF Decrement
    <3> QED
      BY <3>1, <3>2
  <2> QED
    BY <2>1, <2>2, <2>3
<1>4. /\ \A u \in Threads \ {t} : run'[u] = run[u]
      /\ run'[t].box \in {b, NoBox} /\ run'[t].work = <<>> /\ run'[t].op # "childroot"
  <2>1. \/ run' = [run EXCEPT ![t] = Idle]
        \/ \E op \in {"root", "notify"} : Enter(t, op, b)
    BY DEF Decrement
  <2>2. CASE run' = [run EXCEPT ![t] = Idle]
    BY <2>2, <1>1, StopEffect
  <2>3. ASSUME NEW op \in {"root", "notify"}, Enter(t, op, b)
        PROVE  /\ \A u \in Threads \ {t} : run'[u] = run[u]
               /\ run'[t].box = b /\ run'[t].work = <<>> /\ run'[t].op = op
    <3>1. op \in Ops /\ op \in BoxOps /\ op \notin DropOps
      BY DEF Ops, BoxOps, DropOps
    <3> HIDE DEF b
    <3> QED
      BY <3>1, <2>3, <1>1, EnterEffect DEF DropOps
  <2> QED
    BY <2>1, <2>2, <2>3
<1>5. InWork(t)' \subseteq InWork(t)
  <2>1. InWork(t) = ({b} \ {NoBox}) \cup Range(run[t].work)
    BY <1>1 DEF InWork
  <2> HIDE DEF b
  <2>2. InWork(t)' \subseteq {b} \ {NoBox}
    BY <1>4 DEF InWork, Range
  <2> QED
    BY <2>1, <2>2
<1> QED
  BY <1>1, <1>3, <1>4, <1>5, SharedKeep

LEMMA NotifyShared ==
    ASSUME IInv, Shared, NEW t \in Threads, Notify(t) PROVE Shared'
<1> DEFINE b == run[t].box
<1>1. /\ TypeInv /\ Runs /\ heap \in [Boxes -> Value] /\ run[t].op = "notify" /\ b \in Boxes
      /\ UNCHANGED <<held, mail, queue>> /\ Enter(t, "dispose", b)
      /\ heap' = [heap EXCEPT ![b].epoch = heap[b].epoch + 1]
  BY TypeParts DEF Notify, IInv, TypeInv, Shape, BoxOps
<1>2. \A y \in Boxes : Same(heap[y], heap'[y])
  <2> DEFINE v == [heap[b] EXCEPT !.epoch = heap[b].epoch + 1]
  <2>1. Same(heap[b], v)
    <3>1. heap[b] \in Value
      BY <1>1
    <3> QED
      BY <3>1 DEF Value, Same
  <2>2. heap' = [heap EXCEPT ![b] = v]
    BY <1>1
  <2> HIDE DEF v
  <2>3. \A y \in Boxes : heap'[y] = IF y = b THEN v ELSE heap[y]
    BY <2>2, <1>1
  <2>4. \A y \in Boxes : Same(heap[y], heap[y])
    BY DEF Same
  <2> HIDE DEF b
  <2> QED
    BY <2>1, <2>3, <2>4
<1>3. /\ \A u \in Threads \ {t} : run'[u] = run[u]
      /\ run'[t].op = "dispose" /\ run'[t].box = b /\ run'[t].work = <<>>
  <2>1. "dispose" \in Ops
    BY DEF Ops
  <2> HIDE DEF b
  <2> QED
    BY <2>1, <1>1, EnterEffect DEF BoxOps, DropOps
<1>4. InWork(t)' \subseteq InWork(t)
  BY <1>1, <1>3 DEF InWork, Range
<1> QED
  BY <1>1, <1>2, <1>3, <1>4, SharedKeep

LEMMA RootShared ==
    ASSUME IInv, IInv', Shared, NEW t \in Threads, Root(t) PROVE Shared'
<1>1. Runs /\ UNCHANGED <<heap, held, mail, queue>>
      /\ (Enter(t, "idle", NoBox) \/ Enter(t, "flush", NoBox))
  BY TypeParts DEF Root, IInv
<1>2. /\ \A u \in Threads \ {t} : run'[u] = run[u]
      /\ run'[t].op \in {"idle", "flush"}
  BY <1>1 DEF Enter, Idle, Runs
<1> QED
  BY <1>1, <1>2, SharedQuiet DEF BoxOps

LEMMA DropChildShared ==
    ASSUME IInv, Shared, NEW t \in Threads, DropChild(t) PROVE Shared'
<1> DEFINE w == run[t].work
           c == Last(w)
<1>1. TypeInv /\ run[t].op = "drop" /\ heap \in [Boxes -> Value] /\ run \in [Threads -> Activity] /\ w \in Items
      /\ w # <<>> /\ UNCHANGED <<held, mail, queue>>
  BY DEF DropChild, IInv, TypeInv, Activity
<1>2. Front(w) \in Items /\ c \in Boxes /\ Range(Front(w)) \subseteq Range(w)
  BY <1>1, FrontType
<1>3. heap[c].rc \in Nat
  BY <1>1, <1>2 DEF Value
<1>4. \A y \in Boxes : Same(heap[y], heap'[y])
  <2>1. CASE heap' = heap
    BY <2>1 DEF Same
  <2>2. CASE \E n \in Nat : heap' = [heap EXCEPT ![c].rc = n]
    <3> HIDE DEF c
    <3> QED
      BY <2>2, <1>1, <1>2, CountSet
  <2>3. heap' = heap \/ \E n \in Nat : heap' = [heap EXCEPT ![c].rc = n]
    <3>1. heap[c].rc > 1 => heap[c].rc - 1 \in Nat
      BY <1>3
    <3>2. \/ heap' = heap
          \/ heap[c].rc > 1 /\ heap' = [heap EXCEPT ![c].rc = heap[c].rc - 1]
          \/ heap' = [heap EXCEPT ![c].rc = 0]
      BY DEF DropChild
    <3> QED
      BY <3>1, <3>2
  <2> QED
    BY <2>1, <2>2, <2>3
<1>5. /\ \A u \in Threads \ {t} : run'[u] = run[u]
      /\ run'[t].box = run[t].box
      /\ \/ run'[t].op = "drop" /\ run'[t].work = Front(w)
         \/ run'[t].op \in {"child", "childroot"} /\ run'[t].work = w
  <2>1. \/ run' = [run EXCEPT ![t].work = Front(w)]
        \/ run' = [run EXCEPT ![t].op = "child"] \/ run' = [run EXCEPT ![t].op = "childroot"]
    BY DEF DropChild
  <2>2. run[t] \in Activity
    BY <1>1
  <2> QED
    BY <2>1, <2>2, <1>1 DEF Activity
<1>6. InWork(t)' \subseteq InWork(t)
  <2> DEFINE x == run[t].box
  <2>1. InWork(t) = ({x} \ {NoBox}) \cup Range(w)
    BY <1>1 DEF InWork
  <2>2. x # NoBox
    BY <1>1, BoxesAssumption DEF IInv, TypeInv, Shape, BoxOps
  <2>3. CASE run'[t].op = "drop" /\ run'[t].work = Front(w)
    <3>1. InWork(t)' = ({x} \ {NoBox}) \cup Range(Front(w))
      BY <2>3, <1>5 DEF InWork
    <3> QED
      BY <3>1, <2>1, <1>2
  <2>4. CASE run'[t].op = "child" /\ run'[t].work = w
    BY <2>1, <2>4, <1>5 DEF InWork
  <2>5. CASE run'[t].op = "childroot" /\ run'[t].work = w
    <3>1. InWork(t)' = {x} \cup Range(Front(w))
      BY <2>5, <1>5 DEF InWork, Waiting
    <3> QED
      BY <3>1, <2>1, <2>2, <1>2
  <2> QED
    BY <2>3, <2>4, <2>5, <1>5
<1> QED
  BY <1>1, <1>4, <1>5, <1>6, SharedKeep

LEMMA ChildRootShared ==
    ASSUME IInv, Shared, NEW t \in Threads, ChildRoot(t) PROVE Shared'
<1> DEFINE w == run[t].work
<1>1. /\ run[t].op = "childroot" /\ run \in [Threads -> Activity]
      /\ run' = [run EXCEPT ![t] = [run[t] EXCEPT !.op = "drop", !.work = Front(w)]]
      /\ UNCHANGED <<heap, held, mail, queue>>
  BY DEF ChildRoot, IInv, TypeInv
<1>2. /\ \A u \in Threads \ {t} : run'[u] = run[u]
      /\ run'[t].op = "drop" /\ run'[t].box = run[t].box /\ run'[t].work = Front(w)
  <2>1. run[t] \in Activity
    BY <1>1
  <2> QED
    BY <2>1, <1>1 DEF Activity
<1>3. InWork(t)' \subseteq InWork(t)
  BY <1>1, <1>2 DEF InWork, Waiting
<1>4. \A y \in Boxes : Same(heap[y], heap'[y])
  BY <1>1 DEF Same
<1> QED
  BY <1>1, <1>2, <1>3, <1>4, SharedKeep

LEMMA DisposeLaterShared ==
    ASSUME IInv, Shared, NEW t \in Threads, NEW b \in Boxes, b = run[t].box, Dispose(t),
           queue[t].on
    PROVE  Shared'
<1> DEFINE s == queue[t].items
<1>1. /\ TypeInv /\ Runs /\ queue \in [Threads -> Queue] /\ mail \in Items /\ s \in Items
      /\ queue' = queue \/ queue' = [queue EXCEPT ![t].items = Append(s, b)]
      /\ run' = [run EXCEPT ![t] = Idle] /\ UNCHANGED <<heap, held, mail>>
  <2>1. TypeInv /\ Runs /\ queue \in [Threads -> Queue] /\ mail \in Items /\ s \in Items
    BY TypeParts DEF IInv, TypeInv, Queue
  <2> QED
    BY <2>1 DEF Dispose
<1>2. (\A u \in Threads \ {t} : run'[u] = run[u]) /\ InWork(t)' = {}
  <2>1. /\ \A u \in Threads \ {t} : run'[u] = run[u]
        /\ run'[t].op = "idle" /\ run'[t].box = NoBox /\ run'[t].work = <<>>
    BY <1>1, StopEffect
  <2> QED
    BY <2>1 DEF InWork, Range
<1>3. /\ \A u \in Threads \ {t} : queue'[u].items = queue[u].items
      /\ Range(queue'[t].items) \subseteq Range(s) \cup {b}
  <2>1. CASE queue' = queue
    BY <2>1
  <2>2. CASE queue' = [queue EXCEPT ![t].items = Append(s, b)]
    <3> HIDE DEF s
    <3>1. /\ Append(s, b) \in Items
          /\ DOMAIN Append(s, b) = 1 .. Len(s) + 1 /\ Append(s, b)[Len(s) + 1] = b
          /\ \A i \in 1 .. Len(s) : Append(s, b)[i] = s[i]
      BY <1>1, AppendType
    <3>2. DOMAIN s = 1 .. Len(s) /\ Len(s) \in Nat
      BY <1>1 DEF Items
    <3>3. Range(Append(s, b)) \subseteq Range(s) \cup {b}
      BY <3>1, <3>2 DEF Range
    <3>4. /\ queue'[t].items = Append(s, b)
          /\ \A u \in Threads \ {t} : queue'[u] = queue[u]
      BY <3>1, <2>2, <1>1, QueueSet
    <3> QED
      BY <3>3, <3>4
  <2> QED
    BY <2>1, <2>2, <1>1
<1>4. Others(t)
  BY <1>1, <1>2, <1>3 DEF Others
<1>5. \A y \in Boxes : Touches(t, y)' => Touches(t, y)
  <2>1. b \in InWork(t)
    BY BoxesAssumption DEF InWork, Dispose
  <2> QED
    BY <2>1, <1>1, <1>2, <1>3 DEF Touches, Holds
<1>6. \A y \in Boxes : Same(heap[y], heap'[y])
  BY <1>1 DEF Same
<1> QED
  BY <1>1, <1>4, <1>5, <1>6, SharedTouch

\* The items of x go on the worklist of the thread it belongs to.
LEMMA HuskShared ==
    ASSUME IInv, IInv', Shared, NEW t \in Threads, NEW x \in Boxes, Mine(t, x),
           NEW then \in {"idle", "drain"},
           place[x] \in {"dying", "queued"}, place'[x] = "husk",
           heap' = [heap EXCEPT ![x] = Unit(t)], Drop(t, x, then), UNCHANGED <<held, mail>>,
           \A u \in Threads \ {t} : queue'[u] = queue[u],
           Range(queue'[t].items) \subseteq Range(queue[t].items)
    PROVE  Shared'
<1>1. TypeInv /\ Counts /\ Runs /\ heap \in [Boxes -> Value] /\ heap[x].kids \in Items
  BY TypeParts, KidsType DEF IInv, TypeInv
<1>2. /\ \A u \in Threads \ {t} : run'[u] = run[u]
      /\ run'[t].op = "drop" /\ run'[t].box = x
      /\ InWork(t)' \subseteq {x} \cup Range(heap[x].kids)
  <2>1. /\ \A u \in Threads \ {t} : run'[u] = run[u]
        /\ run'[t].op = "drop" /\ run'[t].box = x /\ run'[t].work = heap[x].kids
    BY <1>1, DropEffect
  <2> QED
    BY <2>1 DEF InWork
<1>3. Refs(x) = 0
  <2>1. Refs(x) \in Nat
    BY <1>1, TypeParts, RefsBound
  <2>2. ~(Refs(x) > 0)
    BY <1>1, Referenced
  <2> QED
    BY <2>1, <2>2
<1>4. /\ heap'[x].kids = <<>> /\ heap'[x].frozen = FALSE /\ heap'[x].owner = t
      /\ \A b \in Boxes \ {x} : Same(heap[b], heap'[b])
  <2>1. Unit(t).kids = <<>> /\ Unit(t).frozen = FALSE /\ Unit(t).owner = t
    BY DEF Unit
  <2>2. heap'[x] = Unit(t) /\ \A b \in Boxes \ {x} : heap'[b] = heap[b]
    BY <1>1
  <2> QED
    BY <2>1, <2>2 DEF Same
<1>5. ASSUME NEW u \in Threads, NEW b \in Boxes \ {x}, Touches(u, b)'
      PROVE  Touches(u, b) \/ Mine(u, b)
  <2>1. CASE u # t
    BY <2>1, <1>2, <1>5 DEF Touches, Holds, InWork, Waiting
  <2>2. CASE u = t /\ b \in Range(heap[x].kids)
    BY <2>2, <1>1, KidsMine
  <2>3. CASE u = t /\ b \notin Range(heap[x].kids)
    BY <2>3, <1>2, <1>5 DEF Touches, Holds
  <2> QED
    BY <2>1, <2>2, <2>3
<1>6. \A u \in Threads : Touches(u, x)' => heap'[x].owner = u
  <2> SUFFICES ASSUME NEW u \in Threads, Touches(u, x)' PROVE u = t
    BY <1>4
  <2>1. Located(u, x)'
    BY TouchPlaceNext DEF InHands
  <2>2. Shell(u)' = x /\ x # NoBox
    BY <2>1, BoxesAssumption DEF Located
  <2>3. Shell(t)' = x
    BY <1>2 DEF Shell, DropOps
  <2> QED
    BY <2>2, <2>3 DEF IInv, Owners
<1>7. Range(heap'[x].kids) = {}
  BY <1>4 DEF Range
<1> QED
  BY <1>1, <1>3, <1>4, <1>5, <1>6, <1>7, SharedNew

LEMMA DisposeShared ==
    ASSUME IInv, IInv', Shared, NEW t \in Threads, NEW b \in Boxes, b = run[t].box, Dispose(t)
    PROVE  Shared'
<1>1. CASE queue[t].on
  BY <1>1, DisposeLaterShared
<1>2. CASE ~queue[t].on
  <2>1. /\ run[t].op = "dispose" /\ queue' = queue /\ heap' = [heap EXCEPT ![b] = Unit(t)]
        /\ place' = [place EXCEPT ![b] = "husk"] /\ Drop(t, b, "idle") /\ UNCHANGED <<held, mail>>
    BY <1>2 DEF Dispose
  <2>2. TypeInv /\ Owners /\ place \in [Boxes -> Places]
    BY DEF IInv, TypeInv
  <2>3. place[b] = "dying"
    <3>1. Dying(t) = b /\ b # NoBox
      BY <2>1, BoxesAssumption DEF Dying
    <3> QED
      BY <3>1, <2>2 DEF Owners
  <2>4. place'[b] = "husk"
    BY <2>1, <2>2
  <2>5. Mine(t, b)
    <3>1. b \in InWork(t)
      BY <2>1, BoxesAssumption DEF InWork
    <3> QED
      BY <3>1 DEF Shared, Touches
  <2>6. /\ \A u \in Threads \ {t} : queue'[u] = queue[u]
        /\ Range(queue'[t].items) \subseteq Range(queue[t].items)
    BY <2>1
  <2> QED
    BY <2>1, <2>3, <2>4, <2>5, <2>6, HuskShared
<1> QED
  BY <1>1, <1>2

LEMMA DrainSharedOne ==
    ASSUME IInv, IInv', Shared, NEW t \in Threads, queue[t].items # <<>>, NEW b \in Boxes,
           b = Head(queue[t].items), Drain(t)
    PROVE  Shared'
<1> DEFINE s == queue[t].items
<1>1. /\ run[t].op = "drain" /\ queue' = [queue EXCEPT ![t].items = Tail(s)]
      /\ heap' = [heap EXCEPT ![b] = Unit(t)]
      /\ place' = [place EXCEPT ![b] = "husk"] /\ Drop(t, b, "drain") /\ UNCHANGED <<held, mail>>
  BY DEF Drain
<1>2. /\ TypeInv /\ Recycled /\ queue \in [Threads -> Queue] /\ place \in [Boxes -> Places]
      /\ s \in Items /\ s # <<>> /\ b = Head(s) /\ queue[t].items = s
  BY DEF IInv, TypeInv, Queue
<1> HIDE DEF s
<1>3. Tail(s) \in Items /\ Range(Tail(s)) \subseteq Range(s) /\ b \in Range(s)
  <2>1. Tail(s) \in Items
    BY <1>2, CountTail
  <2>2. s \in Seq(Boxes) /\ Len(s) \in Nat \ {0} /\ DOMAIN s = 1 .. Len(s) /\ s[1] = b
    BY <1>2 DEF Items
  <2>3. /\ DOMAIN Tail(s) = 1 .. Len(s) - 1
        /\ \A i \in 1 .. Len(s) - 1 : Tail(s)[i] = s[i + 1]
    BY <1>2, <2>2
  <2>4. \A i \in 1 .. Len(s) - 1 : i + 1 \in 1 .. Len(s)
    BY <2>2
  <2> QED
    BY <2>1, <2>2, <2>3, <2>4 DEF Range
<1>4. /\ queue'[t].items = Tail(s) /\ \A u \in Threads \ {t} : queue'[u] = queue[u]
  BY <1>1, <1>2, <1>3, QueueSet
<1>5. Touches(t, b) /\ Mine(t, b)
  BY <1>2, <1>3 DEF Touches, Shared
<1>6. place[b] = "queued"
  BY <1>2, <1>3, QueuedPlace
<1>7. place'[b] = "husk" /\ Range(queue'[t].items) \subseteq Range(queue[t].items)
  BY <1>1, <1>2, <1>3, <1>4
<1> QED
  BY <1>1, <1>4, <1>5, <1>6, <1>7, HuskShared

LEMMA DrainShared == ASSUME IInv, IInv', Shared, NEW t \in Threads, Drain(t) PROVE Shared'
<1>1. CASE queue[t].items = <<>>
  <2>1. /\ run' = [run EXCEPT ![t] = Idle] /\ UNCHANGED <<heap, held, mail, queue>>
    BY <1>1 DEF Drain
  <2>2. Runs
    BY TypeParts DEF IInv
  <2>3. (\A u \in Threads \ {t} : run'[u] = run[u]) /\ run'[t].op = "idle"
    BY <2>1, <2>2, StopEffect
  <2> QED
    BY <2>1, <2>3, SharedQuiet DEF BoxOps
<1>2. CASE queue[t].items # <<>>
  <2>1. queue[t].items \in Items
    BY DEF IInv, TypeInv, Queue
  <2>2. Head(queue[t].items) \in Boxes
    BY <2>1, <1>2, CountTail
  <2> QED
    BY <2>2, <1>2, DrainSharedOne
<1> QED
  BY <1>1, <1>2

\* A box leaves: its thread recycles it, with its items on the worklist if any.
LEMMA GoneShared ==
    ASSUME IInv, IInv', Shared, NEW t \in Threads, NEW x \in Boxes,
           place[x] \in {"dying", "husk"}, place'[x] \in {"pooled", "none"},
           heap'[x].kids = <<>>, heap'[x].owner = NoOwner,
           \A b \in Boxes \ {x} : heap'[b] = heap[b],
           UNCHANGED <<held, mail, queue>>, \A u \in Threads \ {t} : run'[u] = run[u],
           \A b \in InWork(t)' : b \in InWork(t) \/ Mine(t, b)
    PROVE  Shared'
<1>1. TypeInv /\ Counts
  BY DEF IInv
<1>2. Refs(x) = 0
  <2>1. Refs(x) \in Nat
    BY <1>1, TypeParts, RefsBound
  <2>2. ~(Refs(x) > 0)
    BY <1>1, Referenced
  <2> QED
    BY <2>1, <2>2
<1>3. \A b \in Boxes \ {x} : Same(heap[b], heap'[b])
  BY DEF Same
<1>4. ASSUME NEW u \in Threads, NEW b \in Boxes \ {x}, Touches(u, b)'
      PROVE  Touches(u, b) \/ Mine(u, b)
  <2>1. CASE u # t
    BY <2>1, <1>4 DEF Touches, Holds, InWork, Waiting
  <2>2. CASE u = t
    BY <2>2, <1>4 DEF Touches, Holds
  <2> QED
    BY <2>1, <2>2
<1>5. ASSUME NEW u \in Threads PROVE ~Touches(u, x)'
  <2>1. Touches(u, x)' => Located(u, x)'
    BY TouchPlaceNext DEF InHands
  <2> QED
    BY <2>1 DEF Located
<1>6. Range(heap'[x].kids) = {}
  BY DEF Range
<1> QED
  BY <1>1, <1>2, <1>3, <1>4, <1>5, <1>6, SharedNew

LEMMA ChildDiesShared ==
    ASSUME IInv, IInv', Shared, NEW t \in Threads, NEW c \in Boxes, c = Last(run[t].work),
           ChildDies(t)
    PROVE  Shared'
<1> DEFINE w == run[t].work
           k == heap[c].kids
           n == Front(w) \o k
<1>1. TypeInv /\ Owners /\ Recycled /\ Runs
  BY TypeParts DEF IInv
<1>2. /\ run[t].op = "child" /\ Recycle(t, c)
      /\ run' = [run EXCEPT ![t] = [run[t] EXCEPT !.op = "drop", !.work = n]]
      /\ heap' = [heap EXCEPT ![c] = Pooled(Unit(t))]
      /\ UNCHANGED <<held, mail, queue>>
  BY DEF ChildDies
<1>3. /\ heap \in [Boxes -> Value] /\ k \in Items
      /\ w \in Items /\ w # <<>> /\ run[t].box \in Boxes
  BY <1>1, <1>2, KidsType DEF TypeInv, Activity, Shape, BoxOps, ChildOps
<1>4. Front(w) \in Items /\ n \in Items /\ Range(Front(w)) \subseteq Range(w) /\ c \in Range(w)
  BY <1>3, FrontType, CountConcat
<1>5. ASSUME NEW y \in Range(n) PROVE y \in Range(w) \/ y \in Range(k)
  <2>1. Count(n, y) = Count(Front(w), y) + Count(k, y)
    BY <1>3, <1>4, CountConcat
  <2>2. Count(n, y) # 0
    BY <1>4, <1>5, AtFinite
  <2>3. Count(Front(w), y) # 0 \/ Count(k, y) # 0
    BY <2>1, <2>2
  <2>4. y \in Range(Front(w)) \/ y \in Range(k)
    BY <2>3, <1>3, <1>4, AtFinite
  <2> QED
    BY <2>4, <1>4
<1>6. Mine(t, c)
  <2>1. c \in InWork(t)
    BY <1>2, <1>4 DEF InWork
  <2> QED
    BY <2>1 DEF Touches, Shared
<1> HIDE DEF n
<1>7. /\ heap'[c].kids = <<>> /\ heap'[c].owner = NoOwner
      /\ \A y \in Boxes \ {c} : heap'[y] = heap[y]
  <2>1. Pooled(Unit(t)).kids = <<>> /\ Pooled(Unit(t)).owner = NoOwner
    BY DEF Pooled, Unit
  <2> QED
    BY <2>1, <1>2, <1>3
<1>8. place[c] = "dying"
  <2>1. Dying(t) = c /\ c # NoBox
    BY <1>2, BoxesAssumption DEF Dying
  <2> QED
    BY <2>1, <1>1 DEF Owners
<1>9. place'[c] \in {"pooled", "none"}
  BY <1>1, <1>2, <1>8, RecycleLists
<1>10. /\ \A u \in Threads \ {t} : run'[u] = run[u]
       /\ run'[t].op = "drop" /\ run'[t].box = run[t].box /\ run'[t].work = n
  <2>1. run[t].op \in DropOps /\ "drop" \in DropOps /\ "drop" \notin ChildOps
    BY <1>2 DEF DropOps, ChildOps
  <2> HIDE DEF w
  <2> QED
    BY <2>1, <1>1, <1>2, <1>4, WorkEffect
<1>11. \A y \in InWork(t)' : y \in InWork(t) \/ Mine(t, y)
  <2> SUFFICES ASSUME NEW y \in InWork(t)' PROVE y \in InWork(t) \/ Mine(t, y)
    OBVIOUS
  <2>1. y \in {run[t].box} \ {NoBox} \/ y \in Range(n)
    BY <1>10 DEF InWork
  <2>2. y \in {run[t].box} \ {NoBox} \/ y \in Range(w) => y \in InWork(t)
    BY <1>2 DEF InWork
  <2>3. y \in Range(k) => Mine(t, y)
    BY <1>1, <1>6, KidsMine
  <2> QED
    BY <2>1, <2>2, <2>3, <1>5
<1> QED
  BY <1>2, <1>7, <1>8, <1>9, <1>10, <1>11, GoneShared

LEMMA DroppedShared ==
    ASSUME IInv, IInv', Shared, NEW t \in Threads, NEW b \in Boxes, b = run[t].box, Dropped(t)
    PROVE  Shared'
<1>1. TypeInv /\ Counts /\ Owners /\ Recycled /\ Runs
  BY TypeParts DEF IInv
<1>2. /\ run[t].op = "drop" /\ run[t].work = <<>> /\ heap' = [heap EXCEPT ![b] = Pooled(heap[b])]
      /\ Recycle(t, b) /\ run' = [run EXCEPT ![t] = [Idle EXCEPT !.op = run[t].then]]
      /\ UNCHANGED <<held, mail, queue>>
  BY DEF Dropped
<1>3. heap \in [Boxes -> Value] /\ run \in [Threads -> Activity]
  BY <1>1 DEF TypeInv
<1>4. place[b] = "husk" /\ heap[b].kids = <<>>
  <2>1. Shell(t) = b /\ b # NoBox
    BY <1>2, BoxesAssumption DEF Shell, DropOps
  <2>2. place[b] = "husk"
    BY <2>1, <1>1 DEF Owners
  <2> QED
    BY <2>2, <1>1 DEF Counts, Counted
<1>5. /\ heap'[b].kids = <<>> /\ heap'[b].owner = NoOwner
      /\ \A y \in Boxes \ {b} : heap'[y] = heap[y]
  <2>1. heap[b] \in Value
    BY <1>3
  <2>2. Pooled(heap[b]).kids = heap[b].kids /\ Pooled(heap[b]).owner = NoOwner
    BY <2>1 DEF Pooled, Value
  <2> QED
    BY <2>2, <1>2, <1>3, <1>4
<1>6. place'[b] \in {"pooled", "none"}
  BY <1>1, <1>2, <1>4, RecycleLists
<1>7. /\ \A u \in Threads \ {t} : run'[u] = run[u]
      /\ run'[t].op \in {"idle", "drain"}
  <2> DEFINE a == [Idle EXCEPT !.op = run[t].then]
  <2>1. a.op = run[t].then /\ run[t].then \in {"idle", "drain"}
    BY <1>3 DEF Idle, Activity
  <2> HIDE DEF a
  <2> QED
    BY <2>1, <1>2, <1>3 DEF a
<1>8. InWork(t)' = {}
  BY <1>7, HandsEmptyNext DEF EmptyHanded, BoxOps
<1> QED
  BY <1>2, <1>4, <1>5, <1>6, <1>7, <1>8, GoneShared

LEMMA InitialShared == Init => Shared
<1> SUFFICES ASSUME Init PROVE Shared
  OBVIOUS
<1>1. ASSUME NEW b \in Boxes
      PROVE  heap[b].kids = <<>> /\ heap[b].frozen = FALSE /\ heap[b].owner = NoOwner
  BY DEF Init, Pooled, Unit
<1>2. ASSUME NEW b \in Boxes PROVE Range(heap[b].kids) = {}
  <2>1. heap[b].kids = <<>>
    BY <1>1
  <2> QED
    BY <2>1 DEF Range
<1>3. \A b \in Boxes : Sound(b)
  BY <1>1, <1>2 DEF Sound
<1>4. ASSUME NEW t \in Threads, NEW b \in Boxes PROVE ~Touches(t, b)
  <2>1. ~Holds(t, b)
    BY DEF Init, Holds
  <2>2. run[t].op = "idle" /\ run[t].work = <<>> /\ run[t].box = NoBox
    BY DEF Init, Idle
  <2>3. queue[t].items = <<>>
    BY DEF Init
  <2>4. InWork(t) = {} /\ Range(queue[t].items) = {}
    BY <2>2, <2>3 DEF Range, InWork
  <2> QED
    BY <2>1, <2>4 DEF Touches
<1>5. Range(mail) = {}
  BY DEF Init, Range
<1> QED
  BY <1>3, <1>4, <1>5 DEF Shared

LEMMA SharedStep ==
    ASSUME IInv, IInv', Shared, "leaked" \notin amiss', [Next]_vars PROVE Shared'
<1>1. ASSUME NEW t \in Makers, NEW b \in Boxes, NEW kind \in Kinds, NEW items \in ItemLists(b),
             Make(t, b, kind, items)
      PROVE  Shared'
  BY <1>1, MakeShared
<1>2. ASSUME NEW t \in Makers, Collect(t) PROVE Shared'
  BY <1>2, CollectShared, ThreadsAssumption
<1>3. ASSUME NEW t \in Threads, Calls(t) PROVE Shared'
  BY <1>3, RetainShared, SendShared, SendRefusedShared, ReleaseShared, PushShared, GetItemShared,
     QueueInitShared, QueueFlushShared, CycleFlushShared DEF Calls
<1>4. ASSUME NEW t \in Threads, Releasing(t) PROVE Shared'
  <2>1. /\ Dispose(t) \/ Dropped(t) => run[t].box \in Boxes
        /\ ChildDies(t) => Last(run[t].work) \in Boxes
    <3>1. run[t].op \in {"dispose", "drop"} => run[t].box \in Boxes
      BY DEF IInv, TypeInv, Shape, BoxOps
    <3>2. run[t].op = "child" => run[t].work \in Items /\ run[t].work # <<>>
      BY DEF IInv, TypeInv, Activity, Shape, ChildOps
    <3>3. run[t].op = "child" => Last(run[t].work) \in Boxes
      BY <3>2, FrontType
    <3> QED
      BY <3>1, <3>3 DEF Dispose, Dropped, ChildDies
  <2> QED
    BY <2>1, <1>4, DecrementShared, RootShared, NotifyShared, DisposeShared, DropChildShared,
       ChildRootShared, ChildDiesShared, DroppedShared, DrainShared DEF Releasing
<1>5. ASSUME NEW t \in Threads, CollectSteps(t) PROVE Shared'
  BY <1>5, CollectStepsShared
<1>6. CASE Receive
  BY <1>6, ReceiveShared
<1>7. CASE UNCHANGED vars
  <2>1. \A b \in Boxes : Sound(b)' = Sound(b)
    BY <1>7 DEF vars, Sound, Mine
  <2>2. \A t \in Threads, b \in Boxes :
          (Touches(t, b)' <=> Touches(t, b)) /\ (Mine(t, b)' <=> Mine(t, b))
    BY <1>7 DEF vars, Touches, Mine, Holds, InWork, Waiting
  <2> QED
    BY <2>1, <2>2, <1>7 DEF vars, Shared
<1> QED
  BY <1>1, <1>2, <1>3, <1>4, <1>5, <1>6, <1>7 DEF Next

\* All that a thread reaches is its own, for Mine passes on to the items.
LEMMA SeenMine ==
    ASSUME IInv, Shared, NEW t \in Threads, NEW b \in Seen(t) PROVE b \in Boxes /\ Mine(t, b)
<1> DEFINE s == {x \in Boxes : Mine(t, x)}
           start == {x \in Boxes : Holds(t, x)} \cup InWork(t)
                      \cup (IF t = Receiver THEN Range(mail) ELSE {})
<1>1. TypeInv /\ \A x \in Boxes : Range(heap[x].kids) \subseteq Boxes
  BY KidsType DEF IInv, TypeInv
<1>2. /\ run[t].work \in Items /\ run[t].box \in Boxes \cup {NoBox} /\ mail \in Items
  BY <1>1 DEF TypeInv, Activity
<1>3. \A x \in InWork(t) : x \in Boxes
  <2>1. Range(run[t].work) \subseteq Boxes
    BY <1>2 DEF Items, Range
  <2>2. ASSUME run[t].op = "childroot" PROVE Range(Waiting(t)) \subseteq Boxes
    <3>1. run[t].work # <<>>
      BY <2>2, <1>1 DEF TypeInv, Shape, ChildOps
    <3> QED
      BY <3>1, <2>1, <2>2, <1>2, FrontType DEF Waiting
  <2>3. run[t].op = "childroot" => run[t].box \in Boxes
    BY <1>1 DEF TypeInv, Shape, BoxOps
  <2> QED
    BY <2>1, <2>2, <2>3, <1>2 DEF InWork
<1>4. \A x \in Range(mail) : x \in Boxes
  BY <1>2 DEF Items, Range
<1>5. start \subseteq s
  <2> SUFFICES ASSUME NEW x \in start PROVE x \in Boxes /\ Mine(t, x)
    OBVIOUS
  <2>1. CASE x \in Range(mail)
    BY <2>1, <1>4 DEF Shared, Mine
  <2>2. CASE x \notin Range(mail)
    <3>1. x \in Boxes /\ Touches(t, x)
      BY <2>2, <1>3 DEF Touches
    <3> QED
      BY <3>1 DEF Shared
  <2> QED
    BY <2>1, <2>2
<1>6. \A x \in s : Range(heap[x].kids) \subseteq s
  BY <1>1, KidsMine
<1>7. ASSUME NEW x \in s PROVE Reach(heap, x) \subseteq s
  <2> DEFINE next == [y \in Boxes |-> Range(heap[y].kids)]
  <2>1. \A y \in s : next[y] \subseteq s
    BY <1>6
  <2>2. {x} \subseteq s /\ s \in SUBSET Boxes /\ Reach(heap, x) = Closure({x}, next)
    BY DEF Reach
  <2> HIDE DEF s, next
  <2> QED
    BY <2>1, <2>2, ClosureLeast
<1>8. PICK x \in start : b \in Reach(heap, x)
  BY DEF Seen
<1>9. b \in s
  BY <1>5, <1>7, <1>8
<1> QED
  BY <1>9

(***************************************************************************)
(* No two threads reach a value that is not frozen, as long as every       *)
(* message was one freeze_value gets through (lists and maps of atoms):    *)
(* a frozen list takes no further item, and a box that a thread has given  *)
(* up is not in its hands, so that the non-atomic counts of rc_ops.rs are  *)
(* used by one thread only.                                                *)
(***************************************************************************)
THEOREM FrozenCorrect == Spec => []SharedFrozen
<1> DEFINE Inv == Undisturbed => IInv /\ Shared
<1>1. Inv => SharedFrozen
  <2> SUFFICES ASSUME IInv, Shared, NEW t \in Threads, NEW u \in Threads, t # u,
                      NEW b \in Seen(t) \cap Seen(u)
               PROVE  heap[b].frozen /\ heap[b].owner = NoOwner
    BY DEF SharedFrozen
  <2>1. b \in Boxes /\ Mine(t, b) /\ Mine(u, b)
    BY SeenMine
  <2>2. heap[b].frozen
    BY <2>1 DEF Mine
  <2> QED
    BY <2>1, <2>2 DEF Shared, Sound
<1>2. Init => Inv
  BY Initial, InitialShared
<1>3. Inv /\ [Next]_vars => Inv'
  <2> SUFFICES ASSUME Inv, [Next]_vars, Undisturbed' PROVE IInv' /\ Shared'
    OBVIOUS
  <2>1. Undisturbed /\ "claimed" \notin amiss' /\ "leaked" \notin amiss'
    BY AmissKept DEF Undisturbed
  <2>2. IInv /\ Shared
    BY <2>1
  <2>3. IInv'
    BY <2>1, <2>2, Inductive
  <2> QED
    BY <2>1, <2>2, <2>3, SharedStep
<1> QED
  BY <1>1, <1>2, <1>3, PTL DEF Spec

(***************************************************************************)
(* What a collection takes for garbage when no other thread drops a value  *)
(* while it marks and scans.                                               *)
(***************************************************************************)

\* The box a thread has released and not yet made the detector forget.
Leaving(b) == \E t \in Threads : run[t].op \in {"notify", "child"} /\ Dying(t) = b

\* What is gray is live, or was released afterwards and is about to be
\* forgotten; nothing is white.
Marked ==
    \A b \in DOMAIN det.info :
        /\ det.info[b] # "white"
        /\ det.info[b] = "gray" => place[b] = "live" \/ Leaving(b)

LEMMA MarkedStep ==
    ASSUME Marked, NEW t \in Threads, \A u \in Threads \ {t} : run'[u] = run[u],
           Paler(det.info, det'.info),
           \A b \in Boxes : place[b] = "live" =>
               \/ place'[b] = "live" \/ b \notin DOMAIN det'.info
               \/ run'[t].op \in {"notify", "child"} /\ Dying(t)' = b,
           run[t].op \in {"notify", "child"} => Dying(t) \notin DOMAIN det'.info
    PROVE  Marked'
<1>1. \A u \in Threads \ {t} : Dying(u)' = Dying(u)
  BY DEF Dying
<1>2. DOMAIN det'.info \subseteq Boxes
  BY InfoType DEF Paler
<1> SUFFICES ASSUME NEW b \in DOMAIN det'.info
             PROVE  /\ det'.info[b] # "white"
                    /\ det'.info[b] = "gray" => place'[b] = "live" \/ Leaving(b)'
  BY DEF Marked
<1>3. det'.info[b] # "white"
  BY DEF Paler, Marked
<1>4. ASSUME det'.info[b] = "gray" PROVE place'[b] = "live" \/ Leaving(b)'
  <2>1. b \in DOMAIN det.info /\ det.info[b] = "gray"
    BY <1>4 DEF Paler
  <2>2. place[b] = "live" \/ Leaving(b)
    BY <2>1 DEF Marked
  <2>3. CASE place[b] = "live"
    BY <2>3, <1>2 DEF Leaving
  <2>4. CASE Leaving(b)
    <3>1. PICK u \in Threads : run[u].op \in {"notify", "child"} /\ Dying(u) = b
      BY <2>4 DEF Leaving
    <3>2. u # t
      BY <3>1
    <3> QED
      BY <3>1, <3>2, <1>1 DEF Leaving
  <2> QED
    BY <2>2, <2>3, <2>4
<1> QED
  BY <1>3, <1>4

\* A step that moves no box.
LEMMA MarkedStill ==
    ASSUME Marked, NEW t \in Threads, \A u \in Threads \ {t} : run'[u] = run[u], place' = place,
           Paler(det.info, det'.info), run[t].op \notin {"notify", "child"}
    PROVE  Marked'
  BY MarkedStep

\* A step that changes nothing of the detector's but one box's place.
LEMMA MarkedMove ==
    ASSUME IInv, Marked, NEW t \in Threads, \A u \in Threads \ {t} : run'[u] = run[u],
           det' = det, run[t].op \notin {"notify", "child"}, NEW b \in Boxes, NEW to,
           place' = [place EXCEPT ![b] = to],
           \/ place[b] # "live" \/ to = "live"
           \/ run'[t].op \in {"notify", "child"} /\ Dying(t)' = b
    PROVE  Marked'
<1>1. Paler(det.info, det'.info)
  BY DetectorParts, PalerSame
<1>2. \A x \in Boxes : place'[x] = IF x = b THEN to ELSE place[x]
  BY DEF IInv, TypeInv
<1> QED
  BY <1>1, <1>2, MarkedStep

LEMMA CallsMarked ==
    ASSUME IInv, Marked, NEW t \in Threads, Calls(t) \/ Collect(t) PROVE Marked'
<1>1. Runs /\ det.info \in Infos /\ det \in Detector /\ heap \in [Boxes -> Value]
      /\ localRoots[t] \in Items
  BY DetectorParts
<1>2. run[t].op = "idle" /\ place' = place /\ \A u \in Threads \ {t} : run'[u] = run[u]
  BY <1>1 DEF Calls, Collect, Retain, Send, SendRefused, Release, Push, GetItem, QueueInit,
     QueueFlush, CycleFlush, Call, Enter, Runs
<1>3. det' = det \/ det' = Flushed(det, localRoots[t])
  BY DEF Calls, Collect, Retain, Send, SendRefused, Release, Push, GetItem, QueueInit,
     QueueFlush, CycleFlush
<1>4. Paler(det.info, det'.info)
  BY <1>1, <1>3, FlushedEffect, PalerSame
<1> QED
  BY <1>2, <1>4, MarkedStill

LEMMA ReceiveMarked == ASSUME IInv, Marked, Receive PROVE Marked'
<1>1. /\ det' = det /\ place' = place /\ run' = run /\ Receiver \in Threads
      /\ run[Receiver].op = "idle"
  BY ThreadsAssumption DEF Receive, Call
<1>2. Paler(det.info, det'.info)
  BY <1>1, DetectorParts, PalerSame
<1> QED
  BY <1>1, <1>2, MarkedStill

LEMMA MakeMarked ==
    ASSUME IInv, Marked, NEW t \in Makers, NEW b \in Boxes, NEW kind \in Kinds,
           NEW items \in ItemLists(b), Make(t, b, kind, items)
    PROVE  Marked'
<1>1. /\ run[t].op = "idle" /\ run' = run /\ det' = det /\ t \in Threads
      /\ place' = [place EXCEPT ![b] = "live"]
  BY ThreadsAssumption DEF Make, Call
<1> QED
  BY <1>1, MarkedMove

\* A count goes down, for the last time or not.
LEMMA DecrementMarked ==
    ASSUME IInv, Marked, NEW t \in Threads, Decrement(t) PROVE Marked'
<1> DEFINE b == run[t].box
<1>1. Runs /\ run[t].op = "release" /\ b \in Boxes /\ det' = det /\ det.info \in Infos
  BY TypeParts, DetectorParts DEF Decrement, IInv, TypeInv, Shape, BoxOps
<1>2. \A u \in Threads \ {t} : run'[u] = run[u]
  BY <1>1 DEF Decrement, Enter, Runs
<1>3. \/ place' = place
      \/ place' = [place EXCEPT ![b] = "dying"] /\ Enter(t, "notify", b)
  BY DEF Decrement
<1>4. CASE place' = place
  BY <1>1, <1>2, <1>4, PalerSame, MarkedStill
<1>5. CASE place' = [place EXCEPT ![b] = "dying"] /\ Enter(t, "notify", b)
  <2>1. run'[t].op = "notify" /\ run'[t].box = b
    BY <1>1, <1>5 DEF Enter, Idle, Runs
  <2>2. Dying(t)' = b
    BY <2>1 DEF Dying
  <2> HIDE DEF b
  <2> QED
    BY <2>1, <2>2, <1>1, <1>2, <1>5, MarkedMove
<1> QED
  BY <1>3, <1>4, <1>5

LEMMA DropChildMarked ==
    ASSUME IInv, Marked, NEW t \in Threads, DropChild(t) PROVE Marked'
<1> DEFINE c == Last(run[t].work)
<1>1. /\ Runs /\ run[t].op = "drop" /\ det' = det /\ det.info \in Infos /\ run[t] \in Activity
      /\ run[t].work # <<>>
  BY TypeParts, DetectorParts DEF DropChild, IInv, TypeInv
<1>2. c \in Boxes
  BY <1>1, FrontType DEF Activity
<1>3. \A u \in Threads \ {t} : run'[u] = run[u]
  BY <1>1 DEF DropChild, Runs
<1>4. \/ place' = place
      \/ place' = [place EXCEPT ![c] = "dying"] /\ run' = [run EXCEPT ![t].op = "child"]
  BY DEF DropChild
<1>5. CASE place' = place
  BY <1>1, <1>3, <1>5, PalerSame, MarkedStill
<1>6. CASE place' = [place EXCEPT ![c] = "dying"] /\ run' = [run EXCEPT ![t].op = "child"]
  <2>1. run'[t].op = "child" /\ run'[t].work = run[t].work
    BY <1>1, <1>6 DEF Runs, Activity
  <2>2. Dying(t)' = c
    BY <2>1 DEF Dying
  <2> HIDE DEF c
  <2> QED
    BY <2>1, <2>2, <1>1, <1>2, <1>3, <1>6, MarkedMove
<1> QED
  BY <1>4, <1>5, <1>6

\* possible_root leaves no box gray that was not.
LEMMA RootsMarked ==
    ASSUME IInv, Marked, NEW t \in Threads, Root(t) \/ ChildRoot(t) PROVE Marked'
<1>1. /\ Roots /\ Runs /\ run[t] \in Activity /\ Shape(run[t])
      /\ run[t].op \in {"root", "childroot"} /\ place' = place
  BY DetectorParts DEF Root, ChildRoot, Roots, IInv, TypeInv
<1>2. \A u \in Threads \ {t} : run'[u] = run[u]
  BY <1>1 DEF Root, ChildRoot, Enter, Runs
<1>3. \E b \in Boxes : PossibleRoot(t, b)
  <2>1. CASE Root(t)
    BY <2>1, <1>1 DEF Root, Shape, BoxOps
  <2>2. CASE ChildRoot(t)
    <3>1. run[t].work \in Items /\ run[t].work # <<>>
      BY <2>2, <1>1 DEF ChildRoot, Activity, Shape, ChildOps
    <3> QED
      BY <3>1, <2>2, FrontType DEF ChildRoot
  <2> QED
    BY <2>1, <2>2
<1>4. Paler(det.info, det'.info)
  BY <1>1, <1>3, PossibleRootEffect
<1> QED
  BY <1>1, <1>2, <1>4, MarkedStill

LEMMA NotifyMarked ==
    ASSUME IInv, Marked, NEW t \in Threads, Notify(t) PROVE Marked'
<1>1. /\ Runs /\ det \in Detector /\ run[t].op = "notify" /\ det' = Forget(det, run[t].box)
      /\ place' = place /\ Enter(t, "dispose", run[t].box)
  BY DetectorParts DEF Notify
<1>2. \A u \in Threads \ {t} : run'[u] = run[u]
  BY <1>1 DEF Enter, Runs
<1>3. Dying(t) = run[t].box
  BY <1>1 DEF Dying
<1>4. Paler(det.info, det'.info) /\ Dying(t) \notin DOMAIN det'.info
  BY <1>1, <1>3, ForgetEffect
<1> QED
  BY <1>1, <1>2, <1>4, MarkedStep

LEMMA DisposeMarked ==
    ASSUME IInv, Marked, NEW t \in Threads, Dispose(t) PROVE Marked'
<1> DEFINE b == run[t].box
<1>1. /\ Runs /\ run[t].op = "dispose" /\ b \in Boxes /\ det' = det
      /\ \E to : place' = [place EXCEPT ![b] = to]
  BY DetectorParts DEF Dispose, IInv, TypeInv, Shape, BoxOps
<1>2. \A u \in Threads \ {t} : run'[u] = run[u]
  BY <1>1 DEF Dispose, Drop, Runs
<1>3. place[b] # "live"
  <2>1. Dying(t) = b /\ b # NoBox
    BY <1>1, BoxesAssumption DEF Dying
  <2> QED
    BY <2>1 DEF IInv, Owners
<1> HIDE DEF b
<1> QED
  BY <1>1, <1>2, <1>3, MarkedMove

LEMMA ChildDiesMarked ==
    ASSUME IInv, Marked, NEW t \in Threads, ChildDies(t) PROVE Marked'
<1> DEFINE c == Last(run[t].work)
<1>1. /\ Runs /\ det \in Detector /\ run[t].op = "child" /\ det' = Forget(det, c)
      /\ \E to : place' = [place EXCEPT ![c] = to]
  BY DetectorParts DEF ChildDies, Recycle
<1>2. \A u \in Threads \ {t} : run'[u] = run[u]
  BY <1>1 DEF ChildDies, Runs
<1>3. Dying(t) = c
  BY <1>1 DEF Dying
<1>4. Paler(det.info, det'.info) /\ c \notin DOMAIN det'.info
  BY <1>1, ForgetEffect
<1>5. \A x \in Boxes : x # c => place'[x] = place[x]
  BY <1>1 DEF IInv, TypeInv
<1> HIDE DEF c
<1> QED
  BY <1>1, <1>2, <1>3, <1>4, <1>5, MarkedStep

LEMMA DroppedMarked ==
    ASSUME IInv, Marked, NEW t \in Threads, Dropped(t) PROVE Marked'
<1> DEFINE b == run[t].box
<1>1. /\ Runs /\ run[t].op = "drop" /\ b \in Boxes /\ det' = det
      /\ \E to : place' = [place EXCEPT ![b] = to]
  BY DetectorParts DEF Dropped, Recycle, IInv, TypeInv, Shape, BoxOps
<1>2. \A u \in Threads \ {t} : run'[u] = run[u]
  BY <1>1 DEF Dropped, Runs
<1>3. place[b] # "live"
  <2>1. Shell(t) = b /\ b # NoBox
    BY <1>1, BoxesAssumption DEF Shell, DropOps
  <2> QED
    BY <2>1 DEF IInv, Owners
<1> HIDE DEF b
<1> QED
  BY <1>1, <1>2, <1>3, MarkedMove

LEMMA DrainMarked ==
    ASSUME IInv, Marked, NEW t \in Threads, Drain(t) PROVE Marked'
<1>1. /\ Runs /\ run[t].op = "drain" /\ det' = det /\ det.info \in Infos
      /\ queue[t].items \in Items
  BY DetectorParts DEF Drain, IInv, TypeInv, Queue
<1>2. \A u \in Threads \ {t} : run'[u] = run[u]
  BY <1>1 DEF Drain, Drop, Runs
<1>3. CASE queue[t].items = <<>>
  <2>1. place' = place
    BY <1>3 DEF Drain
  <2> QED
    BY <2>1, <1>1, <1>2, PalerSame, MarkedStill
<1>4. CASE queue[t].items # <<>>
  <2> DEFINE b == Head(queue[t].items)
  <2>1. b \in Boxes /\ b \in Range(queue[t].items)
    BY <1>1, <1>4, CountTail
  <2>2. place[b] = "queued" /\ place' = [place EXCEPT ![b] = "husk"]
    BY <2>1, <1>4, QueuedPlace DEF Drain
  <2> HIDE DEF b
  <2> QED
    BY <2>1, <2>2, <1>1, <1>2, MarkedMove
<1> QED
  BY <1>3, <1>4

\* No box is dropped while another is marked, so that what has a count is live,
\* with all it refers to.
LEMMA MarkMarked ==
    ASSUME IInv, Marked, Alone, NEW t \in Threads, Mark(t) PROVE Marked'
<1>1. /\ Runs /\ run[t].op = "mark" /\ place' = place /\ heap \in [Boxes -> Value]
      /\ det \in Detector /\ det.info \in Infos /\ run[t].todo \in SUBSET Boxes
  BY DetectorParts DEF Mark
<1>2. \A u \in Threads \ {t} : run'[u] = run[u]
  BY <1>1 DEF Mark, Phase, Runs
<1>3. CASE run[t].todo = {}
  <2>1. det' = det
    BY <1>3 DEF Mark
  <2> QED
    BY <2>1, <1>1, <1>2, PalerSame, MarkedStill
<1>4. CASE run[t].todo # {}
  <2>1. PICK b \in run[t].todo : det' = MarkRoot(det, b)
    BY <1>4 DEF Mark
  <2>2. b \in Boxes
    BY <2>1, <1>1
  <2>3. \/ Paler(det.info, det'.info)
        \/ heap[b].rc > 0 /\ det'.info = MarkGray(det.info, b)
    BY <2>1, <2>2, <1>1, MarkRootEffect
  <2>4. CASE Paler(det.info, det'.info)
    BY <2>4, <1>1, <1>2, MarkedStill
  <2>5. CASE heap[b].rc > 0 /\ det'.info = MarkGray(det.info, b)
    <3> DEFINE live == {x \in Boxes : place[x] = "live"}
    <3>1. b \in live
      <4>1. place[b] # "husk"
        <5>1. \A u \in Threads : Shell(u) = NoBox
          BY <1>1 DEF Alone, Marking, Dropping, Shell, DropOps
        <5> QED
          BY <5>1, <2>2, BoxesAssumption DEF IInv, Owners
      <4>2. place[b] \notin {"live", "husk"} => heap[b].rc = 0
        BY <2>2 DEF IInv, Counts, Counted
      <4> QED
        BY <4>1, <4>2, <2>2, <2>5
    <3>2. \A x \in live : Range(heap[x].kids) \subseteq live
      <4> SUFFICES ASSUME NEW x \in live, NEW c \in Range(heap[x].kids) PROVE c \in live
        OBVIOUS
      <4>1. c \in Boxes
        BY <1>1, KidsType
      <4> QED
        BY <4>1, ItemIsLive DEF IInv
    <3>3. live \in SUBSET Boxes /\ \A x \in live : place[x] = "live"
      OBVIOUS
    <3>4. \A x \in DOMAIN det'.info :
            x \in live \/ (x \in DOMAIN det.info /\ det'.info[x] = det.info[x])
      <4> HIDE DEF live
      <4> QED
        BY <3>1, <3>2, <3>3, <2>2, <2>5, <1>1, MarkGrayEffect
    <3>5. \A x \in DOMAIN det'.info :
            \/ det'.info[x] = "gray"
            \/ x \in DOMAIN det.info /\ det'.info[x] = det.info[x]
      BY <2>5 DEF MarkGray, Paint
    <3>6. \A x : Leaving(x)' <=> Leaving(x)
      <4>1. \A u \in Threads : /\ run[u].op \notin {"notify", "child"}
                               /\ run'[u].op \notin {"notify", "child"}
        <5>1. run'[t].op \in {"scan", "mark"}
          BY <1>1 DEF Mark, Phase, Idle, Runs
        <5> QED
          BY <5>1, <1>1, <1>2 DEF Alone, Marking, Dropping
      <4> QED
        BY <4>1 DEF Leaving
    <3> HIDE DEF live
    <3> QED
      BY <3>3, <3>4, <3>5, <3>6, <1>1 DEF Marked
  <2> QED
    BY <2>3, <2>4, <2>5
<1> QED
  BY <1>3, <1>4

\* A gray box has a count when it is scanned.
LEMMA ScanMarked ==
    ASSUME IInv, Marked, Alone, NEW t \in Threads, Scan(t) PROVE Marked'
<1>1. /\ Runs /\ run[t].op = "scan" /\ place' = place /\ det.info \in Infos
      /\ run[t].todo \in SUBSET Boxes
  BY DetectorParts DEF Scan
<1>2. \A u \in Threads \ {t} : run'[u] = run[u]
  BY <1>1 DEF Scan, Phase, Runs
<1>3. ASSUME NEW b \in Boxes, Coloured(b, "gray") PROVE heap[b].rc > 0
  <2>1. \A u \in Threads : run[u].op \notin {"notify", "child"}
    BY <1>1 DEF Alone, Marking, Dropping
  <2>2. place[b] = "live"
    BY <2>1, <1>3 DEF Marked, Leaving, Coloured
  <2> QED
    BY <2>2 DEF IInv, Counts, Counted
<1>4. det' = det
  BY <1>1, <1>3 DEF Scan
<1> QED
  BY <1>1, <1>2, <1>4, PalerSame, MarkedStill

LEMMA ScanBlackMarked ==
    ASSUME IInv, Marked, NEW t \in Threads, ScanBlack(t) PROVE Marked'
<1>1. /\ Runs /\ run[t].op = "scan" /\ place' = place /\ det \in Detector /\ det.info \in Infos
      /\ run[t].black \in SUBSET Boxes
  BY DetectorParts DEF ScanBlack
<1>2. \A u \in Threads \ {t} : run'[u] = run[u]
  BY <1>1 DEF ScanBlack, Runs
<1>3. PICK b \in Boxes : det' = [det EXCEPT !.info = Paint(det.info, {b}, "black")]
  BY <1>1 DEF ScanBlack
<1>4. /\ det' \in Detector /\ det'.info[b] = "black"
      /\ DOMAIN det'.info = DOMAIN det.info \cup {b}
      /\ \A x \in DOMAIN det.info \ {b} : det'.info[x] = det.info[x]
  <2>1. "black" \in Colours
    BY DEF Colours
  <2> QED
    BY <2>1, <1>3, PaintOne
<1>5. Paler(det.info, det'.info)
  BY <1>4 DEF Paler, Detector
<1> QED
  BY <1>1, <1>2, <1>5, MarkedStill

\* The other steps of a collection change no colour but to purple.
LEMMA CollectMarked ==
    ASSUME IInv, Marked, NEW t \in Threads,
           \/ FlushRoots(t) \/ CollectBegin(t) \/ CopyRoots(t) \/ Scanned(t)
           \/ CollectRoots(t) \/ CollectWhite(t) \/ Promote(t)
    PROVE  Marked'
<1>1. /\ Runs /\ det \in Detector /\ det.info \in Infos /\ heap \in [Boxes -> Value]
      /\ localRoots[t] \in Items /\ (run[t].op = "free" => run[t].todo = {})
  BY DetectorParts DEF IInv, TypeInv, Shape
<1>2. run[t].op \in CollectOps /\ place' = place
  BY <1>1 DEF FlushRoots, CollectBegin, CopyRoots, Scanned, CollectRoots, CollectWhite, Promote,
     CollectOps
<1>3. \A u \in Threads \ {t} : run'[u] = run[u]
  BY <1>1 DEF FlushRoots, CollectBegin, CopyRoots, Scanned, CollectRoots, CollectWhite, Promote,
     Phase, Enter, Runs
<1>4. det' = Flushed(det, localRoots[t]) \/ det'.info = det.info
  <2>1. CASE FlushRoots(t)
    BY <2>1 DEF FlushRoots
  <2>2. CASE CollectBegin(t)
    BY <2>2, <1>1 DEF CollectBegin, Detector
  <2>3. CASE CollectRoots(t)
    BY <2>3, <1>1 DEF CollectRoots, Detector
  <2>4. CASE Promote(t)
    BY <2>4, <1>1 DEF Promote, Detector
  <2>5. CASE CopyRoots(t) \/ Scanned(t) \/ CollectWhite(t)
    BY <2>5, <1>1 DEF CopyRoots, Scanned, CollectWhite
  <2> QED
    BY <2>1, <2>2, <2>3, <2>4, <2>5
<1>5. Paler(det.info, det'.info)
  BY <1>1, <1>4, FlushedEffect, PalerSame
<1>6. run[t].op \notin {"notify", "child"}
  BY <1>2 DEF CollectOps
<1> QED
  BY <1>2, <1>3, <1>5, <1>6, MarkedStill

LEMMA MarkedKept ==
    ASSUME IInv, Marked, Alone, [Next]_vars PROVE Marked'
<1>1. ASSUME NEW t \in Makers, NEW b \in Boxes, NEW kind \in Kinds, NEW items \in ItemLists(b),
             Make(t, b, kind, items)
      PROVE  Marked'
  BY <1>1, MakeMarked
<1>2. ASSUME NEW t \in Makers, Collect(t) PROVE Marked'
  BY <1>2, CallsMarked, ThreadsAssumption
<1>3. ASSUME NEW t \in Threads, Calls(t) PROVE Marked'
  BY <1>3, CallsMarked
<1>4. ASSUME NEW t \in Threads, Releasing(t) PROVE Marked'
  BY <1>4, DecrementMarked, RootsMarked, NotifyMarked, DisposeMarked, DropChildMarked,
     ChildDiesMarked, DroppedMarked, DrainMarked DEF Releasing
<1>5. ASSUME NEW t \in Threads, CollectSteps(t) PROVE Marked'
  BY <1>5, MarkMarked, ScanMarked, ScanBlackMarked, CollectMarked DEF CollectSteps
<1>6. CASE Receive
  BY <1>6, ReceiveMarked
<1>7. CASE UNCHANGED vars
  BY <1>7 DEF vars, Marked, Leaving, Dying
<1> QED
  BY <1>1, <1>2, <1>3, <1>4, <1>5, <1>6, <1>7 DEF Next

\* Nothing is white, and nothing is claimed.
LEMMA StaysUnclaimed ==
    ASSUME Marked, "claimed" \notin amiss, [Next]_vars PROVE "claimed" \notin amiss'
<1>1. ASSUME NEW b \in Boxes, Leak(b) PROVE "claimed" \notin amiss'
  BY <1>1 DEF Leak
<1>2. ASSUME NEW t \in Makers, NEW b \in Boxes, NEW kind \in Kinds, NEW items \in ItemLists(b),
             Make(t, b, kind, items)
      PROVE  "claimed" \notin amiss'
  BY <1>2 DEF Make
<1>3. ASSUME NEW t \in Makers, Collect(t) PROVE "claimed" \notin amiss'
  BY <1>3 DEF Collect
<1>4. ASSUME NEW t \in Threads, NEW b \in Boxes,
             Retain(t, b) \/ Send(t, b) \/ SendRefused(t, b) \/ Release(t, b)
      PROVE  "claimed" \notin amiss'
  BY <1>1, <1>4 DEF Retain, Send, SendRefused, Release
<1>5. ASSUME NEW t \in Threads, NEW l \in Boxes, NEW b \in Boxes, Push(t, l, b) \/ GetItem(t, l, b)
      PROVE  "claimed" \notin amiss'
  BY <1>5 DEF Push, GetItem
<1>6. ASSUME NEW t \in Threads, QueueInit(t) \/ QueueFlush(t) \/ CycleFlush(t)
      PROVE  "claimed" \notin amiss'
  BY <1>6 DEF QueueInit, QueueFlush, CycleFlush
<1>7. ASSUME NEW t \in Threads, Releasing(t) PROVE "claimed" \notin amiss'
  BY <1>7 DEF Releasing, Decrement, Root, Notify, Dispose, DropChild, ChildRoot, ChildDies,
     Dropped, Drain
<1>8. ASSUME NEW t \in Threads, CollectSteps(t) PROVE "claimed" \notin amiss'
  <2>1. CASE CollectRoots(t)
    <3>1. {b \in run[t].todo : IsWhite(b)} = {}
      BY DEF IsWhite, Coloured, Marked
    <3> QED
      BY <3>1, <2>1 DEF CollectRoots
  <2> QED
    BY <2>1, <1>8 DEF CollectSteps, FlushRoots, CollectBegin, CopyRoots, Mark, Scan, ScanBlack,
       Scanned, CollectWhite, Promote
<1>9. CASE Receive
  BY <1>9 DEF Receive
<1>10. CASE UNCHANGED vars
  BY <1>10 DEF vars
<1> QED
  BY <1>2, <1>3, <1>4, <1>5, <1>6, <1>7, <1>8, <1>9, <1>10 DEF Next, Calls

(***************************************************************************)
(* A collector that no other thread drops a value beside, from its         *)
(* mark_roots to its scan_roots, takes nothing for garbage: mark_gray      *)
(* takes back no count, so that what it marked, a cycle nothing else       *)
(* refers to as well, is found live.  What other threads drop meanwhile is *)
(* all that collect_cycles ever claims, or leads it to.                    *)
(***************************************************************************)
THEOREM CollectorClaimsNothing == Spec /\ []Alone => []NothingClaimed
<1> DEFINE Inv == "claimed" \notin amiss /\ IInv /\ Marked
<1>1. Init => Inv
  <2> SUFFICES ASSUME Init PROVE "claimed" \notin amiss /\ Marked
    BY Initial
  <2>1. "claimed" \notin amiss
    BY DEF Init
  <2>2. DOMAIN det.info = {}
    BY DEF Init, NoDetector
  <2> QED
    BY <2>1, <2>2 DEF Marked
<1>2. Inv /\ Alone /\ [Next]_vars => Inv'
  BY Inductive, MarkedKept, StaysUnclaimed
<1>3. Inv => NothingClaimed
  BY DEF NothingClaimed
<1> QED
  BY <1>1, <1>2, <1>3, PTL DEF Spec

=============================================================================
