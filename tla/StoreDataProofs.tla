-------------------------- MODULE StoreDataProofs ---------------------------
(***************************************************************************)
(* Proofs about StoreData, for any number of objects, values and           *)
(* transactions: a query over the index answers as a scan would, and a     *)
(* rollback nobody interfered with restores what the transaction found.    *)
(***************************************************************************)
EXTENDS StoreData, TLAPS

(***************************************************************************)
(* The objects and the index.                                              *)
(***************************************************************************)
Field == Values \cup {Missing}

Object == [field : Field, deleted : BOOLEAN, cached : BOOLEAN]

Index == [kind : {"none", "Hash", "Ordered"},
          at : [Values -> [1 .. MaxObjects -> Nat]],
          entries : SUBSET Nat]

DataType ==
    /\ objects \in Seq(Object) /\ Len(objects) <= MaxObjects
    /\ index \in Index
    /\ known \subseteq Ids
    /\ revived \subseteq known
    /\ \A i \in revived : objects[i].deleted
    /\ index.kind = "none" => known = {}

\* The numbers that belong under value v.
Under(v) == {i \in known : (Live(objects[i]) \/ i \in revived) /\ objects[i].field = v}

\* Index x lists, once each, the numbers that U gives for each value, and its
\* entries are the numbers it lists.
Lists(x, U) ==
    /\ \A v \in Values, i \in 1 .. MaxObjects : x.at[v][i] = IF i \in U[v] THEN 1 ELSE 0
    /\ \A i \in 1 .. MaxObjects : i \in x.entries <=> \E v \in Values : i \in U[v]

\* The index lists each number under the value its object has.
Indexed == index.kind # "none" => Lists(index, [v \in Values |-> Under(v)])

DataInv == DataType /\ Indexed

(***************************************************************************)
(* The transactions.                                                       *)
(***************************************************************************)
Map(T) == UNION {[D -> T] : D \in SUBSET Nat}

Op == [op : {"Insert", "Update", "Delete"}, index : Nat]

Tx == [state : {"None", "Active", "Committed", "Rolling", "Aborted"},
       ops : Seq(Op), snapshots : Map(Field), first : Map(Object),
       remade : Map(Nat), clean : BOOLEAN]

\* What a transaction x logged is about objects there are, and whatever it
\* may have to restore it has a snapshot of.
Logged(x, ids) ==
    /\ \A k \in DOMAIN x.ops :
           /\ x.ops[k].index \in ids
           /\ x.ops[k].op # "Insert" => x.ops[k].index \in DOMAIN x.snapshots
    /\ DOMAIN x.snapshots \subseteq ids

\* Some operation op on object i is logged and not undone yet.
Has(x, op, i) == \E k \in DOMAIN x.ops : x.ops[k].op = op /\ x.ops[k].index = i

\* An object the transaction found alive: its snapshot is what was found, it
\* is deleted exactly if the transaction deleted it, and it has its field
\* unless an update is still to be undone.
FoundAlive(x, obj, i) ==
    /\ i \in DOMAIN x.snapshots /\ x.snapshots[i] = x.first[i].field
    /\ ~Has(x, "Insert", i)
    /\ obj[i].deleted <=> Has(x, "Delete", i) \/ i \in DOMAIN x.remade
    /\ ~Has(x, "Update", i) => obj[i].field = x.first[i].field

\* An object it inserted, or found deleted: alive as long as the insert is
\* not undone.
NotFound(x, obj, i) ==
    /\ ~Has(x, "Delete", i)
    /\ obj[i].deleted <=> ~Has(x, "Insert", i)
    /\ \A k, l \in DOMAIN x.ops :
           (x.ops[k].op = "Insert" /\ x.ops[l].op = "Insert" /\
            x.ops[k].index = i /\ x.ops[l].index = i) => k = l

\* What a rollback made for an object it had found alive is alive, with the
\* field it had.
Remade(x, obj, i) ==
    LET n == x.remade[i] IN
    /\ i \in DOMAIN x.first /\ Live(x.first[i])
    /\ n \in DOMAIN obj /\ Live(obj[n]) /\ obj[n].field = x.first[i].field

\* The part of a rollback that is still to be done restores what was found.
Restorable(x, obj) ==
    /\ DOMAIN x.first \subseteq DOMAIN obj
    /\ DOMAIN x.snapshots \subseteq DOMAIN x.first
    /\ \A k \in DOMAIN x.ops :
           x.ops[k].index \in DOMAIN x.first /\ x.ops[k].index \notin Range(x.remade)
    /\ \A i \in DOMAIN x.first :
           IF Live(x.first[i]) THEN FoundAlive(x, obj, i) ELSE NotFound(x, obj, i)
    /\ \A i \in DOMAIN x.remade : Remade(x, obj, i)
    /\ x.state # "Rolling" => DOMAIN x.remade = {}

\* What is known of a transaction x when the objects are obj.
Good(x, obj) ==
    /\ x \in Tx
    /\ Logged(x, DOMAIN obj)
    /\ x.clean => Restorable(x, obj)

TxInv ==
    /\ tx \in [Transactions -> Tx]
    /\ \A t \in Transactions : Good(tx[t], objects)

IInv == DataInv /\ TxInv

(***************************************************************************)
(* The engine's operations keep the index in step.                         *)
(***************************************************************************)

\* Ids as a set of numbers.
LEMMA IdsFacts ==
    ASSUME DataType
    PROVE  /\ Ids = 1 .. Len(objects) /\ Len(objects) \in Nat
           /\ Ids \subseteq 1 .. MaxObjects
           /\ \A i \in Ids : objects[i] \in Object
BY ObjectsAssumption DEF DataType, Ids

\* What OnInsert and OnDelete do to an index of the right type.
LEMMA InsertFacts ==
    ASSUME NEW x \in Index, NEW i \in 1 .. MaxObjects, NEW v \in Field
    PROVE  LET y == OnInsert(x, i, v) IN
           /\ y \in Index /\ y.kind = x.kind
           /\ (x.kind = "none" \/ v = Missing) => y = x
           /\ (x.kind # "none" /\ v # Missing) =>
                /\ y.entries = x.entries \cup {i}
                /\ \A w \in Values, j \in 1 .. MaxObjects :
                      y.at[w][j] = IF w = v /\ j = i THEN x.at[w][j] + 1 ELSE x.at[w][j]
<1>1. CASE ~(x.kind # "none" /\ v # Missing)
  BY <1>1 DEF OnInsert, IndexInsert
<1>2. CASE x.kind # "none" /\ v # Missing
  <2>1. v \in Values
    BY <1>2 DEF Field
  <2> DEFINE row == [x.at[v] EXCEPT ![i] = x.at[v][i] + 1]
             at == [x.at EXCEPT ![v] = row]
             y == [kind |-> x.kind, at |-> at, entries |-> x.entries \cup {i}]
  <2>2. /\ x.at \in [Values -> [1 .. MaxObjects -> Nat]] /\ x.entries \subseteq Nat
        /\ x.kind \in {"none", "Hash", "Ordered"}
        /\ x = [kind |-> x.kind, at |-> x.at, entries |-> x.entries]
    BY DEF Index
  <2>3. row \in [1 .. MaxObjects -> Nat]
    <3>1. x.at[v] \in [1 .. MaxObjects -> Nat]
      BY <2>1, <2>2
    <3> DEFINE r == x.at[v]
    <3>2. r \in [1 .. MaxObjects -> Nat]
      BY <3>1
    <3> HIDE DEF r
    <3>3. [r EXCEPT ![i] = r[i] + 1] \in [1 .. MaxObjects -> Nat]
      BY <3>2
    <3> QED
      BY <3>3 DEF r
  <2>4. at \in [Values -> [1 .. MaxObjects -> Nat]]
    BY <2>2, <2>3
  <2>5. y \in Index
    BY <2>2, <2>4, ObjectsAssumption DEF Index
  <2>6. OnInsert(x, i, v) = y
    BY <1>2, <2>2 DEF OnInsert, IndexInsert
  <2>7. \A w \in Values, j \in 1 .. MaxObjects :
            at[w][j] = IF w = v /\ j = i THEN x.at[v][i] + 1 ELSE x.at[w][j]
    BY <2>1, <2>2
  <2> HIDE DEF at
  <2>8. /\ y.entries = x.entries \cup {i} /\ y.kind = x.kind
        /\ \A w \in Values, j \in 1 .. MaxObjects :
            y.at[w][j] = IF w = v /\ j = i THEN x.at[v][i] + 1 ELSE x.at[w][j]
    BY <2>7
  <2> QED
    BY <1>2, <2>5, <2>6, <2>8
<1> QED
  BY <1>1, <1>2

LEMMA DeleteFacts ==
    ASSUME NEW x \in Index, NEW i \in 1 .. MaxObjects, NEW v \in Field
    PROVE  LET y == OnDelete(x, i, v) IN
           /\ y \in Index /\ y.kind = x.kind
           /\ (x.kind = "none" \/ v = Missing \/ i \notin x.entries) => y = x
           /\ (x.kind # "none" /\ v # Missing /\ i \in x.entries) =>
                /\ y.entries = x.entries \ {i}
                /\ \A w \in Values, j \in 1 .. MaxObjects :
                      y.at[w][j] = IF w = v /\ j = i THEN 0 ELSE x.at[w][j]
<1>1. CASE ~(x.kind # "none" /\ v # Missing /\ i \in x.entries)
  BY <1>1 DEF OnDelete, IndexRemove
<1>2. CASE x.kind # "none" /\ v # Missing /\ i \in x.entries
  <2>1. v \in Values
    BY <1>2 DEF Field
  <2> DEFINE row == [x.at[v] EXCEPT ![i] = 0]
             at == [x.at EXCEPT ![v] = row]
             y == [kind |-> x.kind, at |-> at, entries |-> x.entries \ {i}]
  <2>2. /\ x.at \in [Values -> [1 .. MaxObjects -> Nat]] /\ x.entries \subseteq Nat
        /\ x.kind \in {"none", "Hash", "Ordered"}
        /\ x = [kind |-> x.kind, at |-> x.at, entries |-> x.entries]
    BY DEF Index
  <2>3. row \in [1 .. MaxObjects -> Nat]
    <3>1. x.at[v] \in [1 .. MaxObjects -> Nat]
      BY <2>1, <2>2
    <3> QED
      BY <3>1
  <2>4. at \in [Values -> [1 .. MaxObjects -> Nat]]
    BY <2>2, <2>3
  <2>5. y \in Index
    BY <2>2, <2>4, ObjectsAssumption DEF Index
  <2>6. OnDelete(x, i, v) = y
    BY <1>2, <2>2 DEF OnDelete, IndexRemove
  <2>7. \A w \in Values, j \in 1 .. MaxObjects :
            at[w][j] = IF w = v /\ j = i THEN 0 ELSE x.at[w][j]
    BY <2>1, <2>2
  <2> HIDE DEF at
  <2>8. /\ y.entries = x.entries \ {i} /\ y.kind = x.kind
        /\ \A w \in Values, j \in 1 .. MaxObjects :
            y.at[w][j] = IF w = v /\ j = i THEN 0 ELSE x.at[w][j]
    BY <2>7
  <2> QED
    BY <1>2, <2>5, <2>6, <2>8
<1> QED
  BY <1>1, <1>2

\* An index that lists i nowhere lists it under v once i is inserted there.
LEMMA ListsInsert ==
    ASSUME NEW x \in Index, x.kind # "none", NEW i \in 1 .. MaxObjects, NEW v \in Field,
           NEW U, Lists(x, U), \A w \in Values : i \notin U[w],
           NEW V, \A w \in Values : w = v => V[w] = U[w] \cup {i},
           \A w \in Values : w # v => V[w] = U[w]
    PROVE  Lists(OnInsert(x, i, v), V)
<1> DEFINE y == OnInsert(x, i, v)
<1>1. CASE v = Missing
  <2>1. y = x
    BY <1>1, InsertFacts
  <2>2. \A w \in Values : V[w] = U[w]
    BY <1>1, ValuesAssumption
  <2> QED
    BY <2>1, <2>2 DEF Lists
<1>2. CASE v # Missing
  <2>1. /\ y.entries = x.entries \cup {i}
        /\ \A w \in Values, j \in 1 .. MaxObjects :
              y.at[w][j] = IF w = v /\ j = i THEN x.at[w][j] + 1 ELSE x.at[w][j]
    BY <1>2, InsertFacts
  <2>2. v \in Values
    BY <1>2 DEF Field
  <2> HIDE DEF y
  <2>3. \A w \in Values, j \in 1 .. MaxObjects : y.at[w][j] = IF j \in V[w] THEN 1 ELSE 0
    <3> SUFFICES ASSUME NEW w \in Values, NEW j \in 1 .. MaxObjects
                 PROVE  y.at[w][j] = IF j \in V[w] THEN 1 ELSE 0
      OBVIOUS
    <3>1. x.at[w][j] = IF j \in U[w] THEN 1 ELSE 0
      BY DEF Lists
    <3>2. y.at[w][j] = IF w = v /\ j = i THEN x.at[w][j] + 1 ELSE x.at[w][j]
      BY <2>1
    <3>3. j \in V[w] <=> j \in U[w] \/ (w = v /\ j = i)
      OBVIOUS
    <3>4. i \notin U[w]
      OBVIOUS
    <3> QED
      BY <3>1, <3>2, <3>3, <3>4
  <2>4. \A j \in 1 .. MaxObjects : j \in y.entries <=> \E w \in Values : j \in V[w]
    BY <2>1, <2>2 DEF Lists
  <2> QED
    BY <2>3, <2>4 DEF Lists, y
<1> QED
  BY <1>1, <1>2

\* Removing i, which can be listed under v only, leaves it listed nowhere.
LEMMA ListsRemove ==
    ASSUME NEW x \in Index, x.kind # "none", NEW i \in 1 .. MaxObjects, NEW v \in Field,
           NEW U, Lists(x, U), \A w \in Values : i \in U[w] => w = v,
           NEW V, \A w \in Values : V[w] = U[w] \ {i}
    PROVE  Lists(OnDelete(x, i, v), V)
<1> DEFINE y == OnDelete(x, i, v)
<1>1. CASE v = Missing \/ i \notin x.entries
  <2>1. y = x
    BY <1>1, DeleteFacts
  <2>2. \A w \in Values : i \notin U[w]
    BY <1>1, ValuesAssumption DEF Lists
  <2>3. \A w \in Values : V[w] = U[w]
    BY <2>2
  <2> QED
    BY <2>1, <2>3 DEF Lists
<1>2. CASE v # Missing /\ i \in x.entries
  <2>1. /\ y.entries = x.entries \ {i}
        /\ \A w \in Values, j \in 1 .. MaxObjects :
              y.at[w][j] = IF w = v /\ j = i THEN 0 ELSE x.at[w][j]
    BY <1>2, DeleteFacts
  <2> HIDE DEF y
  <2>2. \A w \in Values, j \in 1 .. MaxObjects : y.at[w][j] = IF j \in V[w] THEN 1 ELSE 0
    <3> SUFFICES ASSUME NEW w \in Values, NEW j \in 1 .. MaxObjects
                 PROVE  y.at[w][j] = IF j \in V[w] THEN 1 ELSE 0
      OBVIOUS
    <3>1. x.at[w][j] = IF j \in U[w] THEN 1 ELSE 0
      BY DEF Lists
    <3>2. y.at[w][j] = IF w = v /\ j = i THEN 0 ELSE x.at[w][j]
      BY <2>1
    <3>3. j \in V[w] <=> j \in U[w] /\ j # i
      OBVIOUS
    <3>4. i \in U[w] => w = v
      OBVIOUS
    <3> QED
      BY <3>1, <3>2, <3>3, <3>4
  <2>3. \A j \in 1 .. MaxObjects : j \in y.entries <=> \E w \in Values : j \in V[w]
    BY <2>1 DEF Lists
  <2> QED
    BY <2>2, <2>3 DEF Lists, y
<1> QED
  BY <1>1, <1>2

\* create: the new number is met by the index and listed under its value.
LEMMA CreateKeeps ==
    ASSUME DataInv, NEW v \in Field, Create(v)
    PROVE  DataInv'
<1> DEFINE i == Len(objects) + 1
           o == [field |-> v, deleted |-> FALSE, cached |-> TRUE]
<1>1. /\ Ids = 1 .. Len(objects) /\ Len(objects) \in Nat
      /\ i \in 1 .. MaxObjects /\ i \notin Ids
      /\ objects' = Append(objects, o) /\ index' = OnInsert(index, i, v)
      /\ objects \in Seq(Object) /\ index \in Index /\ o \in Object /\ revived' = revived
      /\ known' = IF index.kind = "none" THEN {} ELSE known \cup {i}
  BY IdsFacts, ObjectsAssumption DEF DataInv, DataType, Create, Met, Object
<1> HIDE DEF o
<1>2. /\ objects' \in Seq(Object) /\ Len(objects') = i
      /\ \A j \in Ids : objects'[j] = objects[j]
      /\ objects'[i] = o
      /\ Ids' = Ids \cup {i}
  BY <1>1 DEF Ids
<1>3. index' \in Index /\ index'.kind = index.kind
  BY <1>1, InsertFacts
<1>4. DataType'
  <2>1. known \subseteq Ids /\ revived \subseteq known /\ \A j \in revived : objects[j].deleted
    BY DEF DataInv, DataType
  <2>2. known' \subseteq Ids' /\ (index'.kind = "none" => known' = {})
    BY <1>1, <1>2, <1>3, <2>1
  <2>3. revived' \subseteq known'
    BY <1>1, <2>1 DEF DataInv, DataType
  <2>4. \A j \in revived' : objects'[j].deleted
    BY <1>1, <1>2, <2>1
  <2>5. objects' \in Seq(Object) /\ Len(objects') <= MaxObjects
    BY <1>1, <1>2, ObjectsAssumption
  <2> QED
    BY <1>3, <2>2, <2>3, <2>4, <2>5 DEF DataType
<1>5. ASSUME index.kind # "none" PROVE Lists(index', [w \in Values |-> Under(w)'])
  <2> DEFINE U == [w \in Values |-> Under(w)]
             V == [w \in Values |-> Under(w)']
  <2>1. /\ \A j \in known : j \in Ids /\ j # i
        /\ known' = known \cup {i} /\ i \notin revived
    BY <1>1, <1>5 DEF DataInv, DataType
  <2>2. o.field = v /\ Live(o)
    BY DEF o, Live
  <2>3. \A w \in Values : (w = v => V[w] = U[w] \cup {i}) /\ (w # v => V[w] = U[w])
    BY <1>1, <1>2, <2>1, <2>2 DEF Under, Live
  <2>4. \A w \in Values : i \notin U[w]
    BY <2>1 DEF Under
  <2>5. Lists(index, U)
    BY <1>5 DEF DataInv, Indexed
  <2>6. i \in 1 .. MaxObjects /\ index \in Index /\ index' = OnInsert(index, i, v)
    BY <1>1
  <2> HIDE DEF U, V, i
  <2>7. Lists(OnInsert(index, i, v), V)
    BY <1>5, <2>3, <2>4, <2>5, <2>6, ListsInsert
  <2> QED
    BY <2>6, <2>7 DEF V
<1> QED
  BY <1>3, <1>4, <1>5 DEF DataInv, Indexed

\* What a change of object i in place leaves as it was.
LEMMA WriteFacts ==
    ASSUME DataType, NEW i \in Ids, NEW o \in Object, objects' = [objects EXCEPT ![i] = o]
    PROVE  /\ objects' \in Seq(Object) /\ Len(objects') = Len(objects) /\ Ids' = Ids
           /\ objects'[i] = o /\ \A j \in Ids \ {i} : objects'[j] = objects[j]
BY DEF DataType, Ids

\* update: the number moves from the old value to the new one.
LEMMA UpdateKeeps ==
    ASSUME DataInv, NEW i \in Nat, NEW v \in Field, Update(i, v)
    PROVE  DataInv'
<1>1. CASE i \notin Ids
  <2>1. UNCHANGED <<objects, index, revived, known>>
    BY <1>1 DEF Update
  <2> QED
    BY <2>1 DEF DataInv, DataType, Indexed, Under, Lists, Live, Ids
<1>2. CASE i \in Ids
  <2> DEFINE o == [objects[i] EXCEPT !.field = v, !.cached = TRUE]
             old == objects[i].field
             x == OnDelete(index, i, old)
  <2>1. /\ objects' = [objects EXCEPT ![i] = o]
        /\ index' = OnInsert(x, i, v)
        /\ revived' = IF Live(objects[i]) \/ index.kind = "none" THEN revived
                      ELSE revived \cup {i}
        /\ known' = IF index.kind = "none" THEN {} ELSE known \cup {i}
    BY <1>2 DEF Update, Met, OnUpdate
  <2>2. /\ objects[i] \in Object /\ i \in 1 .. MaxObjects
        /\ \A j \in Ids : objects[j] \in Object
    BY <1>2, IdsFacts DEF DataInv
  <2>3. /\ o \in Object /\ o.field = v /\ o.deleted = objects[i].deleted /\ old \in Field
    BY <2>2 DEF Object
  <2> HIDE DEF o
  <2>4. /\ objects' \in Seq(Object) /\ Len(objects') = Len(objects) /\ Ids' = Ids
        /\ objects'[i] = o /\ \A j \in Ids \ {i} : objects'[j] = objects[j]
    BY <1>2, <2>1, <2>3, WriteFacts DEF DataInv
  <2>5. x \in Index /\ x.kind = index.kind
    BY <2>2, <2>3, DeleteFacts DEF DataInv, DataType
  <2>6. index' \in Index /\ index'.kind = index.kind
    BY <2>1, <2>2, <2>5, InsertFacts
  <2>7. DataType'
    BY <1>2, <2>1, <2>3, <2>4, <2>6 DEF DataInv, DataType, Live
  <2>8. ASSUME index.kind # "none" PROVE Lists(index', [w \in Values |-> Under(w)'])
    <3> DEFINE U == [w \in Values |-> Under(w)]
               W == [w \in Values |-> Under(w) \ {i}]
               V == [w \in Values |-> Under(w)']
    <3>1. /\ known \subseteq Ids /\ known' = known \cup {i} /\ \A j \in revived : j \in known
          /\ revived' = IF Live(objects[i]) THEN revived ELSE revived \cup {i}
      BY <2>1, <2>8 DEF DataInv, DataType
    <3>2. Live(objects'[i]) <=> Live(objects[i])
      BY <2>3, <2>4 DEF Live
    <3>3. \A w \in Values : i \in Under(w)' <=> w = v
      BY <2>3, <2>4, <3>1, <3>2 DEF Under
    <3>4. \A w \in Values, j \in Ids \ {i} : j \in Under(w)' <=> j \in Under(w)
      BY <2>4, <3>1 DEF Under, Live
    <3>5. \A w \in Values : Under(w) \subseteq Ids /\ Under(w)' \subseteq Ids
      BY <1>2, <3>1 DEF Under
    <3>6. \A w \in Values : (w = v => V[w] = W[w] \cup {i}) /\ (w # v => V[w] = W[w])
      BY <1>2, <3>3, <3>4, <3>5
    <3>7. \A w \in Values : i \in U[w] => w = old
      BY DEF Under
    <3>8. \A w \in Values : W[w] = U[w] \ {i} /\ i \notin W[w]
      OBVIOUS
    <3>9. Lists(index, U)
      BY <2>8 DEF DataInv, Indexed
    <3>10. index \in Index
      BY DEF DataInv, DataType
    <3> HIDE DEF U, V, W, old, x
    <3>11. Lists(x, W)
      BY <2>2, <2>3, <2>8, <3>7, <3>8, <3>9, <3>10, ListsRemove DEF x
    <3>12. Lists(index', V)
      <4>1. x.kind # "none" /\ x \in Index /\ i \in 1 .. MaxObjects
        BY <2>2, <2>5, <2>8
      <4>2. \A w \in Values : i \notin W[w]
        BY <3>8
      <4>3. Lists(OnInsert(x, i, v), V)
        BY <4>1, <4>2, <3>6, <3>11, ListsInsert
      <4> QED
        BY <2>1, <4>3
    <3> QED
      BY <3>12 DEF V
  <2> QED
    BY <2>6, <2>7, <2>8 DEF DataInv, Indexed
<1> QED
  BY <1>1, <1>2

\* get: the cache is nothing the index depends on.
LEMMA GetKeeps ==
    ASSUME DataInv, NEW i \in Ids, Get(i)
    PROVE  DataInv'
<1> DEFINE o == [objects[i] EXCEPT !.cached = TRUE]
<1>1. /\ objects' = [objects EXCEPT ![i] = o]
      /\ UNCHANGED <<index, revived, known>>
  BY DEF Get
<1>2. objects[i] \in Object
  BY IdsFacts DEF DataInv
<1>3. o \in Object /\ o.field = objects[i].field /\ o.deleted = objects[i].deleted
  BY <1>2 DEF Object
<1> HIDE DEF o
<1>4. /\ objects' \in Seq(Object) /\ Len(objects') = Len(objects) /\ Ids' = Ids
      /\ objects'[i] = o /\ \A j \in Ids \ {i} : objects'[j] = objects[j]
  BY <1>1, <1>3, WriteFacts DEF DataInv
<1>5. \A j \in Ids : objects'[j].field = objects[j].field /\ objects'[j].deleted = objects[j].deleted
  BY <1>3, <1>4
<1>6. DataType'
  BY <1>1, <1>4, <1>5 DEF DataInv, DataType
<1>7. \A w \in Values : Under(w)' = Under(w)
  BY <1>1, <1>5 DEF DataInv, DataType, Under, Live
<1> QED
  BY <1>1, <1>6, <1>7 DEF DataInv, Indexed

\* delete: the number of an object that was alive leaves the index.
LEMMA DeleteKeeps ==
    ASSUME DataInv, NEW i \in Nat, Delete(i)
    PROVE  DataInv'
<1>1. CASE i \notin Ids
  <2>1. UNCHANGED <<objects, index, revived, known>>
    BY <1>1 DEF Delete
  <2> QED
    BY <2>1 DEF DataInv, DataType, Indexed, Under, Lists, Live, Ids
<1>2. CASE i \in Ids /\ objects[i].deleted
  <2>1. Get(i)
    BY <1>2 DEF Delete, Get
  <2> QED
    BY <1>2, <2>1, GetKeeps
<1>3. CASE i \in Ids /\ ~objects[i].deleted
  <2> DEFINE o == [objects[i] EXCEPT !.deleted = TRUE, !.cached = TRUE]
             old == objects[i].field
  <2>1. /\ objects' = [objects EXCEPT ![i] = o]
        /\ index' = OnDelete(index, i, old)
        /\ revived' = revived /\ known' = known
    BY <1>3 DEF Delete
  <2>2. /\ objects[i] \in Object /\ i \in 1 .. MaxObjects
        /\ \A j \in Ids : objects[j] \in Object
    BY <1>3, IdsFacts DEF DataInv
  <2>3. o \in Object /\ o.deleted /\ old \in Field
    BY <2>2 DEF Object
  <2> HIDE DEF o
  <2>4. /\ objects' \in Seq(Object) /\ Len(objects') = Len(objects) /\ Ids' = Ids
        /\ objects'[i] = o /\ \A j \in Ids \ {i} : objects'[j] = objects[j]
    BY <1>3, <2>1, <2>3, WriteFacts DEF DataInv
  <2>5. index' \in Index /\ index'.kind = index.kind
    BY <2>1, <2>2, <2>3, DeleteFacts DEF DataInv, DataType
  <2>6. DataType'
    BY <1>3, <2>1, <2>3, <2>4, <2>5 DEF DataInv, DataType
  <2>7. ASSUME index.kind # "none" PROVE Lists(index', [w \in Values |-> Under(w)'])
    <3> DEFINE U == [w \in Values |-> Under(w)]
               V == [w \in Values |-> Under(w)']
    <3>1. known \subseteq Ids /\ i \notin revived
      BY <1>3 DEF DataInv, DataType
    <3>2. \A w \in Values : i \notin Under(w)'
      BY <2>1, <2>3, <2>4, <3>1 DEF Under, Live
    <3>3. \A w \in Values, j \in Ids \ {i} : j \in Under(w)' <=> j \in Under(w)
      BY <2>1, <2>4, <3>1 DEF Under, Live
    <3>4. \A w \in Values : Under(w) \subseteq Ids /\ Under(w)' \subseteq Ids
      BY <2>1, <3>1 DEF Under
    <3>5. \A w \in Values : V[w] = U[w] \ {i}
      BY <3>2, <3>3, <3>4
    <3>6. \A w \in Values : i \in U[w] => w = old
      BY DEF Under
    <3>7. Lists(index, U)
      BY <2>7 DEF DataInv, Indexed
    <3>8. index \in Index
      BY DEF DataInv, DataType
    <3> HIDE DEF U, V, old
    <3>9. Lists(OnDelete(index, i, old), V)
      BY <2>2, <2>3, <2>7, <3>5, <3>6, <3>7, <3>8, ListsRemove
    <3> QED
      BY <2>1, <3>9 DEF V
  <2> QED
    BY <2>5, <2>6, <2>7 DEF DataInv, Indexed
<1> QED
  BY <1>1, <1>2, <1>3

\* create_secondary_index lists the objects in the cache that are alive.
LEMMA CreateIndexKeeps ==
    ASSUME DataInv, NEW kind \in Kinds, CreateIndex(kind)
    PROVE  DataInv'
<1>1. /\ index.kind = "none" /\ index' = Built(kind) /\ objects' = objects
      /\ known' = {i \in Ids : objects[i].cached} /\ revived' = revived
      /\ known = {} /\ revived = {} /\ Ids' = Ids
  BY DEF CreateIndex, DataInv, DataType, Ids
<1>2. kind \in {"Hash", "Ordered"}
  BY KindsAssumption
<1>3. Ids \subseteq 1 .. MaxObjects /\ Ids \subseteq Nat
  BY IdsFacts DEF DataInv
<1>4. index' \in Index /\ index'.kind = kind
  BY <1>1, <1>2, <1>3, ObjectsAssumption DEF Built, Cached, Index
<1>5. DataType'
  BY <1>1, <1>2, <1>4 DEF DataInv, DataType
<1>6. Lists(index', [v \in Values |-> Under(v)'])
  <2> DEFINE V == [v \in Values |-> Under(v)']
  <2>1. \A v \in Values : V[v] = {i \in Cached : objects[i].field = v}
    BY <1>1 DEF Under, Cached
  <2> HIDE DEF V
  <2>2. Lists(index', V)
    BY <1>1, <2>1 DEF Built, Lists
  <2> QED
    BY <2>2 DEF V
<1> QED
  BY <1>5, <1>6 DEF DataInv, Indexed

LEMMA DropIndexKeeps ==
    ASSUME DataInv, DropIndex
    PROVE  DataInv'
BY ObjectsAssumption DEF DropIndex, DataInv, DataType, Indexed, NoIndex, Index, Ids

(***************************************************************************)
(* What a query finds in an index that is in step.                         *)
(***************************************************************************)
LEMMA QueryFinds ==
    ASSUME DataInv, NEW op \in Ops, NEW w \in Values, index.kind # "none", Exact(op)
    PROVE  /\ IsInjective(Query(op, w))
           /\ Range(Query(op, w)) = {i \in known : /\ Live(objects[i]) \/ i \in revived
                                                   /\ Matches(objects[i].field, op, w)}
<1> DEFINE keys == {v \in Values : Matches(v, op, w)}
           P == UNION {Listed(v) : v \in keys}
           f == [p \in P |-> p[2]]
<1>1. op \in {"Eq", "Lte", "Gte"} /\ (op # "Eq" => index.kind = "Ordered")
  BY DEF Exact
<1>2. Plan(op, w) = [scan |-> FALSE, keys |-> keys]
  <2>1. \A v \in Values : v # Missing /\ v \in Int
    BY ValuesAssumption
  <2>2. CASE op = "Eq"
    <3>1. keys = {w}
      BY <2>1, <2>2 DEF Matches
    <3> QED
      BY <2>2, <3>1 DEF Plan
  <2>3. CASE op = "Lte"
    <3>1. keys = {v \in Values : v <= w}
      BY <2>1, <2>3 DEF Matches
    <3> QED
      BY <2>3, <3>1 DEF Plan
  <2>4. CASE op = "Gte"
    <3>1. keys = {v \in Values : v >= w}
      BY <2>1, <2>4 DEF Matches
    <3> QED
      BY <2>4, <3>1 DEF Plan
  <2> QED
    BY <1>1, <2>2, <2>3, <2>4
<1>3. Query(op, w) = f
  BY <1>1, <1>2 DEF Query, Find
<1>4. \A v \in Values, i \in 1 .. MaxObjects : index.at[v][i] = IF i \in Under(v) THEN 1 ELSE 0
  BY DEF DataInv, Indexed, Lists
<1>5. \A v \in Values : Under(v) \subseteq 1 .. MaxObjects
  BY IdsFacts DEF DataInv, DataType, Under
<1>6. \A v \in Values : Listed(v) = {<<v, i, 1>> : i \in Under(v)}
  <2> SUFFICES ASSUME NEW v \in Values
               PROVE  Listed(v) = {<<v, i, 1>> : i \in Under(v)}
    OBVIOUS
  <2>1. \A i \in 1 .. MaxObjects : \A n : n \in 1 .. index.at[v][i] <=> i \in Under(v) /\ n = 1
    <3> SUFFICES ASSUME NEW i \in 1 .. MaxObjects, NEW n
                 PROVE  n \in 1 .. index.at[v][i] <=> i \in Under(v) /\ n = 1
      OBVIOUS
    <3>1. CASE i \in Under(v)
      <4>1. index.at[v][i] = 1
        BY <1>4, <3>1
      <4> QED
        BY <3>1, <4>1
    <3>2. CASE i \notin Under(v)
      <4>1. index.at[v][i] = 0
        BY <1>4, <3>2
      <4> QED
        BY <3>2, <4>1
    <3> QED
      BY <3>1, <3>2
  <2>2. ASSUME NEW p \in Listed(v) PROVE p \in {<<v, i, 1>> : i \in Under(v)}
    <3>1. PICK i \in 1 .. MaxObjects : p \in {<<v, i, n>> : n \in 1 .. index.at[v][i]}
      BY DEF Listed
    <3>2. PICK n \in 1 .. index.at[v][i] : p = <<v, i, n>>
      BY <3>1
    <3> QED
      BY <2>1, <3>2
  <2>3. ASSUME NEW i \in Under(v) PROVE <<v, i, 1>> \in Listed(v)
    <3>1. i \in 1 .. MaxObjects /\ 1 \in 1 .. index.at[v][i]
      BY <1>5, <2>1
    <3> QED
      BY <3>1 DEF Listed
  <2> QED
    BY <2>2, <2>3
<1>7. \A p \in P : \E v \in keys : \E i \in Under(v) : p = <<v, i, 1>>
  BY <1>6
<1>8. \A v \in keys : \A i \in Under(v) : <<v, i, 1>> \in P
  BY <1>6
<1>9. \A v \in keys : \A i \in Under(v) : objects[i].field = v
  BY DEF Under
<1> HIDE DEF P
<1>10. IsInjective(f)
  <2> SUFFICES ASSUME NEW p \in P, NEW q \in P, p[2] = q[2] PROVE p = q
    BY DEF IsInjective
  <2>1. PICK v \in keys : \E i \in Under(v) : p = <<v, i, 1>>
    BY <1>7
  <2>2. PICK i \in Under(v) : p = <<v, i, 1>>
    BY <2>1
  <2>3. PICK u \in keys : \E j \in Under(u) : q = <<u, j, 1>>
    BY <1>7
  <2>4. PICK j \in Under(u) : q = <<u, j, 1>>
    BY <2>3
  <2>5. i = j
    BY <2>2, <2>4
  <2>6. u = v
    BY <1>9, <2>5
  <2> QED
    BY <2>2, <2>4, <2>5, <2>6
<1>11. Range(f) = {i \in known : /\ Live(objects[i]) \/ i \in revived
                                 /\ Matches(objects[i].field, op, w)}
  <2> DEFINE found == {i \in known : /\ Live(objects[i]) \/ i \in revived
                                     /\ Matches(objects[i].field, op, w)}
  <2>1. \A i \in found : objects[i].field \in keys /\ i \in Under(objects[i].field)
    <3>1. \A i \in known : objects[i].field \in Field
      BY IdsFacts DEF DataInv, DataType, Object
    <3> QED
      BY <3>1 DEF Under, Field, Matches
  <2>2. \A v \in keys : \A i \in Under(v) : i \in found
    BY DEF Under
  <2> HIDE DEF found
  <2>3. ASSUME NEW i \in found PROVE i \in Range(f)
    <3> DEFINE p == <<objects[i].field, i, 1>>
    <3>1. p \in P /\ p[2] = i
      BY <1>8, <2>1
    <3> QED
      BY <3>1 DEF Range
  <2>4. ASSUME NEW i \in Range(f) PROVE i \in found
    <3>1. PICK p \in P : i = p[2]
      BY DEF Range
    <3>2. PICK v \in keys : \E j \in Under(v) : p = <<v, j, 1>>
      BY <1>7
    <3> QED
      BY <2>2, <3>1, <3>2
  <2> QED
    BY <2>3, <2>4 DEF found
<1> QED
  BY <1>3, <1>10, <1>11

(***************************************************************************)
(* Finite maps, logs and the record of a transaction.                      *)
(***************************************************************************)
LEMMA EmptyMap ==
    ASSUME NEW T
    PROVE  <<>> \in Map(T) /\ DOMAIN <<>> = {}
<1>1. <<>> \in [{} -> T] /\ DOMAIN <<>> = {}
  OBVIOUS
<1> QED
  BY <1>1 DEF Map

LEMMA MapFacts ==
    ASSUME NEW T, NEW f \in Map(T)
    PROVE  /\ DOMAIN f \subseteq Nat
           /\ \A k \in DOMAIN f : f[k] \in T
BY DEF Map

LEMMA PutFacts ==
    ASSUME NEW T, NEW f \in Map(T), NEW k \in Nat, NEW v \in T
    PROVE  /\ Put(f, k, v) \in Map(T)
           /\ DOMAIN Put(f, k, v) = DOMAIN f \cup {k}
           /\ Put(f, k, v)[k] = v
           /\ \A j \in DOMAIN f \ {k} : Put(f, k, v)[j] = f[j]
<1> DEFINE D == DOMAIN f \cup {k}
<1>1. D \in SUBSET Nat /\ \A j \in DOMAIN f : f[j] \in T
  BY MapFacts
<1>2. Put(f, k, v) \in [D -> T]
  BY <1>1 DEF Put
<1> QED
  BY <1>1, <1>2 DEF Put, Map

LEMMA FrontLast ==
    ASSUME NEW T, NEW s \in Seq(T), s # <<>>
    PROVE  /\ Front(s) \in Seq(T) /\ Last(s) \in T
           /\ DOMAIN Front(s) \subseteq DOMAIN s
           /\ Last(s) = s[Len(s)] /\ Len(s) \in DOMAIN s
           /\ \A k \in DOMAIN Front(s) : Front(s)[k] = s[k] /\ k # Len(s)
<1>1. Len(s) \in Nat /\ Len(s) > 0 /\ DOMAIN s = 1 .. Len(s)
  OBVIOUS
<1>2. Front(s) = SubSeq(s, 1, Len(s) - 1)
  BY DEF Front
<1>3. Front(s) \in Seq(T) /\ Len(Front(s)) = Len(s) - 1
  BY <1>1, <1>2
<1>4. \A k \in 1 .. Len(s) - 1 : Front(s)[k] = s[k]
  BY <1>1, <1>2
<1> QED
  BY <1>1, <1>3, <1>4 DEF Last

LEMMA HasAppend ==
    ASSUME NEW x, NEW y, NEW e \in Op, x.ops \in Seq(Op), y.ops = Append(x.ops, e)
    PROVE  \A op, i : Has(y, op, i) <=> Has(x, op, i) \/ (e.op = op /\ e.index = i)
<1> DEFINE n == Len(x.ops) + 1
<1>1. /\ DOMAIN y.ops = DOMAIN x.ops \cup {n}
      /\ y.ops[n] = e /\ \A k \in DOMAIN x.ops : y.ops[k] = x.ops[k]
  OBVIOUS
<1> QED
  BY <1>1 DEF Has

LEMMA HasFront ==
    ASSUME NEW x, NEW y, x.ops \in Seq(Op), x.ops # <<>>, y.ops = Front(x.ops)
    PROVE  \A op, i : Has(x, op, i) <=> \/ Has(y, op, i)
                                        \/ Last(x.ops).op = op /\ Last(x.ops).index = i
<1>1. /\ DOMAIN y.ops \subseteq DOMAIN x.ops
      /\ Last(x.ops) = x.ops[Len(x.ops)] /\ Len(x.ops) \in DOMAIN x.ops
      /\ \A k \in DOMAIN y.ops : y.ops[k] = x.ops[k]
  BY FrontLast
<1>2. DOMAIN x.ops = DOMAIN y.ops \cup {Len(x.ops)}
  BY DEF Front
<1> QED
  BY <1>1, <1>2 DEF Has

\* The fields of a transaction.
LEMMA TxFacts ==
    ASSUME NEW x \in Tx
    PROVE  /\ x.ops \in Seq(Op) /\ x.snapshots \in Map(Field) /\ x.first \in Map(Object)
           /\ x.remade \in Map(Nat) /\ x.clean \in BOOLEAN
           /\ x = [state |-> x.state, ops |-> x.ops, snapshots |-> x.snapshots,
                   first |-> x.first, remade |-> x.remade, clean |-> x.clean]
BY DEF Tx

\* A transaction without operations, or a spoiled one.
LEMMA NewTxGood ==
    ASSUME NEW state \in {"None", "Active", "Committed", "Rolling", "Aborted"}, NEW obj
    PROVE  Good(NewTx(state), obj)
<1> DEFINE x == NewTx(state)
<1>1. x = [state |-> state, ops |-> <<>>, snapshots |-> <<>>, first |-> <<>>,
           remade |-> <<>>, clean |-> TRUE]
  BY DEF NewTx
<1>2. x \in Tx
  BY <1>1, EmptyMap DEF Tx
<1>3. /\ DOMAIN x.ops = {} /\ DOMAIN x.snapshots = {} /\ DOMAIN x.first = {}
      /\ DOMAIN x.remade = {}
  BY <1>1
<1> HIDE DEF x
<1> QED
  BY <1>2, <1>3 DEF Good, Logged, Restorable, x

LEMMA SpoiledFacts ==
    ASSUME NEW x \in Tx
    PROVE  /\ Spoiled(x) \in Tx /\ Spoiled(x).ops = x.ops
           /\ Spoiled(x).snapshots = x.snapshots /\ ~Spoiled(x).clean
           /\ Spoiled(x).state = x.state
BY EmptyMap DEF Spoiled, Tx

(***************************************************************************)
(* What the steps of one transaction leave of another, and of itself.      *)
(***************************************************************************)

\* obj2 has the objects of obj, and all but i of them unchanged.
Except(obj, obj2, i) ==
    /\ DOMAIN obj \subseteq DOMAIN obj2
    /\ \A j \in DOMAIN obj :
           j # i => obj2[j].field = obj[j].field /\ obj2[j].deleted = obj[j].deleted

\* A transaction stays restorable as long as nobody else writes what it met;
\* only its state may differ.
LEMMA StaysRestorable ==
    ASSUME NEW x, NEW y, NEW obj, NEW obj2, NEW i, Restorable(x, obj), Except(obj, obj2, i),
           i \notin DOMAIN x.first \cup Range(x.remade),
           y.ops = x.ops, y.snapshots = x.snapshots, y.first = x.first, y.remade = x.remade,
           y.state # "Rolling" => x.state # "Rolling"
    PROVE  Restorable(y, obj2)
<1>1. \A op, j : Has(y, op, j) <=> Has(x, op, j)
  BY DEF Has
<1>2. \A j \in DOMAIN x.first : /\ j \in DOMAIN obj2 /\ obj2[j].field = obj[j].field
                                /\ obj2[j].deleted = obj[j].deleted
  BY DEF Restorable, Except
<1>3. ASSUME NEW j \in DOMAIN y.first
      PROVE  IF Live(y.first[j]) THEN FoundAlive(y, obj2, j) ELSE NotFound(y, obj2, j)
  BY <1>1, <1>2, <1>3 DEF Restorable, FoundAlive, NotFound
<1>4. ASSUME NEW j \in DOMAIN y.remade PROVE Remade(y, obj2, j)
  <2>1. Remade(x, obj, j) /\ x.remade[j] # i
    BY <1>4 DEF Restorable, Range
  <2> QED
    BY <2>1 DEF Remade, Except, Live
<1> QED
  BY <1>2, <1>3, <1>4 DEF Restorable

\* Another transaction wrote object i: x is spoiled if it had met i.
LEMMA OtherGood ==
    ASSUME NEW x, NEW obj, NEW obj2, NEW i, Good(x, obj), Except(obj, obj2, i)
    PROVE  Good(IF i \in DOMAIN x.first \cup Range(x.remade) THEN Spoiled(x) ELSE x, obj2)
<1>1. x \in Tx /\ Logged(x, DOMAIN obj) /\ DOMAIN obj \subseteq DOMAIN obj2
  BY DEF Good, Except
<1>2. Logged(x, DOMAIN obj2)
  BY <1>1 DEF Logged
<1>3. CASE i \in DOMAIN x.first \cup Range(x.remade)
  <2>1. Logged(Spoiled(x), DOMAIN obj2)
    BY <1>1, <1>2, SpoiledFacts DEF Logged
  <2> QED
    BY <1>1, <1>3, <2>1, SpoiledFacts DEF Good
<1>4. CASE i \notin DOMAIN x.first \cup Range(x.remade)
  <2>1. x.clean => Restorable(x, obj2)
    BY <1>4, StaysRestorable DEF Good
  <2> QED
    BY <1>1, <1>2, <1>4, <2>1 DEF Good
<1> QED
  BY <1>3, <1>4

\* A step that changes the state of a transaction only, or nothing of it.
LEMMA StateGood ==
    ASSUME NEW x, NEW obj, Good(x, obj), x.state # "Rolling",
           NEW state \in {"Active", "Rolling"}
    PROVE  Good([x EXCEPT !.state = state], obj)
<1> DEFINE y == [x EXCEPT !.state = state]
<1>1. /\ y \in Tx /\ y.state = state
      /\ y.ops = x.ops /\ y.snapshots = x.snapshots /\ y.first = x.first
      /\ y.remade = x.remade /\ y.clean = x.clean
  BY DEF Good, Tx
<1> HIDE DEF y
<1>2. PICK i : i \notin DOMAIN x.first \cup Range(x.remade)
  <2> DEFINE S == DOMAIN x.first \cup Range(x.remade)
  <2>1. {j \in S : j \notin j} \notin S
    OBVIOUS
  <2> QED
    BY <2>1
<1>3. Logged(y, DOMAIN obj)
  BY <1>1 DEF Good, Logged
<1>4. x.clean => Restorable(y, obj)
  BY <1>1, <1>2, StaysRestorable DEF Good, Except
<1> QED
  BY <1>1, <1>3, <1>4 DEF Good, y

\* The snapshot of an object, taken when the transaction first looks at it.
LEMMA LookGood ==
    ASSUME NEW x, NEW obj, NEW i \in DOMAIN obj, Good(x, obj), x.state = "Active",
           obj[i] \in Object, i \in Nat, i \notin DOMAIN x.snapshots,
           NEW y, y = [x EXCEPT !.snapshots = Put(@, i, obj[i].field),
                                !.first = IF i \in DOMAIN @ \/ ~x.clean THEN @
                                          ELSE Put(@, i, obj[i])]
    PROVE  Good(y, obj)
<1> DEFINE snapshots == Put(x.snapshots, i, obj[i].field)
           first == IF i \in DOMAIN x.first \/ ~x.clean THEN x.first ELSE Put(x.first, i, obj[i])
<1>1. x \in Tx /\ Logged(x, DOMAIN obj)
  BY DEF Good
<1>2. /\ x.ops \in Seq(Op) /\ x.snapshots \in Map(Field) /\ x.first \in Map(Object)
      /\ x.remade \in Map(Nat)
  BY <1>1, TxFacts
<1>3. obj[i].field \in Field
  BY DEF Object
<1>4. /\ snapshots \in Map(Field) /\ DOMAIN snapshots = DOMAIN x.snapshots \cup {i}
      /\ snapshots[i] = obj[i].field
      /\ \A j \in DOMAIN x.snapshots \ {i} : snapshots[j] = x.snapshots[j]
  <2> DEFINE f == x.snapshots
             v == obj[i].field
  <2>1. f \in Map(Field) /\ v \in Field
    BY <1>2, <1>3
  <2> HIDE DEF f, v
  <2>2. /\ Put(f, i, v) \in Map(Field)
        /\ DOMAIN Put(f, i, v) = DOMAIN f \cup {i}
        /\ Put(f, i, v)[i] = v
        /\ \A j \in DOMAIN f \ {i} : Put(f, i, v)[j] = f[j]
    BY <2>1, PutFacts
  <2> QED
    BY <2>2 DEF f, v
<1>5. first \in Map(Object)
  BY <1>2, PutFacts
<1> HIDE DEF snapshots, first
<1>6. /\ y \in Tx /\ y.state = "Active" /\ y.ops = x.ops /\ y.snapshots = snapshots
      /\ y.first = first /\ y.remade = x.remade /\ y.clean = x.clean
  BY <1>1, <1>4, <1>5 DEF Tx, snapshots, first
<1>7. Logged(y, DOMAIN obj)
  BY <1>1, <1>4, <1>6 DEF Logged
<1>8. ASSUME x.clean PROVE Restorable(y, obj)
  <2>1. Restorable(x, obj) /\ DOMAIN x.remade = {}
    BY <1>8 DEF Good, Restorable
  <2>2. \A op, j : Has(y, op, j) <=> Has(x, op, j)
    BY <1>6 DEF Has
  <2>3. CASE i \in DOMAIN x.first
    <3>1. first = x.first
      BY <2>3 DEF first
    <3>2. ASSUME NEW j \in DOMAIN first
          PROVE  IF Live(first[j]) THEN FoundAlive(y, obj, j) ELSE NotFound(y, obj, j)
      <4>1. IF Live(x.first[j]) THEN FoundAlive(x, obj, j) ELSE NotFound(x, obj, j)
        BY <2>1, <3>1, <3>2 DEF Restorable
      <4> QED
        BY <1>4, <1>6, <2>2, <3>1, <4>1 DEF FoundAlive, NotFound
    <3> QED
      BY <1>4, <1>6, <2>1, <2>3, <3>1, <3>2 DEF Restorable
  <2>4. CASE i \notin DOMAIN x.first
    <3>1. /\ DOMAIN first = DOMAIN x.first \cup {i} /\ first[i] = obj[i]
          /\ \A j \in DOMAIN x.first \ {i} : first[j] = x.first[j]
      <4>1. first = Put(x.first, i, obj[i])
        BY <1>8, <2>4 DEF first
      <4> DEFINE f == x.first
                 v == obj[i]
      <4>2. f \in Map(Object) /\ v \in Object
        BY <1>2
      <4> HIDE DEF f, v
      <4>3. /\ DOMAIN Put(f, i, v) = DOMAIN f \cup {i}
            /\ Put(f, i, v)[i] = v
            /\ \A j \in DOMAIN f \ {i} : Put(f, i, v)[j] = f[j]
        BY <4>2, PutFacts
      <4> QED
        BY <4>1, <4>3 DEF f, v
    <3>2. \A k \in DOMAIN x.ops : x.ops[k].index # i
      BY <2>1, <2>4 DEF Restorable
    <3>3. \A op : ~Has(x, op, i)
      BY <3>2 DEF Has
    <3>4. IF Live(first[i]) THEN FoundAlive(y, obj, i) ELSE NotFound(y, obj, i)
      <4>1. CASE Live(first[i])
        BY <1>4, <1>6, <2>1, <2>2, <3>1, <3>3, <4>1 DEF FoundAlive, Live
      <4>2. CASE ~Live(first[i])
        BY <1>6, <2>2, <3>1, <3>2, <3>3, <4>2 DEF NotFound, Live
      <4> QED
        BY <4>1, <4>2
    <3>5. ASSUME NEW j \in DOMAIN x.first
          PROVE  IF Live(first[j]) THEN FoundAlive(y, obj, j) ELSE NotFound(y, obj, j)
      <4>1. IF Live(x.first[j]) THEN FoundAlive(x, obj, j) ELSE NotFound(x, obj, j)
        BY <2>1, <3>5 DEF Restorable
      <4>2. first[j] = x.first[j] /\ j # i
        BY <2>4, <3>1, <3>5
      <4> QED
        BY <1>4, <1>6, <2>2, <4>1, <4>2 DEF FoundAlive, NotFound
    <3> QED
      BY <1>4, <1>6, <2>1, <3>1, <3>4, <3>5 DEF Restorable
  <2> QED
    BY <2>3, <2>4
<1> QED
  BY <1>6, <1>7, <1>8 DEF Good

\* Positions of a log that grew by one operation.
LEMMA AppendFacts ==
    ASSUME NEW x, NEW y, NEW e \in Op, x.ops \in Seq(Op), y.ops = Append(x.ops, e)
    PROVE  /\ y.ops \in Seq(Op)
           /\ DOMAIN y.ops = DOMAIN x.ops \cup {Len(x.ops) + 1}
           /\ y.ops[Len(x.ops) + 1] = e
           /\ \A k \in DOMAIN x.ops : y.ops[k] = x.ops[k]
OBVIOUS

\* An object that the operation e was not about keeps its part.
LEMMA LogElsewhere ==
    ASSUME NEW x, NEW y, NEW obj, NEW obj2, NEW e \in Op, NEW j \in DOMAIN x.first,
           j \in DOMAIN y.first, j # e.index, j \in DOMAIN obj, Except(obj, obj2, e.index),
           x.ops \in Seq(Op), y.ops = Append(x.ops, e), y.snapshots = x.snapshots,
           y.remade = x.remade, y.first[j] = x.first[j],
           IF Live(x.first[j]) THEN FoundAlive(x, obj, j) ELSE NotFound(x, obj, j)
    PROVE  IF Live(y.first[j]) THEN FoundAlive(y, obj2, j) ELSE NotFound(y, obj2, j)
<1>1. obj2[j].field = obj[j].field /\ obj2[j].deleted = obj[j].deleted
  BY DEF Except
<1>2. \A op : Has(y, op, j) <=> Has(x, op, j)
  BY HasAppend
<1>3. CASE Live(x.first[j])
  BY <1>1, <1>2, <1>3 DEF FoundAlive
<1>4. CASE ~Live(x.first[j])
  <2>1. \A k \in DOMAIN y.ops : y.ops[k].index = j => k \in DOMAIN x.ops /\ y.ops[k] = x.ops[k]
    BY AppendFacts
  <2>2. NotFound(x, obj, j)
    BY <1>4
  <2>3. \A k, l \in DOMAIN y.ops :
            (y.ops[k].op = "Insert" /\ y.ops[l].op = "Insert" /\
             y.ops[k].index = j /\ y.ops[l].index = j) => k = l
    BY <2>1, <2>2 DEF NotFound
  <2> QED
    BY <1>1, <1>2, <1>4, <2>2, <2>3 DEF NotFound
<1> QED
  BY <1>3, <1>4

\* A logged update.
LEMMA UpdateRestorable ==
    ASSUME NEW x \in Tx, NEW y, NEW obj, NEW obj2, NEW e \in Op, Restorable(x, obj),
           x.state = "Active", y.state = "Active", Except(obj, obj2, e.index),
           y.ops = Append(x.ops, e), y.snapshots = x.snapshots, y.first = x.first,
           y.remade = x.remade, e.op = "Update", e.index \in DOMAIN x.snapshots,
           obj2[e.index].deleted = obj[e.index].deleted
    PROVE  Restorable(y, obj2)
<1> DEFINE i == e.index
<1>1. x.ops \in Seq(Op)
  BY TxFacts
<1>2. DOMAIN x.remade = {} /\ DOMAIN x.snapshots \subseteq DOMAIN x.first /\ i \in DOMAIN x.first
  BY DEF Restorable
<1>3. \A j \in DOMAIN x.first : j \in DOMAIN obj /\ j \in DOMAIN obj2
  BY DEF Restorable, Except
<1>4. \A op, j : Has(y, op, j) <=> Has(x, op, j) \/ (e.op = op /\ e.index = j)
  <2>1. /\ DOMAIN y.ops = DOMAIN x.ops \cup {Len(x.ops) + 1}
        /\ y.ops[Len(x.ops) + 1] = e
        /\ \A k \in DOMAIN x.ops : y.ops[k] = x.ops[k]
    BY <1>1, AppendFacts
  <2> QED
    BY <2>1 DEF Has
<1>5. \A k \in DOMAIN y.ops : y.ops[k].index \in DOMAIN y.first /\ y.ops[k].index \notin Range(y.remade)
  <2>1. \A k \in DOMAIN y.ops : y.ops[k] = e \/ (k \in DOMAIN x.ops /\ y.ops[k] = x.ops[k])
    BY <1>1, AppendFacts
  <2> QED
    BY <1>2, <2>1 DEF Restorable, Range
<1>6. ASSUME NEW j \in DOMAIN y.first
      PROVE  IF Live(y.first[j]) THEN FoundAlive(y, obj2, j) ELSE NotFound(y, obj2, j)
  <2>1. IF Live(x.first[j]) THEN FoundAlive(x, obj, j) ELSE NotFound(x, obj, j)
    BY <1>6 DEF Restorable
  <2>2. CASE j # i
    BY <1>1, <1>3, <1>6, <2>1, <2>2, LogElsewhere
  <2>3. CASE j = i /\ Live(x.first[j])
    BY <1>4, <2>1, <2>3 DEF FoundAlive
  <2>4. CASE j = i /\ ~Live(x.first[j])
    <3>1. \A k \in DOMAIN y.ops : y.ops[k].op = "Insert" => k \in DOMAIN x.ops /\ y.ops[k] = x.ops[k]
      BY <1>1, AppendFacts
    <3>2. NotFound(x, obj, j)
      BY <2>1, <2>4
    <3>3. \A k, l \in DOMAIN y.ops :
              (y.ops[k].op = "Insert" /\ y.ops[l].op = "Insert" /\
               y.ops[k].index = j /\ y.ops[l].index = j) => k = l
      BY <3>1, <3>2 DEF NotFound
    <3> QED
      BY <1>4, <2>4, <3>2, <3>3 DEF NotFound
  <2> QED
    BY <2>2, <2>3, <2>4
<1> QED
  BY <1>2, <1>3, <1>5, <1>6 DEF Restorable

\* A logged delete of an object that was alive, and found alive.
LEMMA DeleteRestorable ==
    ASSUME NEW x \in Tx, NEW y, NEW obj, NEW obj2, NEW e \in Op, Restorable(x, obj),
           x.state = "Active", y.state = "Active", Except(obj, obj2, e.index),
           y.ops = Append(x.ops, e), y.snapshots = x.snapshots, y.first = x.first,
           y.remade = x.remade, e.op = "Delete", e.index \in DOMAIN x.snapshots,
           obj2[e.index].field = obj[e.index].field, obj2[e.index].deleted,
           e.index \in DOMAIN x.first => Live(x.first[e.index])
    PROVE  Restorable(y, obj2)
<1> DEFINE i == e.index
<1>1. x.ops \in Seq(Op)
  BY TxFacts
<1>2. DOMAIN x.remade = {} /\ DOMAIN x.snapshots \subseteq DOMAIN x.first /\ i \in DOMAIN x.first
  BY DEF Restorable
<1>3. \A j \in DOMAIN x.first : j \in DOMAIN obj /\ j \in DOMAIN obj2
  BY DEF Restorable, Except
<1>4. \A op, j : Has(y, op, j) <=> Has(x, op, j) \/ (e.op = op /\ e.index = j)
  <2>1. /\ DOMAIN y.ops = DOMAIN x.ops \cup {Len(x.ops) + 1}
        /\ y.ops[Len(x.ops) + 1] = e
        /\ \A k \in DOMAIN x.ops : y.ops[k] = x.ops[k]
    BY <1>1, AppendFacts
  <2> QED
    BY <2>1 DEF Has
<1>5. \A k \in DOMAIN y.ops : y.ops[k].index \in DOMAIN y.first /\ y.ops[k].index \notin Range(y.remade)
  <2>1. \A k \in DOMAIN y.ops : y.ops[k] = e \/ (k \in DOMAIN x.ops /\ y.ops[k] = x.ops[k])
    BY <1>1, AppendFacts
  <2> QED
    BY <1>2, <2>1 DEF Restorable, Range
<1>6. ASSUME NEW j \in DOMAIN y.first
      PROVE  IF Live(y.first[j]) THEN FoundAlive(y, obj2, j) ELSE NotFound(y, obj2, j)
  <2>1. IF Live(x.first[j]) THEN FoundAlive(x, obj, j) ELSE NotFound(x, obj, j)
    BY <1>6 DEF Restorable
  <2>2. CASE j # i
    BY <1>1, <1>3, <1>6, <2>1, <2>2, LogElsewhere
  <2>3. CASE j = i
    BY <1>2, <1>4, <2>1, <2>3 DEF FoundAlive
  <2> QED
    BY <2>2, <2>3
<1> QED
  BY <1>2, <1>3, <1>5, <1>6 DEF Restorable

\* A logged insert.
LEMMA InsertRestorable ==
    ASSUME NEW x \in Tx, NEW y, NEW obj, NEW obj2, NEW e \in Op, Restorable(x, obj),
           x.state = "Active", y.state = "Active", Except(obj, obj2, e.index),
           y.ops = Append(x.ops, e), y.snapshots = x.snapshots, y.remade = x.remade,
           DOMAIN y.first = DOMAIN x.first \cup {e.index}, ~Live(y.first[e.index]),
           \A j \in DOMAIN x.first \ {e.index} : y.first[j] = x.first[j],
           e.op = "Insert", e.index \notin DOMAIN obj, e.index \in DOMAIN obj2,
           Live(obj2[e.index])
    PROVE  Restorable(y, obj2)
<1> DEFINE i == e.index
<1>1. x.ops \in Seq(Op)
  BY TxFacts
<1>2. DOMAIN x.remade = {} /\ DOMAIN x.snapshots \subseteq DOMAIN x.first /\ i \notin DOMAIN x.first
  BY DEF Restorable
<1>3. \A j \in DOMAIN x.first : j \in DOMAIN obj /\ j \in DOMAIN obj2
  BY DEF Restorable, Except
<1>4. \A op, j : Has(y, op, j) <=> Has(x, op, j) \/ (e.op = op /\ e.index = j)
  <2>1. /\ DOMAIN y.ops = DOMAIN x.ops \cup {Len(x.ops) + 1}
        /\ y.ops[Len(x.ops) + 1] = e
        /\ \A k \in DOMAIN x.ops : y.ops[k] = x.ops[k]
    BY <1>1, AppendFacts
  <2> QED
    BY <2>1 DEF Has
<1>5. \A k \in DOMAIN y.ops : y.ops[k].index \in DOMAIN y.first /\ y.ops[k].index \notin Range(y.remade)
  <2>1. \A k \in DOMAIN y.ops : y.ops[k] = e \/ (k \in DOMAIN x.ops /\ y.ops[k] = x.ops[k])
    BY <1>1, AppendFacts
  <2> QED
    BY <1>2, <2>1 DEF Restorable, Range
<1>6. ASSUME NEW j \in DOMAIN x.first
      PROVE  IF Live(y.first[j]) THEN FoundAlive(y, obj2, j) ELSE NotFound(y, obj2, j)
  <2>1. IF Live(x.first[j]) THEN FoundAlive(x, obj, j) ELSE NotFound(x, obj, j)
    BY <1>6 DEF Restorable
  <2>2. j # i /\ y.first[j] = x.first[j] /\ j \in DOMAIN y.first /\ j \in DOMAIN obj
    BY <1>2, <1>3, <1>6
  <2> QED
    BY <1>1, <1>6, <2>1, <2>2, LogElsewhere
<1>7. NotFound(y, obj2, i)
  <2>1. \A k \in DOMAIN x.ops : x.ops[k].index # i
    BY <1>2 DEF Restorable
  <2>2. \A op : ~Has(x, op, i)
    BY <2>1 DEF Has
  <2>3. \A k \in DOMAIN y.ops : y.ops[k].index = i => k = Len(x.ops) + 1
    BY <1>1, <2>1, AppendFacts
  <2> QED
    BY <1>4, <2>2, <2>3 DEF NotFound, Live
<1> QED
  BY <1>2, <1>3, <1>5, <1>6, <1>7 DEF Restorable

\* The undo of an insert deletes the object.
LEMMA UndoInsert ==
    ASSUME NEW x \in Tx, NEW y, NEW obj, NEW obj2, Restorable(x, obj), x.ops # <<>>,
           x.state = "Rolling", y.state = "Rolling", y.ops = Front(x.ops),
           y.snapshots = x.snapshots, y.first = x.first, y.remade = x.remade,
           Last(x.ops).op = "Insert", Except(obj, obj2, Last(x.ops).index),
           obj2[Last(x.ops).index].deleted
    PROVE  Restorable(y, obj2)
<1> DEFINE e == Last(x.ops)
           i == e.index
<1>1. /\ x.ops \in Seq(Op) /\ e \in Op
      /\ DOMAIN y.ops \subseteq DOMAIN x.ops /\ Len(x.ops) \in DOMAIN x.ops
      /\ x.ops[Len(x.ops)] = e
      /\ \A k \in DOMAIN y.ops : y.ops[k] = x.ops[k] /\ k # Len(x.ops)
  BY TxFacts, FrontLast
<1>2. \A op, j : Has(x, op, j) <=> Has(y, op, j) \/ (e.op = op /\ i = j)
  BY <1>1, HasFront
<1> HIDE DEF e
<1>3. \A j \in DOMAIN x.first : j \in DOMAIN obj /\ j \in DOMAIN obj2
  BY DEF Restorable, Except
<1>4. i \in DOMAIN x.first /\ i \notin Range(x.remade)
  BY <1>1 DEF Restorable
<1>6. ASSUME NEW j \in DOMAIN y.first
      PROVE  IF Live(y.first[j]) THEN FoundAlive(y, obj2, j) ELSE NotFound(y, obj2, j)
  <2>1. IF Live(x.first[j]) THEN FoundAlive(x, obj, j) ELSE NotFound(x, obj, j)
    BY <1>6 DEF Restorable
  <2>2. CASE j # i
    <3>1. \A op : Has(x, op, j) <=> Has(y, op, j)
      BY <1>2, <2>2
    <3>2. obj2[j].field = obj[j].field /\ obj2[j].deleted = obj[j].deleted
      BY <1>3, <1>6, <2>2 DEF Except, e
    <3>3. CASE Live(x.first[j])
      BY <2>1, <2>2, <3>1, <3>2, <3>3 DEF FoundAlive
    <3>4. CASE ~Live(x.first[j])
      <4>1. NotFound(x, obj, j)
        BY <2>1, <3>4
      <4> QED
        BY <1>1, <3>1, <3>2, <3>4, <4>1 DEF NotFound
    <3> QED
      BY <3>3, <3>4
  <2>3. CASE j = i
    <3>1. e.op = "Insert" /\ obj2[i].deleted
      BY DEF e
    <3>2. Has(x, "Insert", i)
      BY <1>2, <3>1
    <3>3. ~Live(x.first[i]) /\ NotFound(x, obj, i)
      BY <2>1, <2>3, <3>2 DEF FoundAlive
    <3>4. ~Has(y, "Insert", i)
      BY <1>1, <3>1, <3>3 DEF NotFound, Has
    <3>5. ~Has(y, "Delete", i)
      BY <1>2, <3>3 DEF NotFound
    <3> QED
      BY <1>1, <2>3, <3>1, <3>3, <3>4, <3>5 DEF NotFound
  <2> QED
    BY <2>2, <2>3
<1>7. ASSUME NEW j \in DOMAIN y.remade PROVE Remade(y, obj2, j)
  <2>1. Remade(x, obj, j) /\ x.remade[j] # i
    BY <1>4, <1>7 DEF Restorable, Range
  <2> QED
    BY <2>1 DEF Remade, Except, Live, e
<1>8. \A k \in DOMAIN y.ops : y.ops[k].index \in DOMAIN y.first /\ y.ops[k].index \notin Range(y.remade)
  BY <1>1 DEF Restorable
<1> QED
  BY <1>3, <1>6, <1>7, <1>8 DEF Restorable

\* The undo of an update puts the snapshot back.
LEMMA UndoUpdate ==
    ASSUME NEW x \in Tx, NEW y, NEW obj, NEW obj2, Restorable(x, obj), x.ops # <<>>,
           x.state = "Rolling", y.state = "Rolling", y.ops = Front(x.ops),
           y.snapshots = x.snapshots, y.first = x.first, y.remade = x.remade,
           Last(x.ops).op = "Update", Except(obj, obj2, Last(x.ops).index),
           obj2[Last(x.ops).index].deleted = obj[Last(x.ops).index].deleted,
           obj2[Last(x.ops).index].field = x.snapshots[Last(x.ops).index]
    PROVE  Restorable(y, obj2)
<1> DEFINE e == Last(x.ops)
           i == e.index
<1>1. /\ x.ops \in Seq(Op) /\ e \in Op
      /\ DOMAIN y.ops \subseteq DOMAIN x.ops /\ Len(x.ops) \in DOMAIN x.ops
      /\ x.ops[Len(x.ops)] = e
      /\ \A k \in DOMAIN y.ops : y.ops[k] = x.ops[k] /\ k # Len(x.ops)
  BY TxFacts, FrontLast, SMTT(30)
<1>2. \A op, j : Has(x, op, j) <=> Has(y, op, j) \/ (e.op = op /\ i = j)
  BY <1>1, HasFront
<1> HIDE DEF e
<1>3. \A j \in DOMAIN x.first : j \in DOMAIN obj /\ j \in DOMAIN obj2
  BY DEF Restorable, Except
<1>4. i \in DOMAIN x.first /\ i \notin Range(x.remade)
  BY <1>1 DEF Restorable
<1>6. ASSUME NEW j \in DOMAIN y.first
      PROVE  IF Live(y.first[j]) THEN FoundAlive(y, obj2, j) ELSE NotFound(y, obj2, j)
  <2>1. IF Live(x.first[j]) THEN FoundAlive(x, obj, j) ELSE NotFound(x, obj, j)
    BY <1>6 DEF Restorable
  <2>2. CASE j # i
    <3>1. \A op : Has(x, op, j) <=> Has(y, op, j)
      BY <1>2, <2>2
    <3>2. obj2[j].field = obj[j].field /\ obj2[j].deleted = obj[j].deleted
      BY <1>3, <1>6, <2>2 DEF Except, e
    <3>3. CASE Live(x.first[j])
      BY <2>1, <2>2, <3>1, <3>2, <3>3 DEF FoundAlive
    <3>4. CASE ~Live(x.first[j])
      <4>1. NotFound(x, obj, j)
        BY <2>1, <3>4
      <4> QED
        BY <1>1, <3>1, <3>2, <3>4, <4>1 DEF NotFound
    <3> QED
      BY <3>3, <3>4
  <2>3. CASE j = i
    <3>1. e.op = "Update" /\ obj2[i].deleted = obj[i].deleted /\ obj2[i].field = x.snapshots[i]
      BY DEF e
    <3>2. \A op : op # "Update" => (Has(x, op, i) <=> Has(y, op, i))
      BY <1>2, <3>1
    <3>3. (Has(x, "Insert", i) <=> Has(y, "Insert", i)) /\ (Has(x, "Delete", i) <=> Has(y, "Delete", i))
      BY <3>2
    <3>4. CASE Live(x.first[i])
      BY <2>1, <2>3, <3>1, <3>3, <3>4 DEF FoundAlive
    <3>5. CASE ~Live(x.first[i])
      <4>1. NotFound(x, obj, i)
        BY <2>1, <2>3, <3>5
      <4> QED
        BY <1>1, <2>3, <3>1, <3>3, <3>5, <4>1 DEF NotFound
    <3> QED
      BY <3>4, <3>5
  <2> QED
    BY <2>2, <2>3
<1>7. ASSUME NEW j \in DOMAIN y.remade PROVE Remade(y, obj2, j)
  <2>1. Remade(x, obj, j) /\ x.remade[j] # i
    BY <1>4, <1>7 DEF Restorable, Range
  <2> QED
    BY <2>1 DEF Remade, Except, Live, e
<1>8. \A k \in DOMAIN y.ops : y.ops[k].index \in DOMAIN y.first /\ y.ops[k].index \notin Range(y.remade)
  BY <1>1 DEF Restorable
<1> QED
  BY <1>3, <1>6, <1>7, <1>8 DEF Restorable

\* The undo of a delete makes a new object with the snapshot.
LEMMA UndoDelete ==
    ASSUME NEW x \in Tx, NEW y, NEW obj, NEW obj2, Restorable(x, obj), x.ops # <<>>,
           x.state = "Rolling", y.state = "Rolling", y.ops = Front(x.ops),
           y.snapshots = x.snapshots, y.first = x.first, x.remade \in Map(Nat),
           NEW n \in Nat, y.remade = Put(x.remade, Last(x.ops).index, n),
           Last(x.ops).op = "Delete", Except(obj, obj2, n), n \notin DOMAIN obj,
           n \in DOMAIN obj2, Live(obj2[n]),
           obj2[n].field = x.snapshots[Last(x.ops).index]
    PROVE  Restorable(y, obj2)
<1> DEFINE e == Last(x.ops)
           i == e.index
<1>1. /\ x.ops \in Seq(Op) /\ e \in Op
      /\ DOMAIN y.ops \subseteq DOMAIN x.ops /\ Len(x.ops) \in DOMAIN x.ops
      /\ x.ops[Len(x.ops)] = e
      /\ \A k \in DOMAIN y.ops : y.ops[k] = x.ops[k] /\ k # Len(x.ops)
  BY TxFacts, FrontLast
<1>2. \A op, j : Has(x, op, j) <=> Has(y, op, j) \/ (e.op = op /\ i = j)
  BY <1>1, HasFront
<1> HIDE DEF e
<1>3. \A j \in DOMAIN x.first : j \in DOMAIN obj /\ j \in DOMAIN obj2
  BY DEF Restorable, Except
<1>4. i \in DOMAIN x.first /\ i \notin Range(x.remade)
  BY <1>1 DEF Restorable
<1>5. /\ DOMAIN y.remade = DOMAIN x.remade \cup {i} /\ y.remade[i] = n
      /\ \A j \in DOMAIN x.remade \ {i} : y.remade[j] = x.remade[j]
  <2> DEFINE f == x.remade
  <2>1. f \in Map(Nat) /\ i \in Nat /\ y.remade = Put(f, i, n)
    BY <1>1 DEF Op, e
  <2> HIDE DEF f, i
  <2>2. /\ DOMAIN Put(f, i, n) = DOMAIN f \cup {i} /\ Put(f, i, n)[i] = n
        /\ \A j \in DOMAIN f \ {i} : Put(f, i, n)[j] = f[j]
    BY DEF Put
  <2> QED
    BY <2>1, <2>2 DEF f
<1>6. ASSUME NEW j \in DOMAIN y.first
      PROVE  IF Live(y.first[j]) THEN FoundAlive(y, obj2, j) ELSE NotFound(y, obj2, j)
  <2>1. IF Live(x.first[j]) THEN FoundAlive(x, obj, j) ELSE NotFound(x, obj, j)
    BY <1>6 DEF Restorable
  <2>2. CASE j # i
    <3>1. \A op : Has(x, op, j) <=> Has(y, op, j)
      BY <1>2, <2>2
    <3>2. obj2[j].field = obj[j].field /\ obj2[j].deleted = obj[j].deleted
      BY <1>3, <1>6, <2>2 DEF Except
    <3>3. CASE Live(x.first[j])
      BY <1>5, <2>1, <2>2, <3>1, <3>2, <3>3 DEF FoundAlive
    <3>4. CASE ~Live(x.first[j])
      <4>1. NotFound(x, obj, j)
        BY <2>1, <3>4
      <4> QED
        BY <1>1, <3>1, <3>2, <3>4, <4>1 DEF NotFound
    <3> QED
      BY <3>3, <3>4
  <2>3. CASE j = i
    <3>1. e.op = "Delete"
      BY DEF e
    <3>2. Has(x, "Delete", i)
      BY <1>2, <3>1
    <3>3. Live(x.first[i]) /\ FoundAlive(x, obj, i)
      BY <2>1, <2>3, <3>2 DEF NotFound
    <3>4. obj2[i].field = obj[i].field /\ obj2[i].deleted = obj[i].deleted
      BY <1>3, <1>4 DEF Except
    <3>5. \A op : op # "Delete" => (Has(x, op, i) <=> Has(y, op, i))
      BY <1>2, <3>1
    <3>6. (Has(x, "Insert", i) <=> Has(y, "Insert", i)) /\ (Has(x, "Update", i) <=> Has(y, "Update", i))
      BY <3>5
    <3> QED
      BY <1>5, <2>3, <3>2, <3>3, <3>4, <3>6 DEF FoundAlive
  <2> QED
    BY <2>2, <2>3
<1>7. ASSUME NEW j \in DOMAIN y.remade PROVE Remade(y, obj2, j)
  <2>1. CASE j # i
    <3>1. j \in DOMAIN x.remade /\ y.remade[j] = x.remade[j]
      BY <1>5, <1>7, <2>1
    <3>2. Remade(x, obj, j)
      BY <3>1 DEF Restorable
    <3> QED
      BY <3>1, <3>2 DEF Remade, Except, Live
  <2>2. CASE j = i
    <3>1. Has(x, "Delete", i)
      BY <1>2 DEF e
    <3>2. IF Live(x.first[i]) THEN FoundAlive(x, obj, i) ELSE NotFound(x, obj, i)
      BY <1>4 DEF Restorable
    <3>3. FoundAlive(x, obj, i) /\ Live(x.first[i])
      BY <3>1, <3>2 DEF NotFound
    <3>4. obj2[n].field = x.first[i].field
      BY <3>3 DEF FoundAlive, e
    <3> QED
      BY <1>4, <1>5, <2>2, <3>3, <3>4 DEF Remade
  <2> QED
    BY <2>1, <2>2
<1>8. \A k \in DOMAIN y.ops : y.ops[k].index \in DOMAIN y.first /\ y.ops[k].index \notin Range(y.remade)
  BY <1>1, <1>3, <1>5 DEF Restorable, Range
<1> QED
  BY <1>3, <1>6, <1>7, <1>8 DEF Restorable

(***************************************************************************)
(* What the engine's operations do to the objects.                         *)
(***************************************************************************)
LEMMA CreateEffect ==
    ASSUME DataInv, NEW v \in Field, Create(v)
    PROVE  LET n == Len(objects) + 1 IN
           /\ n \in Nat /\ n \notin DOMAIN objects /\ n \in DOMAIN objects'
           /\ Live(objects'[n]) /\ objects'[n].field = v
           /\ \A i : Except(objects, objects', i)
<1> DEFINE n == Len(objects) + 1
           o == [field |-> v, deleted |-> FALSE, cached |-> TRUE]
<1>1. objects' = Append(objects, o) /\ objects \in Seq(Object)
  BY DEF DataInv, DataType, Create
<1>2. o.field = v /\ o.deleted = FALSE
  OBVIOUS
<1> HIDE DEF o
<1>3. /\ n \in Nat /\ n \notin DOMAIN objects /\ n \in DOMAIN objects' /\ objects'[n] = o
      /\ DOMAIN objects \subseteq DOMAIN objects'
      /\ \A j \in DOMAIN objects : objects'[j] = objects[j]
  BY <1>1
<1> QED
  BY <1>2, <1>3 DEF Except, Live

LEMMA UpdateEffect ==
    ASSUME DataInv, NEW i \in Ids, NEW v \in Field, Update(i, v)
    PROVE  /\ Except(objects, objects', i) /\ DOMAIN objects' = DOMAIN objects
           /\ objects'[i].deleted = objects[i].deleted /\ objects'[i].field = v
<1> DEFINE o == [objects[i] EXCEPT !.field = v, !.cached = TRUE]
<1>1. objects' = [objects EXCEPT ![i] = o]
  BY DEF Update
<1>2. objects[i] \in Object
  BY IdsFacts DEF DataInv
<1>3. o \in Object /\ o.field = v /\ o.deleted = objects[i].deleted
  BY <1>2 DEF Object
<1> HIDE DEF o
<1>4. /\ Ids' = Ids /\ objects'[i] = o /\ \A j \in Ids \ {i} : objects'[j] = objects[j]
  BY <1>1, <1>3, WriteFacts DEF DataInv
<1> QED
  BY <1>3, <1>4 DEF Except, Ids

LEMMA DeleteEffect ==
    ASSUME DataInv, NEW i \in Ids, Delete(i)
    PROVE  /\ Except(objects, objects', i) /\ DOMAIN objects' = DOMAIN objects
           /\ objects'[i].deleted /\ objects'[i].field = objects[i].field
<1> DEFINE o == [objects[i] EXCEPT !.deleted = TRUE, !.cached = TRUE]
           p == [objects[i] EXCEPT !.cached = TRUE]
<1>1. objects[i] \in Object
  BY IdsFacts DEF DataInv
<1>2. /\ o \in Object /\ o.field = objects[i].field /\ o.deleted
      /\ p \in Object /\ p.field = objects[i].field /\ p.deleted = objects[i].deleted
  BY <1>1 DEF Object
<1>3. objects' = [objects EXCEPT ![i] = o] \/ (objects' = [objects EXCEPT ![i] = p] /\ objects[i].deleted)
  BY DEF Delete
<1> HIDE DEF o, p
<1>4. /\ Ids' = Ids /\ \A j \in Ids \ {i} : objects'[j] = objects[j]
      /\ objects'[i].deleted /\ objects'[i].field = objects[i].field
  BY <1>2, <1>3, WriteFacts DEF DataInv
<1> QED
  BY <1>4 DEF Except, Ids

LEMMA GetEffect ==
    ASSUME DataInv, NEW i \in Ids, Get(i)
    PROVE  (\A j : Except(objects, objects', j)) /\ DOMAIN objects' = DOMAIN objects
<1> DEFINE p == [objects[i] EXCEPT !.cached = TRUE]
<1>1. objects[i] \in Object
  BY IdsFacts DEF DataInv
<1>2. p \in Object /\ p.field = objects[i].field /\ p.deleted = objects[i].deleted
  BY <1>1 DEF Object
<1>3. objects' = [objects EXCEPT ![i] = p]
  BY DEF Get
<1> HIDE DEF p
<1>4. /\ Ids' = Ids /\ objects'[i] = p /\ \A j \in Ids \ {i} : objects'[j] = objects[j]
  BY <1>2, <1>3, WriteFacts DEF DataInv
<1> QED
  BY <1>2, <1>4 DEF Except, Ids

(***************************************************************************)
(* Steps of the transactions.                                              *)
(***************************************************************************)

\* A transaction nobody interferes with stays good.
LEMMA SameGood ==
    ASSUME NEW x, NEW obj, NEW obj2, Good(x, obj), \A i : Except(obj, obj2, i)
    PROVE  Good(x, obj2)
<1>1. PICK i : i \notin DOMAIN x.first \cup Range(x.remade)
  <2> DEFINE S == DOMAIN x.first \cup Range(x.remade)
  <2>1. {j \in S : j \notin j} \notin S
    OBVIOUS
  <2> QED
    BY <2>1
<1>2. Except(obj, obj2, i)
  OBVIOUS
<1>3. Good(IF i \in DOMAIN x.first \cup Range(x.remade) THEN Spoiled(x) ELSE x, obj2)
  BY <1>2, OtherGood
<1> QED
  BY <1>1, <1>3

\* Transaction t becomes y, and the others are not written to.
LEMMA QuietStep ==
    ASSUME TxInv, NEW t \in Transactions, NEW y, tx' = [tx EXCEPT ![t] = y],
           \A i : Except(objects, objects', i), Good(y, objects')
    PROVE  TxInv'
<1>1. y \in Tx
  BY DEF Good
<1>2. \A u \in Transactions : Good(tx[u], objects')
  BY SameGood DEF TxInv
<1>3. tx' \in [Transactions -> Tx] /\ tx'[t] = y /\ \A u \in Transactions \ {t} : tx'[u] = tx[u]
  BY <1>1 DEF TxInv
<1>4. \A u \in Transactions : Good(tx'[u], objects')
  BY <1>2, <1>3
<1> QED
  BY <1>3, <1>4 DEF TxInv

\* Transaction t wrote object i and becomes y; those that met i are spoiled.
LEMMA WriteStep ==
    ASSUME TxInv, NEW t \in Transactions, NEW i, NEW y,
           tx' = [Disturbed(t, i) EXCEPT ![t] = y],
           Except(objects, objects', i), Good(y, objects')
    PROVE  TxInv'
<1>1. y \in Tx
  BY DEF Good
<1>2. \A u \in Transactions : tx[u] \in Tx /\ Good(tx[u], objects)
  BY DEF TxInv
<1>3. \A u \in Transactions :
          Good(IF i \in DOMAIN tx[u].first \cup Range(tx[u].remade) THEN Spoiled(tx[u]) ELSE tx[u],
               objects')
  BY <1>2, OtherGood
<1>4. /\ DOMAIN tx' = Transactions /\ tx'[t] = y
      /\ tx' = [u \in Transactions |-> tx'[u]]
      /\ \A u \in Transactions \ {t} :
            tx'[u] = IF i \in DOMAIN tx[u].first \cup Range(tx[u].remade) THEN Spoiled(tx[u]) ELSE tx[u]
  BY DEF Disturbed, Footprint
<1>5. \A u \in Transactions : Good(tx'[u], objects')
  BY <1>3, <1>4
<1>6. tx' \in [Transactions -> Tx]
  BY <1>4, <1>5 DEF Good
<1> QED
  BY <1>5, <1>6 DEF TxInv

\* The record of a transaction that logged operation e.
LEMMA LogFacts ==
    ASSUME NEW x, NEW obj, NEW obj2, NEW e \in Op, Good(x, obj), Except(obj, obj2, e.index),
           e.index \in DOMAIN obj2, e.op # "Insert" => e.index \in DOMAIN x.snapshots,
           NEW logged, logged = [x EXCEPT !.ops = Append(@, e)]
    PROVE  /\ logged \in Tx /\ logged.ops = Append(x.ops, e) /\ logged.state = x.state
           /\ logged.snapshots = x.snapshots /\ logged.first = x.first
           /\ logged.remade = x.remade /\ logged.clean = x.clean
           /\ Logged(logged, DOMAIN obj2)
<1>1. x \in Tx /\ Logged(x, DOMAIN obj) /\ DOMAIN obj \subseteq DOMAIN obj2
  BY DEF Good, Except
<1>2. x.ops \in Seq(Op)
  BY <1>1, TxFacts
<1>3. Append(x.ops, e) \in Seq(Op)
  BY <1>2
<1>4. /\ logged \in Tx /\ logged.ops = Append(x.ops, e) /\ logged.state = x.state
      /\ logged.snapshots = x.snapshots /\ logged.first = x.first
      /\ logged.remade = x.remade /\ logged.clean = x.clean
  BY <1>1, <1>3 DEF Tx
<1>5. \A k \in DOMAIN logged.ops : logged.ops[k] = e \/ (k \in DOMAIN x.ops /\ logged.ops[k] = x.ops[k])
  BY <1>2, <1>4, AppendFacts
<1>6. Logged(logged, DOMAIN obj2)
  BY <1>1, <1>4, <1>5 DEF Logged
<1> QED
  BY <1>4, <1>6

\* What a transaction makes of itself when it undoes its last operation.
LEMMA UndoGood ==
    ASSUME NEW x, NEW obj, NEW obj2, Good(x, obj), x.state = "Rolling", x.ops # <<>>,
           NEW n \in Nat,
           \/ /\ Last(x.ops).op = "Insert" /\ Except(obj, obj2, Last(x.ops).index)
              /\ obj2[Last(x.ops).index].deleted
           \/ /\ Last(x.ops).op = "Update" /\ Except(obj, obj2, Last(x.ops).index)
              /\ obj2[Last(x.ops).index].deleted = obj[Last(x.ops).index].deleted
              /\ obj2[Last(x.ops).index].field = x.snapshots[Last(x.ops).index]
           \/ /\ Last(x.ops).op = "Delete" /\ Except(obj, obj2, n)
              /\ n \notin DOMAIN obj /\ n \in DOMAIN obj2 /\ Live(obj2[n])
              /\ obj2[n].field = x.snapshots[Last(x.ops).index],
           NEW y, y = [x EXCEPT !.ops = Front(@),
                                !.remade = IF Last(x.ops).op = "Delete" /\ x.clean
                                           THEN Put(@, Last(x.ops).index, n) ELSE @]
    PROVE  Good(y, obj2)
<1> DEFINE e == Last(x.ops)
           remade == IF e.op = "Delete" /\ x.clean THEN Put(x.remade, e.index, n) ELSE x.remade
<1>1. x \in Tx /\ Logged(x, DOMAIN obj) /\ DOMAIN obj \subseteq DOMAIN obj2
  BY DEF Good, Except
<1>2. x.ops \in Seq(Op) /\ x.remade \in Map(Nat)
  BY <1>1, TxFacts
<1>3. /\ Front(x.ops) \in Seq(Op) /\ e \in Op /\ e.index \in Nat
      /\ DOMAIN Front(x.ops) \subseteq DOMAIN x.ops
      /\ \A k \in DOMAIN Front(x.ops) : Front(x.ops)[k] = x.ops[k]
  <2>1. /\ Front(x.ops) \in Seq(Op) /\ e \in Op
        /\ DOMAIN Front(x.ops) \subseteq DOMAIN x.ops
        /\ \A k \in DOMAIN Front(x.ops) : Front(x.ops)[k] = x.ops[k]
    BY <1>2, FrontLast, SMTT(30)
  <2> QED
    BY <2>1 DEF Op
<1>4. remade \in Map(Nat)
  <2> DEFINE f == x.remade
             i == e.index
  <2>1. f \in Map(Nat) /\ i \in Nat
    BY <1>2, <1>3
  <2> HIDE DEF f, i
  <2>2. Put(f, i, n) \in Map(Nat)
    BY <2>1, PutFacts
  <2> QED
    BY <2>1, <2>2 DEF f, i
<1> DEFINE front == Front(x.ops)
<1> HIDE DEF remade, front
<1>5. y = [x EXCEPT !.ops = front, !.remade = remade]
  BY DEF remade, front
<1>6. /\ y \in Tx /\ y.ops = front /\ y.state = "Rolling"
      /\ y.snapshots = x.snapshots /\ y.first = x.first
      /\ y.remade = remade /\ y.clean = x.clean
  <2>1. front \in Seq(Op)
    BY <1>3 DEF front
  <2> QED
    BY <1>1, <1>4, <1>5, <2>1 DEF Tx
<1>7. Logged(y, DOMAIN obj2)
  BY <1>1, <1>3, <1>6 DEF Logged, front
<1>8. ASSUME x.clean PROVE Restorable(y, obj2)
  <2>1. Restorable(x, obj)
    BY <1>8 DEF Good
  <2>2. y.ops = Front(x.ops)
    BY <1>6 DEF front
  <2>3. CASE e.op = "Insert"
    <3>1. remade = x.remade
      BY <2>3 DEF remade
    <3>2. Except(obj, obj2, e.index) /\ obj2[e.index].deleted
      BY <2>3
    <3> QED
      BY <1>1, <1>6, <2>1, <2>2, <2>3, <3>1, <3>2, UndoInsert
  <2>4. CASE e.op = "Update"
    <3>1. remade = x.remade
      BY <2>4 DEF remade
    <3>2. /\ Except(obj, obj2, e.index) /\ obj2[e.index].deleted = obj[e.index].deleted
          /\ obj2[e.index].field = x.snapshots[e.index]
      BY <2>4
    <3> QED
      BY <1>1, <1>6, <2>1, <2>2, <2>4, <3>1, <3>2, UndoUpdate
  <2>5. CASE e.op = "Delete"
    <3>1. remade = Put(x.remade, e.index, n)
      BY <1>8, <2>5 DEF remade
    <3>2. /\ Except(obj, obj2, n) /\ n \notin DOMAIN obj /\ n \in DOMAIN obj2 /\ Live(obj2[n])
          /\ obj2[n].field = x.snapshots[e.index]
      BY <2>5
    <3> QED
      BY <1>1, <1>2, <1>6, <2>1, <2>2, <2>5, <3>1, <3>2, UndoDelete, ZenonT(30)
  <2> QED
    BY <2>3, <2>4, <2>5
<1> QED
  BY <1>6, <1>7, <1>8 DEF Good

(***************************************************************************)
(* The invariant.                                                          *)
(***************************************************************************)
LEMMA InitIInv == Init => IInv
<1> SUFFICES ASSUME Init PROVE IInv
  OBVIOUS
<1>1. PICK fields \in [1 .. Stored -> Values] :
          objects = [i \in 1 .. Stored |-> [field |-> fields[i], deleted |-> FALSE, cached |-> FALSE]]
  BY DEF Init
<1>2. \A i \in 1 .. Stored : [field |-> fields[i], deleted |-> FALSE, cached |-> FALSE] \in Object
  BY <1>1 DEF Object, Field
<1>3. objects \in [1 .. Stored -> Object]
  BY <1>1, <1>2
<1>4. objects \in Seq(Object) /\ Len(objects) = Stored
  BY <1>3, ObjectsAssumption
<1>5. index = NoIndex /\ NoIndex \in Index /\ NoIndex.kind = "none" /\ known = {} /\ revived = {}
  BY ObjectsAssumption DEF Init, NoIndex, Index
<1>6. DataInv
  BY <1>4, <1>5, ObjectsAssumption DEF DataInv, DataType, Indexed
<1>7. Good(NewTx("None"), objects)
  BY NewTxGood
<1>8. tx = [t \in Transactions |-> NewTx("None")]
  BY DEF Init
<1>9. TxInv
  BY <1>7, <1>8 DEF TxInv, Good
<1> QED
  BY <1>6, <1>9 DEF IInv

\* A step that leaves the objects, the index and its histories alone.
LEMMA DataSame ==
    ASSUME DataInv, UNCHANGED <<objects, index, revived, known>>
    PROVE  DataInv' /\ \A i : Except(objects, objects', i)
BY DEF DataInv, DataType, Indexed, Under, Lists, Live, Ids, Except

\* A step of the engine that no transaction takes.
LEMMA EngineStep ==
    ASSUME IInv, DataInv', tx' = tx, \A i : Except(objects, objects', i)
    PROVE  IInv'
<1>1. \A u \in Transactions : Good(tx[u], objects')
  BY SameGood DEF IInv, TxInv
<1> QED
  BY <1>1 DEF IInv, TxInv

LEMMA LookStep ==
    ASSUME IInv, NEW t \in Transactions, NEW i \in Ids, Look(t, i)
    PROVE  IInv'
<1>1. DataInv /\ TxInv /\ Get(i) /\ tx[t].state = "Active" /\ Snapshot(t, i) # tx[t].snapshots
  BY DEF IInv, Look
<1>2. DataInv' /\ \A j : Except(objects, objects', j)
  BY <1>1, GetKeeps, GetEffect
<1> DEFINE x == tx[t]
           y == [x EXCEPT !.snapshots = Put(@, i, objects[i].field),
                          !.first = IF i \in DOMAIN @ \/ ~x.clean THEN @
                                    ELSE Put(@, i, objects[i])]
<1>3. i \notin DOMAIN x.snapshots /\ Snapshot(t, i) = Put(x.snapshots, i, objects[i].field)
  BY <1>1 DEF Snapshot
<1>4. tx' = [tx EXCEPT ![t] = y]
  BY <1>1, <1>3 DEF Look, TxInv
<1>5. Good(x, objects) /\ i \in DOMAIN objects /\ objects[i] \in Object /\ i \in Nat
  BY <1>1, IdsFacts DEF TxInv, DataInv, Ids
<1>6. Good(y, objects)
  <2> HIDE DEF x
  <2>1. x.state = "Active"
    BY <1>1 DEF x
  <2> QED
    BY <1>3, <1>5, <2>1, LookGood
<1> HIDE DEF y
<1>7. Good(y, objects')
  BY <1>2, <1>6, SameGood
<1>8. TxInv'
  BY <1>1, <1>2, <1>4, <1>7, QuietStep
<1> QED
  BY <1>2, <1>8 DEF IInv

\* A logged operation whose effect on the objects is known.
LEMMA LogStep ==
    ASSUME IInv, NEW t \in Transactions, NEW i \in Nat, NEW op \in {"Insert", "Update", "Delete"},
           tx[t].state = "Active", Log(t, i, op), DataInv',
           Except(objects, objects', i), i \in DOMAIN objects',
           op = "Insert" => i \notin DOMAIN objects /\ Live(objects'[i]),
           op # "Insert" => i \in DOMAIN tx[t].snapshots,
           op = "Update" => objects'[i].deleted = objects[i].deleted,
           op = "Delete" => objects'[i].field = objects[i].field /\ objects'[i].deleted
    PROVE  IInv'
<1> DEFINE x == tx[t]
           logged == [x EXCEPT !.ops = Append(@, [op |-> op, index |-> i])]
           safe == op = "Delete" => Live(objects[i]) /\ (i \in DOMAIN x.first => Live(x.first[i]))
           absent == [field |-> Missing, deleted |-> TRUE, cached |-> TRUE]
           y == IF ~logged.clean \/ ~safe THEN Spoiled(logged)
                ELSE IF op = "Insert" THEN [logged EXCEPT !.first = Put(@, i, absent)]
                ELSE logged
<1>1. tx' = [Disturbed(t, i) EXCEPT ![t] = y]
  BY DEF Log
<1>2. Good(x, objects)
  BY DEF IInv, TxInv
<1>3. absent \in Object /\ absent.deleted
  BY DEF Object, Field
<1>4. safe \in BOOLEAN /\ (safe /\ op = "Delete" => (i \in DOMAIN x.first => Live(x.first[i])))
  OBVIOUS
<1>5. x.state = "Active" /\ (op # "Insert" => i \in DOMAIN x.snapshots)
  OBVIOUS
<1> DEFINE e == [op |-> op, index |-> i]
<1>6. e \in Op /\ e.op = op /\ e.index = i
  BY DEF Op
<1>7. Except(objects, objects', e.index) /\ e.index \in DOMAIN objects' /\ x \in Tx
  BY <1>2, <1>6 DEF Good
<1>8. logged = [x EXCEPT !.ops = Append(@, e)]
  OBVIOUS
<1> HIDE DEF e, logged
<1>9. /\ logged \in Tx /\ logged.ops = Append(x.ops, e) /\ logged.state = "Active"
      /\ logged.snapshots = x.snapshots /\ logged.first = x.first
      /\ logged.remade = x.remade /\ logged.clean = x.clean
      /\ Logged(logged, DOMAIN objects')
  <2> HIDE DEF x
  <2>1. e.op # "Insert" => e.index \in DOMAIN x.snapshots
    BY <1>5, <1>6
  <2> QED
    BY <1>2, <1>5, <1>6, <1>7, <1>8, <2>1, LogFacts
<1>10. Good(y, objects')
  <2> HIDE DEF x
  <2>1. CASE ~logged.clean \/ ~safe
    <3>1. Logged(Spoiled(logged), DOMAIN objects')
      BY <1>9, SpoiledFacts DEF Logged
    <3> QED
      BY <1>9, <2>1, <3>1, SpoiledFacts DEF Good
  <2>2. CASE logged.clean /\ safe /\ op = "Insert"
    <3> DEFINE first == Put(x.first, i, absent)
               z == [logged EXCEPT !.first = first]
    <3>1. x.first \in Map(Object)
      BY <1>7, TxFacts
    <3>2. first \in Map(Object)
      BY <1>3, <3>1, PutFacts
    <3>3. /\ DOMAIN first = DOMAIN x.first \cup {i} /\ first[i] = absent
          /\ \A j \in DOMAIN x.first \ {i} : first[j] = x.first[j]
      BY DEF Put
    <3> HIDE DEF first
    <3>4. /\ z \in Tx /\ z.ops = Append(x.ops, e) /\ z.state = "Active"
          /\ z.snapshots = x.snapshots /\ z.first = first /\ z.remade = x.remade
      BY <1>9, <3>2 DEF Tx
    <3>5. y = z
      BY <1>9, <2>2 DEF first
    <3> HIDE DEF z, safe, absent
    <3>6. ~Live(z.first[e.index]) /\ e.index \notin DOMAIN objects /\ Live(objects'[e.index])
      BY <1>3, <1>6, <2>2, <3>3, <3>4 DEF Live
    <3>7. /\ DOMAIN z.first = DOMAIN x.first \cup {e.index}
          /\ \A j \in DOMAIN x.first \ {e.index} : z.first[j] = x.first[j]
      BY <1>6, <3>3, <3>4
    <3>8. Restorable(x, objects) /\ e.op = "Insert"
      BY <1>2, <1>6, <1>9, <2>2 DEF Good
    <3>9. Restorable(z, objects')
      BY <1>5, <1>6, <1>7, <3>4, <3>6, <3>7, <3>8, InsertRestorable
    <3>10. Logged(z, DOMAIN objects')
      BY <1>9, <3>4 DEF Logged
    <3> QED
      BY <3>4, <3>5, <3>9, <3>10 DEF Good
  <2>3. CASE logged.clean /\ safe /\ op = "Update"
    <3>1. Restorable(x, objects) /\ e.op = "Update" /\ e.index \in DOMAIN x.snapshots
      BY <1>2, <1>5, <1>6, <1>9, <2>3 DEF Good
    <3>2. objects'[e.index].deleted = objects[e.index].deleted
      BY <1>6, <2>3
    <3>3. Restorable(logged, objects')
      BY <1>5, <1>6, <1>7, <1>9, <3>1, <3>2, UpdateRestorable
    <3> QED
      BY <1>9, <2>3, <3>3 DEF Good
  <2>4. CASE logged.clean /\ safe /\ op = "Delete"
    <3>1. Restorable(x, objects) /\ e.op = "Delete" /\ e.index \in DOMAIN x.snapshots
      BY <1>2, <1>5, <1>6, <1>9, <2>4 DEF Good
    <3>2. objects'[e.index].field = objects[e.index].field /\ objects'[e.index].deleted
      BY <1>6, <2>4
    <3>3. e.index \in DOMAIN x.first => Live(x.first[e.index])
      BY <1>6, <2>4
    <3>4. Restorable(logged, objects')
      BY <1>5, <1>6, <1>7, <1>9, <3>1, <3>2, <3>3, DeleteRestorable
    <3> QED
      BY <1>9, <2>4, <3>4 DEF Good
  <2> QED
    BY <2>1, <2>2, <2>3, <2>4
<1> HIDE DEF y
<1>11. TxInv'
  BY <1>1, <1>10, WriteStep DEF IInv
<1> QED
  BY <1>11 DEF IInv

LEMMA UndoStep ==
    ASSUME IInv, NEW t \in Transactions, Undo(t)
    PROVE  IInv'
<1> DEFINE x == tx[t]
           e == Last(x.ops)
           n == Len(objects) + 1
           y == [x EXCEPT !.ops = Front(@),
                          !.remade = IF Last(x.ops).op = "Delete" /\ x.clean
                                     THEN Put(@, Last(x.ops).index, n) ELSE @]
<1>1. DataInv /\ TxInv /\ Good(x, objects) /\ x \in Tx
  BY DEF IInv, TxInv, Good
<1>2. x.state = "Rolling" /\ x.ops # <<>> /\ n \in Nat
  <2>1. x.state = "Rolling" /\ x.ops # <<>>
    BY DEF Undo
  <2>2. Len(objects) \in Nat
    BY <1>1 DEF DataInv, DataType
  <2> QED
    BY <2>1, <2>2
<1>3. tx' = [Disturbed(t, e.index) EXCEPT ![t] = y]
  <2>1. Disturbed(t, e.index)[t] = x /\ t \in DOMAIN Disturbed(t, e.index)
    BY DEF Disturbed
  <2> QED
    BY <2>1 DEF Undo
<1>4. /\ e \in Op /\ e.index \in Ids /\ e.op \in {"Insert", "Update", "Delete"}
      /\ e.op # "Insert" => x.snapshots[e.index] \in Field
  <2>1. x.ops \in Seq(Op) /\ x.snapshots \in Map(Field)
    BY <1>1, TxFacts
  <2>2. e \in Op /\ e = x.ops[Len(x.ops)] /\ Len(x.ops) \in DOMAIN x.ops
    BY <1>2, <2>1, FrontLast
  <2>3. e.index \in Ids /\ (e.op # "Insert" => e.index \in DOMAIN x.snapshots)
    BY <1>1, <2>2 DEF Good, Logged, Ids
  <2>4. \A k \in DOMAIN x.snapshots : x.snapshots[k] \in Field
    BY <2>1, MapFacts
  <2> QED
    BY <2>2, <2>3, <2>4 DEF Op
<1>5. \/ e.op = "Insert" /\ Delete(e.index)
      \/ e.op = "Update" /\ Update(e.index, x.snapshots[e.index])
      \/ e.op = "Delete" /\ Create(x.snapshots[e.index])
  BY DEF Undo
<1> HIDE DEF x, n
<1>6. e.index \in Nat
  BY <1>4 DEF Op
<1>7. DataInv' /\ Except(objects, objects', e.index) /\ Good(y, objects')
  <2>1. CASE e.op = "Insert"
    <3>1. Delete(e.index)
      BY <1>5, <2>1
    <3>2. /\ DataInv' /\ Except(objects, objects', e.index) /\ objects'[e.index].deleted
      BY <1>1, <1>4, <1>6, <3>1, DeleteKeeps, DeleteEffect
    <3>3. Good(y, objects')
      BY <1>1, <1>2, <2>1, <3>2, UndoGood
    <3> QED
      BY <3>2, <3>3
  <2>2. CASE e.op = "Update"
    <3>1. Update(e.index, x.snapshots[e.index]) /\ x.snapshots[e.index] \in Field
      BY <1>4, <1>5, <2>2
    <3>2. /\ DataInv' /\ Except(objects, objects', e.index)
          /\ objects'[e.index].deleted = objects[e.index].deleted
          /\ objects'[e.index].field = x.snapshots[e.index]
      BY <1>1, <1>4, <1>6, <3>1, UpdateKeeps, UpdateEffect
    <3>3. Good(y, objects')
      BY <1>1, <1>2, <2>2, <3>2, UndoGood
    <3> QED
      BY <3>2, <3>3
  <2>3. CASE e.op = "Delete"
    <3>1. Create(x.snapshots[e.index]) /\ x.snapshots[e.index] \in Field
      BY <1>4, <1>5, <2>3
    <3>2. /\ DataInv' /\ (\A i : Except(objects, objects', i))
          /\ n \notin DOMAIN objects /\ n \in DOMAIN objects'
          /\ Live(objects'[n]) /\ objects'[n].field = x.snapshots[e.index]
      BY <1>1, <3>1, CreateKeeps, CreateEffect DEF n
    <3>3. Except(objects, objects', n)
      BY <3>2
    <3>4. Good(y, objects')
      BY <1>1, <1>2, <2>3, <3>2, <3>3, UndoGood
    <3> QED
      BY <3>2, <3>4
  <2> QED
    BY <1>4, <2>1, <2>2, <2>3
<1> HIDE DEF y
<1>8. TxInv'
  BY <1>1, <1>3, <1>7, WriteStep
<1> QED
  BY <1>7, <1>8 DEF IInv

LEMMA NextIInv == IInv /\ [Next]_vars => IInv'
<1> SUFFICES ASSUME IInv, [Next]_vars PROVE IInv'
  OBVIOUS
<1>1. DataInv /\ TxInv
  BY DEF IInv
<1>2. \A t \in Transactions : Good(tx[t], objects) /\ tx[t] \in Tx
  BY <1>1 DEF TxInv, Good
<1>3. ASSUME NEW i \in Ids, Get(i), tx' = tx PROVE IInv'
  BY <1>1, <1>3, GetKeeps, GetEffect, EngineStep
<1>4. ASSUME NEW kind \in Kinds, CreateIndex(kind), tx' = tx PROVE IInv'
  <2>1. DataInv' /\ objects' = objects
    BY <1>1, <1>4, CreateIndexKeeps DEF CreateIndex
  <2>2. \A i : Except(objects, objects', i)
    BY <2>1 DEF Except
  <2> QED
    BY <1>4, <2>1, <2>2, EngineStep
<1>5. ASSUME DropIndex, tx' = tx PROVE IInv'
  <2>1. DataInv' /\ objects' = objects
    BY <1>1, <1>5, DropIndexKeeps DEF DropIndex
  <2>2. \A i : Except(objects, objects', i)
    BY <2>1 DEF Except
  <2> QED
    BY <1>5, <2>1, <2>2, EngineStep
<1>6. ASSUME NEW t \in Transactions, NEW y, tx' = [tx EXCEPT ![t] = y], Good(y, objects),
             UNCHANGED <<objects, index, revived, known>>
      PROVE  IInv'
  <2>1. DataInv' /\ (\A i : Except(objects, objects', i)) /\ objects' = objects
    BY <1>1, <1>6, DataSame
  <2>2. Good(y, objects')
    BY <1>6, <2>1
  <2>3. TxInv'
    BY <1>1, <1>6, <2>1, <2>2, QuietStep
  <2> QED
    BY <2>1, <2>3 DEF IInv
<1>7. ASSUME NEW t \in Transactions, Begin(t) PROVE IInv'
  <2> DEFINE y == [tx[t] EXCEPT !.state = "Active"]
  <2>1. Good(y, objects)
    BY <1>2, <1>7, StateGood DEF Begin
  <2>2. tx' = [tx EXCEPT ![t] = y] /\ UNCHANGED <<objects, index, revived, known>>
    BY <1>7 DEF Begin
  <2> HIDE DEF y
  <2> QED
    BY <1>6, <2>1, <2>2
<1>8. ASSUME NEW t \in Transactions, NEW v \in Values, TxInsert(t, v) PROVE IInv'
  <2> DEFINE i == Len(objects) + 1
  <2>1. Create(v) /\ Log(t, i, "Insert") /\ tx[t].state = "Active" /\ v \in Field
    BY <1>8 DEF TxInsert, CanRun, Field
  <2>2. /\ DataInv' /\ (\A j : Except(objects, objects', j)) /\ i \in Nat
        /\ i \notin DOMAIN objects /\ i \in DOMAIN objects' /\ Live(objects'[i])
    BY <1>1, <2>1, CreateKeeps, CreateEffect
  <2> HIDE DEF i
  <2> QED
    BY <2>1, <2>2, LogStep
<1>9. ASSUME NEW t \in Transactions, NEW i \in Ids, NEW v \in Values \cup {Missing},
             TxUpdate(t, i, v)
      PROVE  IInv'
  <2>1. /\ Update(i, v) /\ Log(t, i, "Update") /\ tx[t].state = "Active" /\ v \in Field
        /\ i \in DOMAIN tx[t].snapshots
    BY <1>9 DEF TxUpdate, CanRun, Field
  <2>2. i \in Nat
    BY <1>1, <1>9, IdsFacts DEF DataInv
  <2>3. /\ DataInv' /\ Except(objects, objects', i) /\ i \in DOMAIN objects'
        /\ objects'[i].deleted = objects[i].deleted
    BY <1>1, <1>9, <2>1, <2>2, UpdateKeeps, UpdateEffect DEF Ids
  <2> QED
    BY <2>1, <2>2, <2>3, LogStep
<1>10. ASSUME NEW t \in Transactions, NEW i \in Ids, TxDelete(t, i) PROVE IInv'
  <2>1. /\ Delete(i) /\ Log(t, i, "Delete") /\ tx[t].state = "Active"
        /\ i \in DOMAIN tx[t].snapshots
    BY <1>10 DEF TxDelete, CanRun
  <2>2. i \in Nat
    BY <1>1, <1>10, IdsFacts DEF DataInv
  <2>3. /\ DataInv' /\ Except(objects, objects', i) /\ i \in DOMAIN objects'
        /\ objects'[i].deleted /\ objects'[i].field = objects[i].field
    BY <1>1, <1>10, <2>1, <2>2, DeleteKeeps, DeleteEffect DEF Ids
  <2> QED
    BY <2>1, <2>2, <2>3, LogStep
<1>11. ASSUME NEW t \in Transactions, Commit(t) PROVE IInv'
  <2>1. Good(NewTx("Committed"), objects)
    BY NewTxGood
  <2> QED
    BY <1>6, <1>11, <2>1 DEF Commit
<1>12. ASSUME NEW t \in Transactions, StartRollback(t) PROVE IInv'
  <2> DEFINE y == [tx[t] EXCEPT !.state = "Rolling"]
  <2>1. Good(y, objects)
    BY <1>2, <1>12, StateGood DEF StartRollback
  <2>2. tx' = [tx EXCEPT ![t] = y] /\ UNCHANGED <<objects, index, revived, known>>
    BY <1>12 DEF StartRollback
  <2> HIDE DEF y
  <2> QED
    BY <1>6, <2>1, <2>2
<1>13. ASSUME NEW t \in Transactions, EndRollback(t) PROVE IInv'
  <2>1. Good(NewTx("Aborted"), objects)
    BY NewTxGood
  <2> QED
    BY <1>6, <1>13, <2>1 DEF EndRollback
<1>14. ASSUME UNCHANGED vars PROVE IInv'
  <2>1. tx' = tx /\ DataInv' /\ \A i : Except(objects, objects', i)
    BY <1>1, <1>14, DataSame DEF vars
  <2> QED
    BY <2>1, EngineStep
<1> QED
  BY <1>3, <1>4, <1>5, <1>7, <1>8, <1>9, <1>10, <1>11, <1>12, <1>13, <1>14,
     LookStep, UndoStep DEF Next

\* A rollback ends only when everything is undone.
LEMMA EndsEmpty ==
    ASSUME IInv, Next, NEW t \in Transactions,
           tx[t].state = "Rolling", tx'[t].state = "Aborted"
    PROVE  tx[t].ops = <<>>
<1>1. tx \in [Transactions -> Tx]
  BY DEF IInv, TxInv
<1>2. ASSUME NEW u \in Transactions, NEW y, tx' = [tx EXCEPT ![u] = y],
             tx[u].state # "Rolling"
      PROVE  FALSE
  BY <1>1, <1>2
<1>3. ASSUME NEW u \in Transactions, NEW i, NEW y, tx' = [Disturbed(u, i) EXCEPT ![u] = y],
             u = t => y.state # "Aborted"
      PROVE  FALSE
  <2>1. CASE u = t
    BY <1>3, <2>1 DEF Disturbed
  <2>2. CASE u # t
    <3>1. tx'[t] = Spoiled(tx[t]) \/ tx'[t] = tx[t]
      BY <1>3, <2>2 DEF Disturbed
    <3>2. Spoiled(tx[t]).state = tx[t].state
      BY <1>1, SpoiledFacts
    <3> QED
      BY <3>1, <3>2
  <2> QED
    BY <2>1, <2>2
<1>4. ASSUME NEW u \in Transactions, NEW i, NEW op, Log(u, i, op), tx[u].state = "Active"
      PROVE  FALSE
  <2>1. PICK y : tx' = [Disturbed(u, i) EXCEPT ![u] = y]
    BY <1>4 DEF Log
  <2>2. u # t
    BY <1>4
  <2> QED
    BY <1>3, <2>1, <2>2
<1>5. ASSUME NEW u \in Transactions, Undo(u) PROVE FALSE
  <2> DEFINE x == tx[u]
             e == Last(x.ops)
             remade == IF e.op = "Delete" /\ x.clean
                       THEN Put(x.remade, e.index, Len(objects) + 1) ELSE x.remade
             y == [x EXCEPT !.ops = Front(@), !.remade = remade]
  <2>1. tx' = [Disturbed(u, e.index) EXCEPT ![u] = y]
    <3>1. Disturbed(u, e.index)[u] = x /\ u \in DOMAIN Disturbed(u, e.index)
      BY DEF Disturbed
    <3> QED
      BY <1>5, <3>1 DEF Undo
  <2>2. y.state = x.state /\ x.state = "Rolling"
    <3>1. x \in Tx /\ x.state = "Rolling"
      BY <1>1, <1>5 DEF Undo
    <3> HIDE DEF x, remade
    <3> QED
      BY <3>1 DEF Tx
  <2> HIDE DEF y, x, e
  <2> QED
    BY <1>3, <2>1, <2>2
<1>6. ASSUME NEW u \in Transactions, EndRollback(u) PROVE u = t /\ tx[u].ops = <<>>
  BY <1>1, <1>6 DEF EndRollback
<1>7. ASSUME tx' = tx PROVE FALSE
  BY <1>7
<1>8. ASSUME NEW u \in Transactions, NEW i \in Ids, Look(u, i) PROVE FALSE
  BY <1>2, <1>8 DEF Look
<1>9. ASSUME NEW u \in Transactions, Begin(u) \/ Commit(u) \/ StartRollback(u) PROVE FALSE
  BY <1>2, <1>9 DEF Begin, Commit, StartRollback
<1>10. ASSUME NEW u \in Transactions,
              \/ \E v \in Values : TxInsert(u, v)
              \/ \E i \in Ids, v \in Values \cup {Missing} : TxUpdate(u, i, v)
              \/ \E i \in Ids : TxDelete(u, i)
       PROVE  FALSE
  BY <1>4, <1>10 DEF TxInsert, TxUpdate, TxDelete, CanRun
<1> QED
  BY <1>5, <1>6, <1>7, <1>8, <1>9, <1>10 DEF Next

\* What a clean transaction met is as it was once everything is undone.
LEMMA Restored ==
    ASSUME IInv, NEW t \in Transactions, tx[t].clean, tx[t].ops = <<>>, NEW i \in DOMAIN tx[t].first
    PROVE  LET before == tx[t].first[i]
               after == objects[IF i \in DOMAIN tx[t].remade THEN tx[t].remade[i] ELSE i]
           IN Live(after) = Live(before) /\ (Live(before) => after.field = before.field)
<1> DEFINE x == tx[t]
           before == x.first[i]
<1>1. x \in Tx /\ Restorable(x, objects) /\ \A j \in Ids : objects[j] \in Object
  BY IdsFacts DEF IInv, DataInv, TxInv, Good
<1>2. \A op : ~Has(x, op, i)
  BY DEF Has
<1>3. before \in Object
  BY <1>1, TxFacts, MapFacts
<1>4. i \in Ids /\ \A j \in DOMAIN x.remade : Remade(x, objects, j)
  BY <1>1 DEF Restorable, Ids
<1>5. IF Live(before) THEN FoundAlive(x, objects, i) ELSE NotFound(x, objects, i)
  BY <1>1 DEF Restorable
<1>6. CASE i \in DOMAIN x.remade
  <2>1. Remade(x, objects, i)
    BY <1>4, <1>6
  <2> DEFINE n == x.remade[i]
  <2>2. n \in Ids /\ Live(objects[n]) /\ objects[n].field = before.field
    BY <2>1 DEF Remade, Ids
  <2>3. Live(before)
    BY <2>1 DEF Remade
  <2> QED
    BY <1>6, <2>2, <2>3 DEF Live
<1>7. CASE i \notin DOMAIN x.remade
  <2>1. CASE Live(before)
    <3>1. ~objects[i].deleted /\ objects[i].field = before.field
      BY <1>2, <1>5, <1>7, <2>1 DEF FoundAlive
    <3> QED
      BY <1>3, <1>7, <2>1, <3>1 DEF Live
  <2>2. CASE ~Live(before)
    <3>1. objects[i].deleted
      BY <1>2, <1>5, <2>2 DEF NotFound
    <3> QED
      BY <1>3, <1>7, <2>2, <3>1 DEF Live
  <2> QED
    BY <2>1, <2>2
<1> QED
  BY <1>6, <1>7

(***************************************************************************)
(* Theorems.                                                               *)
(***************************************************************************)
LEMMA Invariance == Spec => []IInv
<1>1. Init => IInv
  BY InitIInv
<1>2. IInv /\ [Next]_vars => IInv'
  BY NextIInv
<1> QED
  BY <1>1, <1>2, PTL DEF Spec

\* The index gives a query the answer a scan gives: whatever was inserted,
\* updated, deleted and rolled back, every object the index has met is found
\* once, and nothing else (SecondaryIndex, QueryPlanner, execute_plan).
THEOREM QueryCorrect == Spec => []QueryAgrees
<1>1. IInv => QueryAgrees
  BY QueryFinds DEF IInv, QueryAgrees
<1> QED
  BY <1>1, Invariance, PTL

\* A rolled-back transaction whose objects nobody else wrote leaves what it
\* updated with the fields it had, what it inserted deleted, and a new object
\* in place of each it deleted (Transaction::rollback).
THEOREM RollbackCorrect == Spec => RollbackRestores
<1> DEFINE Step ==
        \A t \in Transactions :
          (tx[t].state = "Rolling" /\ tx'[t].state = "Aborted" /\ tx[t].clean)
          => \A i \in DOMAIN tx[t].first :
                LET before == tx[t].first[i]
                    after == objects[IF i \in DOMAIN tx[t].remade THEN tx[t].remade[i] ELSE i]
                IN Live(after) = Live(before) /\ (Live(before) => after.field = before.field)
<1>1. IInv /\ Next => Step
  BY EndsEmpty, Restored
<1>2. IInv /\ [Next]_vars => [Step]_vars
  BY <1>1
<1> QED
  BY <1>2, Invariance, PTL DEF Spec, RollbackRestores

=============================================================================
