----------------------------- MODULE StoreData ------------------------------
(***************************************************************************)
(* What is built over the store engine: the secondary index kept in step   *)
(* with the objects, the queries planned over it, and transactions that    *)
(* undo themselves through the engine's own operations.                    *)
(*                                                                         *)
(* One field of the objects is told apart; an object may lack it.  The     *)
(* engine's operations are atomic (SharedStoreEngine locks around each);   *)
(* a transaction is a sequence of them and holds no lock in between.       *)
(***************************************************************************)
EXTENDS Integers, Sequences, FiniteSets, SequencesExt

CONSTANTS
    Values,         \* values of the field: integers
    Missing,        \* the field is missing
    Stored,         \* objects in the data file when the store is opened
    Transactions,   \* transactions
    Kinds,          \* kinds of index: "Hash", "Ordered"
    MaxObjects,     \* bound: objects ever created
    MaxOps          \* bound: operations of the open transactions

ASSUME ValuesAssumption == Values \subseteq Int /\ Missing \notin Values

ASSUME ObjectsAssumption == Stored \in Nat /\ MaxObjects \in Nat /\ Stored <= MaxObjects

ASSUME KindsAssumption == Kinds \subseteq {"Hash", "Ordered"}

VARIABLES
    objects,    \* the objects by number: field, deleted or not, in the cache or not
    index,      \* SecondaryIndexManager's index on the field
    tx,         \* the transactions
    revived,    \* history: deleted objects updated since the index was built
    known       \* history: objects the index has met since it was built

vars == <<objects, index, tx, revived, known>>

Ids == DOMAIN objects

Live(o) == ~o.deleted

-----------------------------------------------------------------------------
(* SecondaryIndex: how often each number is listed under each value (the    *)
(* order of a list is not told apart), and the numbers that are in it.      *)

NoIndex ==
    [kind |-> "none", at |-> [v \in Values |-> [i \in 1 .. MaxObjects |-> 0]], entries |-> {}]

(* SecondaryIndex::insert                                                   *)
IndexInsert(x, i, v) ==
    [x EXCEPT !.entries = @ \cup {i}, !.at[v][i] = @ + 1]

(* SecondaryIndex::remove does nothing unless the number is an entry.       *)
IndexRemove(x, i, v) ==
    IF i \notin x.entries THEN x
    ELSE [x EXCEPT !.entries = @ \ {i}, !.at[v][i] = 0]

(* on_insert, on_delete                                                     *)
OnInsert(x, i, v) == IF x.kind = "none" \/ v = Missing THEN x ELSE IndexInsert(x, i, v)

OnDelete(x, i, v) == IF x.kind = "none" \/ v = Missing THEN x ELSE IndexRemove(x, i, v)

(* Mutant: an update leaves the old entry.                                  *)
OnUpdateKeeps(x, i, old, new) == OnInsert(x, i, new)

(* on_update                                                                *)
OnUpdate(x, i, old, new) == OnInsert(OnDelete(x, i, old), i, new)

(* create_secondary_index builds from the cache, not from the data file.    *)
Cached == {i \in Ids : objects[i].cached /\ Live(objects[i])}

Built(kind) ==
    LET listed(v) == {i \in Cached : objects[i].field = v} IN
    [kind |-> kind,
     at |-> [v \in Values |-> [i \in 1 .. MaxObjects |-> IF i \in listed(v) THEN 1 ELSE 0]],
     entries |-> UNION {listed(v) : v \in Values}]

(* The histories of an index: i is met by it.                               *)
Met(i) == known' = IF index.kind = "none" THEN {} ELSE known \cup {i}

-----------------------------------------------------------------------------
(* The engine's operations, on the objects, the index and the histories.    *)

Create(v) ==
    LET i == Len(objects) + 1 IN
    /\ i <= MaxObjects
    /\ objects' = Append(objects, [field |-> v, deleted |-> FALSE, cached |-> TRUE])
    /\ index' = OnInsert(index, i, v)
    /\ Met(i)
    /\ UNCHANGED revived

(* update loads the object and replaces its fields, deleted or not.         *)
Update(i, v) ==
    IF i \notin Ids THEN UNCHANGED <<objects, index, revived, known>>
    ELSE /\ objects' = [objects EXCEPT ![i].field = v, ![i].cached = TRUE]
         /\ index' = OnUpdate(index, i, objects[i].field, v)
         /\ revived' = IF Live(objects[i]) \/ index.kind = "none" THEN revived
                       ELSE revived \cup {i}
         /\ Met(i)

Delete(i) ==
    IF i \notin Ids \/ objects[i].deleted
    THEN /\ objects' = IF i \in Ids THEN [objects EXCEPT ![i].cached = TRUE] ELSE objects
         /\ UNCHANGED <<index, revived, known>>
    ELSE /\ objects' = [objects EXCEPT ![i].deleted = TRUE, ![i].cached = TRUE]
         /\ index' = OnDelete(index, i, objects[i].field)
         /\ UNCHANGED <<revived, known>>

(* get brings the object into the cache, not into the index.                *)
Get(i) ==
    /\ objects' = [objects EXCEPT ![i].cached = TRUE]
    /\ UNCHANGED <<index, revived, known>>

CreateIndex(kind) ==
    /\ index.kind = "none"
    /\ index' = Built(kind)
    /\ known' = {i \in Ids : objects[i].cached}
    /\ UNCHANGED <<objects, revived>>

DropIndex ==
    /\ index.kind # "none"
    /\ index' = NoIndex
    /\ known' = {}
    /\ revived' = {}
    /\ UNCHANGED objects

-----------------------------------------------------------------------------
(* Queries.                                                                 *)

Ops == {"Eq", "NotEq", "Lt", "Lte", "Gt", "Gte"}

(* matches_filter                                                           *)
Matches(v, op, w) ==
    /\ v # Missing
    /\ CASE op = "Eq" -> v = w
         [] op = "NotEq" -> v # w
         [] op = "Lt" -> v < w
         [] op = "Lte" -> v <= w
         [] op = "Gt" -> v > w
         [] op = "Gte" -> v >= w

(* QueryPlanner::plan; a range over the index takes in its bound.           *)
Plan(op, w) ==
    CASE index.kind = "none" \/ op = "NotEq" -> [scan |-> TRUE, keys |-> {}]
      [] index.kind # "none" /\ op = "Eq" -> [scan |-> FALSE, keys |-> {w}]
      [] index.kind # "none" /\ op \in {"Lt", "Lte"} ->
             [scan |-> FALSE, keys |-> {v \in Values : v <= w}]
      [] index.kind # "none" /\ op \in {"Gt", "Gte"} ->
             [scan |-> FALSE, keys |-> {v \in Values : v >= w}]

(* find_eq, find_range: a hash index answers no range.  An answer is a      *)
(* function from its places to numbers: place <<v, i, n>> is the n-th time  *)
(* that i is listed under v.                                                *)
Listed(v) == UNION {{<<v, i, n>> : n \in 1 .. index.at[v][i]} : i \in 1 .. MaxObjects}

Find(op, keys) ==
    IF op # "Eq" /\ index.kind # "Ordered" THEN <<>>
    ELSE [p \in UNION {Listed(v) : v \in keys} |-> p[2]]

(* execute_plan                                                             *)
Query(op, w) ==
    LET plan == Plan(op, w) IN
    IF plan.scan
    THEN [i \in {j \in Ids : Live(objects[j]) /\ Matches(objects[j].field, op, w)} |-> i]
    ELSE Find(op, plan.keys)

-----------------------------------------------------------------------------
(* Transactions.  Three histories: first, the objects as the transaction    *)
(* first met them; remade, the objects its rollback made for those it had   *)
(* deleted; clean, that nobody else wrote any of them meanwhile, and it     *)
(* deleted only objects it found alive.                                     *)

NewTx(state) ==
    [state |-> state, ops |-> <<>>, snapshots |-> <<>>, first |-> <<>>,
     remade |-> <<>>, clean |-> TRUE]

Put(f, k, v) == [x \in DOMAIN f \cup {k} |-> IF x = k THEN v ELSE f[x]]

Footprint(t) == DOMAIN tx[t].first \cup Range(tx[t].remade)

Spoiled(x) == [x EXCEPT !.clean = FALSE, !.first = <<>>, !.remade = <<>>]

(* Object i is written by transaction t: the others that met it are spoiled. *)
Disturbed(t, i) ==
    [u \in Transactions |-> IF u # t /\ i \in Footprint(u) THEN Spoiled(tx[u]) ELSE tx[u]]

Begin(t) ==
    /\ tx[t].state = "None"
    /\ tx' = [tx EXCEPT ![t].state = "Active"]
    /\ UNCHANGED <<objects, index, revived, known>>

(* Mutant: every change takes a new snapshot.                               *)
SnapshotAlways(t, i) == Put(tx[t].snapshots, i, objects[i].field)

(* The fields of an object before the transaction's first change of it.     *)
Snapshot(t, i) ==
    IF i \in DOMAIN tx[t].snapshots THEN tx[t].snapshots
    ELSE Put(tx[t].snapshots, i, objects[i].field)

(* update and delete first read the object, in a call of the engine of its  *)
(* own: others may write it before the change follows, or the change fails. *)
Look(t, i) ==
    /\ tx[t].state = "Active"
    /\ Snapshot(t, i) # tx[t].snapshots
    /\ Get(i)
    /\ tx' = [tx EXCEPT ![t].snapshots = Snapshot(t, i),
                        ![t].first = IF i \in DOMAIN @ \/ ~tx[t].clean THEN @
                                     ELSE Put(@, i, objects[i])]

Log(t, i, op) ==
    LET logged == [tx[t] EXCEPT !.ops = Append(@, [op |-> op, index |-> i])]
        safe == op = "Delete" => Live(objects[i]) /\ (i \in DOMAIN tx[t].first => Live(tx[t].first[i]))
        absent == [field |-> Missing, deleted |-> TRUE, cached |-> TRUE]
    IN tx' = [Disturbed(t, i) EXCEPT ![t] =
                 IF ~logged.clean \/ ~safe THEN Spoiled(logged)
                 ELSE IF op = "Insert" THEN [logged EXCEPT !.first = Put(@, i, absent)]
                 ELSE logged]

CanRun(t) ==
    /\ tx[t].state = "Active"
    /\ Cardinality(UNION {{u} \X DOMAIN tx[u].ops : u \in Transactions}) < MaxOps

TxInsert(t, v) == CanRun(t) /\ Create(v) /\ Log(t, Len(objects) + 1, "Insert")

TxUpdate(t, i, v) ==
    CanRun(t) /\ i \in DOMAIN tx[t].snapshots /\ Update(i, v) /\ Log(t, i, "Update")

TxDelete(t, i) ==
    CanRun(t) /\ i \in DOMAIN tx[t].snapshots /\ Delete(i) /\ Log(t, i, "Delete")

(* commit is a checkpoint of the engine: what was done stays.               *)
Commit(t) ==
    /\ tx[t].state = "Active"
    /\ tx' = [tx EXCEPT ![t] = NewTx("Committed")]
    /\ UNCHANGED <<objects, index, revived, known>>

StartRollback(t) ==
    /\ tx[t].state = "Active"
    /\ tx' = [tx EXCEPT ![t].state = "Rolling"]
    /\ UNCHANGED <<objects, index, revived, known>>

(* rollback undoes the operations from the last to the first, each with a   *)
(* call of the engine: an insert by a delete, an update by an update to the *)
(* snapshot, a delete by a create.                                          *)
Undo(t) ==
    LET op == Last(tx[t].ops) IN
    /\ tx[t].state = "Rolling" /\ tx[t].ops # <<>>
    /\ \/ op.op = "Insert" /\ Delete(op.index)
       \/ op.op = "Update" /\ Update(op.index, tx[t].snapshots[op.index])
       \/ op.op = "Delete" /\ Create(tx[t].snapshots[op.index])
    /\ tx' = [Disturbed(t, op.index) EXCEPT
                 ![t].ops = Front(@),
                 ![t].remade = IF op.op = "Delete" /\ tx[t].clean THEN Put(@, op.index, Len(objects) + 1) ELSE @]

EndRollback(t) ==
    /\ tx[t].state = "Rolling" /\ tx[t].ops = <<>>
    /\ tx' = [tx EXCEPT ![t] = NewTx("Aborted")]
    /\ UNCHANGED <<objects, index, revived, known>>

-----------------------------------------------------------------------------
Init ==
    /\ \E fields \in [1 .. Stored -> Values] :
           objects = [i \in 1 .. Stored |-> [field |-> fields[i], deleted |-> FALSE,
                                             cached |-> FALSE]]
    /\ index = NoIndex
    /\ tx = [t \in Transactions |-> NewTx("None")]
    /\ revived = {}
    /\ known = {}

Next ==
    \/ \E i \in Ids : ~objects[i].cached /\ Get(i) /\ UNCHANGED tx
    \/ \E kind \in Kinds : CreateIndex(kind) /\ UNCHANGED tx
    \/ DropIndex /\ UNCHANGED tx
    \/ \E t \in Transactions : Begin(t)
    \/ \E t \in Transactions, i \in Ids : Look(t, i)
    \/ \E t \in Transactions, v \in Values : TxInsert(t, v)
    \/ \E t \in Transactions, i \in Ids, v \in Values \cup {Missing} : TxUpdate(t, i, v)
    \/ \E t \in Transactions, i \in Ids : TxDelete(t, i)
    \/ \E t \in Transactions : Commit(t)
    \/ \E t \in Transactions : StartRollback(t)
    \/ \E t \in Transactions : Undo(t)
    \/ \E t \in Transactions : EndRollback(t)

Spec == Init /\ [][Next]_vars

-----------------------------------------------------------------------------
(* Properties.                                                              *)

(* The index gives a query the answer a scan gives: every object found      *)
(* once, for the comparisons an index answers exactly (equality, and with   *)
(* an ordered index <= and >=), whatever was inserted, updated, deleted and *)
(* rolled back since the index was built.  Two exceptions are the code's:   *)
(* objects only in the data file when it was built and not updated since,   *)
(* and deleted objects that were updated again (secondary_index.rs,         *)
(* query.rs).                                                               *)
Exact(op) == op = "Eq" \/ (index.kind = "Ordered" /\ op \in {"Lte", "Gte"})

QueryAgrees ==
    \A op \in Ops, w \in Values :
        (index.kind # "none" /\ Exact(op)) =>
            LET found == Query(op, w) IN
            /\ IsInjective(found)
            /\ Range(found) = {i \in known : /\ Live(objects[i]) \/ i \in revived
                                             /\ Matches(objects[i].field, op, w)}

(* A transaction that is rolled back leaves nothing behind: if nobody else  *)
(* wrote its objects meanwhile and it deleted only objects it found alive,  *)
(* what it updated has the fields it had, what it inserted is deleted, and  *)
(* what it deleted is there again, under a new number                       *)
(* (Transaction::rollback).                                                 *)
RollbackRestores ==
    [][\A t \in Transactions :
        (tx[t].state = "Rolling" /\ tx'[t].state = "Aborted" /\ tx[t].clean)
        => \A i \in DOMAIN tx[t].first :
              LET before == tx[t].first[i]
                  after == objects[IF i \in DOMAIN tx[t].remade THEN tx[t].remade[i] ELSE i]
              IN Live(after) = Live(before) /\ (Live(before) => after.field = before.field)]_vars

=============================================================================
