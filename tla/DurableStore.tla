--------------------------- MODULE DurableStore ---------------------------
(***************************************************************************)
(* What a Coral store promises when each write is synced: an object that   *)
(* was created keeps its place, what it holds changes by updates and       *)
(* deletes only, and a restart, clean or not, brings it all back.  Of a    *)
(* write under way when the program stops, all or nothing is kept.         *)
(***************************************************************************)
CONSTANTS
    Indexes,   \* places of objects
    Vals,      \* what an object can hold
    NoObject,  \* the content of a place never used
    NoJob      \* no write is under way

VARIABLES
    status,    \* "open" or "closed"
    contents,  \* what each place holds
    pending    \* the write under way

store == <<status, contents, pending>>

Write == [op : {"Insert", "Update", "Delete"}, i : Indexes, val : Vals]

\* What place job.i holds after the write.
Result(old, job) ==
    CASE job.op = "Insert" -> [val |-> job.val, st |-> "live"]
      [] job.op = "Update" -> [val |-> job.val, st |-> old.st]
      [] job.op = "Delete" -> [val |-> old.val, st |-> "gone"]

Written(job) == [contents EXCEPT ![job.i] = Result(@, job)]

Init ==
    /\ status = "closed"
    /\ contents = [i \in Indexes |-> NoObject]
    /\ pending = NoJob

Open ==
    /\ status = "closed"
    /\ status' = "open"
    /\ UNCHANGED <<contents, pending>>

\* An object is created in a fresh place; a deleted one keeps its place.
Begin(job) ==
    /\ status = "open" /\ pending = NoJob
    /\ job.op = "Insert" <=> contents[job.i] = NoObject
    /\ job.op = "Delete" => contents[job.i].st = "live"
    /\ pending' = job
    /\ UNCHANGED <<status, contents>>

End ==
    /\ pending # NoJob
    /\ contents' = Written(pending)
    /\ pending' = NoJob
    /\ UNCHANGED status

Stop ==
    /\ status = "open"
    /\ status' = "closed"
    /\ \/ UNCHANGED contents
       \/ pending # NoJob /\ contents' = Written(pending)
    /\ pending' = NoJob

Next == Open \/ (\E job \in Write : Begin(job)) \/ End \/ Stop

Spec == Init /\ [][Next]_store

=============================================================================
