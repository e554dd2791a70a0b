---------------------------- MODULE StoreEngine ----------------------------
(***************************************************************************)
(* The persistent store of Coral (runtime/src/store): StoreEngine over the *)
(* write-ahead log, the primary index and the record files, with the       *)
(* default sync mode, in which every log entry is synced before the        *)
(* operation goes on.  SharedStoreEngine runs one operation at a time, so  *)
(* that only a crash comes between its steps.                              *)
(*                                                                         *)
(* A record, once written, is never overwritten: an index entry holds the  *)
(* record its offset points to.  What an object holds is one value; uuid,  *)
(* version and times are left out.  The log has the entries that replay    *)
(* and compaction look at: Commit and Checkpoint only use up an LSN.  A    *)
(* crash ends the process: what was written to a file stays, whatever is   *)
(* in memory goes (a program that exits without saving is such a crash).   *)
(***************************************************************************)
EXTENDS Naturals, Sequences, FiniteSets

CONSTANTS
    MaxIndex,    \* bound on the objects created
    Vals,        \* field values
    NoObject,    \* no such object
    NoEntry,     \* no such index entry
    Broken,      \* what read_record finds at offset 0: no record
    NoJob,       \* no operation under way
    AutoPersist, \* config.auto_persist.enabled
    Ops,         \* operations the environment performs
    MaxLog,      \* bound on the length of the log
    MaxLsn       \* bound on log sequence numbers

Indexes == 1..MaxIndex

\* A CachedObject, or a record: fields, and whether deleted_at is set.
Objects == [val : Vals, st : {"live", "gone"}]

\* An entry of the PrimaryIndex.
Entries == [rec : Objects \cup {Broken}, flag : {"Active", "Deleted"}]

\* An entry of the log.
LogEntry == [op : {"Insert", "Update", "Delete"}, i : Indexes, val : Vals,
             lsn : Nat]

\* An operation whose log entry is written.
Writes == [op : {"Insert", "Update", "Delete"}, i : Indexes, val : Vals]

\* The operations that begin with save.
Saves == {"save", "checkpoint", "compact", "close"}

ASSUME StoreAssumption ==
    /\ MaxIndex \in Nat /\ MaxLog \in Nat /\ MaxLsn \in Nat
    /\ AutoPersist \in BOOLEAN
    /\ NoObject \notin Objects /\ NoEntry \notin Entries
    /\ Broken \notin Objects /\ Broken # NoObject
    /\ NoJob \notin Writes

VARIABLES
    wal,       \* on disk: the entries of the log
    header,    \* on disk: last_committed_lsn
    saved,     \* on disk: the entries of primary.idx
    readable,  \* on disk: primary.idx has its header
    index,     \* PrimaryIndex.by_index
    changed,   \* PrimaryIndex.dirty
    cache,     \* StoreEngine.cache
    dirty,     \* the cached objects that are dirty
    next,      \* next_index
    lsn,       \* WalWriter.current_lsn
    pc,        \* where the engine is
    job,       \* the write it is in
    task,      \* the save it is in
    kept       \* the entries compact_wal will write back

vars == <<wal, header, saved, readable, index, changed, cache, dirty, next,
          lsn, pc, job, task, kept>>

log    == <<wal, header>>
file   == <<saved, readable>>
memory == <<index, changed, cache, dirty, next, lsn>>

TypeOK ==
    /\ wal \in Seq(LogEntry)
    /\ header \in Nat
    /\ saved \in [Indexes -> Entries \cup {NoEntry}]
    /\ readable \in {"yes", "no"}
    /\ index \in [Indexes -> Entries \cup {NoEntry}]
    /\ changed \in {"yes", "no"}
    /\ cache \in [Indexes -> Objects \cup {NoObject}]
    /\ dirty \subseteq Indexes
    /\ next \in 1..(MaxIndex + 1)
    /\ lsn \in Nat \ {0}
    /\ pc \in {"down", "refused", "up", "logged", "truncated", "indexed",
               "committed", "closing", "compacting", "removed"}
    /\ job \in Writes \cup {NoJob}
    /\ task \in Saves \cup {"none"}
    /\ kept \in Seq(LogEntry)

NoEntries == [i \in Indexes |-> NoEntry]
NoCache   == [i \in Indexes |-> NoObject]

\* The memory of a process that does not run.
Forgotten ==
    /\ index' = NoEntries /\ changed' = "no"
    /\ cache' = NoCache /\ dirty' = {}
    /\ next' = 1 /\ lsn' = 1
    /\ job' = NoJob /\ task' = "none" /\ kept' = <<>>

Init ==
    /\ wal = <<>> /\ header = 0
    /\ saved = NoEntries /\ readable = "yes"
    /\ index = NoEntries /\ changed = "no"
    /\ cache = NoCache /\ dirty = {}
    /\ next = 1 /\ lsn = 1
    /\ pc = "down" /\ job = NoJob /\ task = "none" /\ kept = <<>>

(***************************************************************************)
(* Opening and recovery.                                                   *)
(***************************************************************************)

\* The positions in log w of entries for object i, with an op in ops.
At(w, i, ops) == {k \in 1..Len(w) : w[k].i = i /\ w[k].op \in ops}

\* The last position of a set.
Last(ks) == CHOOSE k \in ks : \A j \in ks : j <= k

\* What replay_wal_entry makes of object i: an Insert (re)starts it, an
\* Update or a Delete of an object not in the cache is ignored.
Rebuilt(w, i) ==
    LET ins == At(w, i, {"Insert"})
        from == {k \in At(w, i, {"Insert", "Update", "Delete"}) : k >= Last(ins)}
    IN  IF ins = {} THEN NoObject
        ELSE [val |-> w[Last({k \in from : w[k].op # "Delete"})].val,
              st  |-> IF \E k \in from : w[k].op = "Delete" THEN "gone" ELSE "live"]

\* next_index: the least number beyond the number of index entries and every
\* Insert replayed.
Beyond(w, entries) ==
    {n \in 1..(MaxIndex + 1) :
        /\ n > Cardinality({i \in Indexes : entries[i] # NoEntry})
        /\ \A i \in Indexes : At(w, i, {"Insert"}) # {} => n > i}

NextFree(w, entries) ==
    CHOOSE n \in Beyond(w, entries) : \A m \in Beyond(w, entries) : n <= m

\* Mutant of Open: the LSN of the last commit is used again.
OpenAtCommit ==
    /\ pc = "down" /\ readable = "yes"
    /\ index' = saved /\ changed' = "no"
    /\ cache' = [i \in Indexes |-> Rebuilt(wal, i)]
    /\ dirty' = {}
    /\ next' = NextFree(wal, saved)
    /\ lsn' = header
    /\ pc' = "up"
    /\ UNCHANGED <<log, file, job, task, kept>>

Open ==
    /\ pc = "down" /\ readable = "yes"
    /\ index' = saved /\ changed' = "no"
    /\ cache' = [i \in Indexes |-> Rebuilt(wal, i)]
    /\ dirty' = {}
    /\ next' = NextFree(wal, saved)
    /\ lsn' = header + 1
    /\ pc' = "up"
    /\ UNCHANGED <<log, file, job, task, kept>>

\* An index file without a header is an error that open passes on.
OpenFails ==
    /\ pc = "down" /\ readable = "no"
    /\ pc' = "refused"
    /\ UNCHANGED <<log, file, memory, job, task, kept>>

Crash ==
    /\ "crash" \in Ops
    /\ pc \notin {"down", "refused"}
    /\ Forgotten
    /\ pc' = "down"
    /\ UNCHANGED <<log, file>>

(***************************************************************************)
(* Reading and writing objects.                                            *)
(***************************************************************************)

\* What get(i) finds: the cached object, or the record of its index entry.
Found(i) ==
    CASE cache[i] # NoObject                          -> cache[i]
      [] cache[i] = NoObject /\ index[i] # NoEntry    -> index[i].rec
      [] cache[i] = NoObject /\ index[i] = NoEntry    -> NoObject

\* get puts the object it finds into the cache.
Load(i) == cache' = [cache EXCEPT ![i] = IF Found(i) = Broken THEN NoObject ELSE Found(i)]

Get(i) ==
    /\ "get" \in Ops
    /\ pc = "up" /\ cache[i] = NoObject /\ Found(i) \in Objects
    /\ Load(i)
    /\ UNCHANGED <<log, file, index, changed, dirty, next, lsn, pc, job, task, kept>>

\* The log entry of a write is appended and synced.
Log(w) ==
    /\ pc = "up" /\ Len(wal) < MaxLog /\ lsn < MaxLsn
    /\ wal' = Append(wal, [op |-> w.op, i |-> w.i, val |-> w.val, lsn |-> lsn])
    /\ lsn' = lsn + 1
    /\ pc' = "logged" /\ job' = w
    /\ UNCHANGED <<header, file, index, changed, dirty, task, kept>>

Create(v) ==
    /\ "create" \in Ops /\ next <= MaxIndex
    /\ Log([op |-> "Insert", i |-> next, val |-> v])
    /\ next' = next + 1
    /\ UNCHANGED cache

Update(i, v) ==
    /\ "update" \in Ops /\ Found(i) \in Objects
    /\ Log([op |-> "Update", i |-> i, val |-> v])
    /\ Load(i)
    /\ UNCHANGED next

\* Mutant of Delete: the deletion is not logged.
DeleteUnlogged(i) ==
    /\ "delete" \in Ops /\ Found(i) \in Objects /\ Found(i).st = "live"
    /\ pc = "up" /\ pc' = "logged"
    /\ job' = [op |-> "Delete", i |-> i, val |-> Found(i).val]
    /\ Load(i)
    /\ UNCHANGED <<log, file, index, changed, dirty, next, lsn, task, kept>>

Delete(i) ==
    /\ "delete" \in Ops /\ Found(i) \in Objects /\ Found(i).st = "live"
    /\ Log([op |-> "Delete", i |-> i, val |-> Found(i).val])
    /\ Load(i)
    /\ UNCHANGED next

\* persist_object: the record is written, and the entry of the index gets
\* its offset; a new entry is Active whatever the record says.
Persisted(e, o) == [rec |-> o, flag |-> IF e = NoEntry THEN "Active" ELSE e.flag]

\* What the cached object becomes.
Outcome(w) ==
    [val |-> IF w.op = "Delete" THEN cache[w.i].val ELSE w.val,
     st  |-> CASE w.op = "Insert" -> "live"
               [] w.op = "Update" -> cache[w.i].st
               [] w.op = "Delete" -> "gone"]

\* The rest of create and update.
Apply ==
    /\ pc = "logged" /\ job.op # "Delete"
    /\ cache' = [cache EXCEPT ![job.i] = Outcome(job)]
    /\ IF AutoPersist
         THEN /\ index' = [index EXCEPT ![job.i] = Persisted(@, Outcome(job))]
              /\ changed' = "yes"
              /\ dirty' = dirty \ {job.i}
         ELSE /\ dirty' = dirty \cup {job.i}
              /\ UNCHANGED <<index, changed>>
    /\ pc' = "up" /\ job' = NoJob
    /\ UNCHANGED <<log, file, next, lsn, task, kept>>

\* Mutant of ApplyDelete: the index entry keeps its flag.
ApplyDeleteUnmarked ==
    /\ pc = "logged" /\ job.op = "Delete"
    /\ cache' = [cache EXCEPT ![job.i] = Outcome(job)]
    /\ dirty' = dirty \cup {job.i}
    /\ pc' = "up" /\ job' = NoJob
    /\ UNCHANGED <<log, file, index, changed, next, lsn, task, kept>>

\* The rest of delete: mark_deleted also clears the offset of the entry.
ApplyDelete ==
    /\ pc = "logged" /\ job.op = "Delete"
    /\ cache' = [cache EXCEPT ![job.i] = Outcome(job)]
    /\ dirty' = dirty \cup {job.i}
    /\ IF index[job.i] = NoEntry
         THEN UNCHANGED <<index, changed>>
         ELSE /\ index' = [index EXCEPT ![job.i] = [rec |-> Broken, flag |-> "Deleted"]]
              /\ changed' = "yes"
    /\ pc' = "up" /\ job' = NoJob
    /\ UNCHANGED <<log, file, next, lsn, task, kept>>

(***************************************************************************)
(* save, and checkpoint, close and compact_wal, which begin with it.       *)
(***************************************************************************)

\* The index after the dirty objects were persisted.
Flushed == [i \in Indexes |-> IF i \in dirty THEN Persisted(index[i], cache[i]) ELSE index[i]]

\* Mutant of Save: dirty objects are not persisted.
SaveIndexOnly(s) ==
    /\ s \in Ops /\ pc = "up" /\ lsn + 2 < MaxLsn
    /\ task' = s /\ dirty' = {}
    /\ IF changed = "yes"
         THEN pc' = "truncated" /\ saved' = NoEntries /\ readable' = "no"
         ELSE pc' = "indexed" /\ UNCHANGED file
    /\ UNCHANGED <<log, index, changed, cache, next, lsn, job, kept>>

\* Dirty objects are persisted; a changed index is rewritten, from an empty
\* file on.
Save(s) ==
    /\ s \in Ops /\ pc = "up" /\ lsn + 2 < MaxLsn
    /\ task' = s
    /\ index' = Flushed
    /\ dirty' = {}
    /\ changed' = IF dirty # {} THEN "yes" ELSE changed
    /\ IF changed' = "yes"
         THEN pc' = "truncated" /\ saved' = NoEntries /\ readable' = "no"
         ELSE pc' = "indexed" /\ UNCHANGED file
    /\ UNCHANGED <<log, cache, next, lsn, job, kept>>

WriteIndex ==
    /\ pc = "truncated"
    /\ saved' = index /\ readable' = "yes" /\ changed' = "no"
    /\ pc' = "indexed"
    /\ UNCHANGED <<log, index, cache, dirty, next, lsn, job, task, kept>>

\* WalWriter::commit appends and syncs a Commit, then rewrites the header.
CommitLog ==
    /\ pc = "indexed"
    /\ lsn' = lsn + 1
    /\ pc' = "committed"
    /\ UNCHANGED <<log, file, index, changed, cache, dirty, next, job, task, kept>>

\* truncate_before removes older segments only, and there are none.
UpdateHeader ==
    /\ pc = "committed"
    /\ header' = lsn - 1
    /\ lsn' = IF task = "checkpoint" THEN lsn + 1 ELSE lsn
    /\ pc' = CASE task = "compact" -> "compacting"
               [] task = "close"   -> "closing"
               [] OTHER            -> "up"
    /\ task' = "none"
    /\ UNCHANGED <<wal, file, index, changed, cache, dirty, next, job, kept>>

Close ==
    /\ pc = "closing"
    /\ Forgotten
    /\ pc' = "down"
    /\ UNCHANGED <<log, file>>

(***************************************************************************)
(* compact_wal keeps one entry for each object: the one with the highest   *)
(* LSN, the first of them, among the entries from its last Delete on; and  *)
(* none if that is the Delete.                                             *)
(***************************************************************************)
Candidates(w, i) ==
    {k \in At(w, i, {"Insert", "Update", "Delete"}) :
        \A j \in At(w, i, {"Delete"}) : j <= k}

Latest(w, i) ==
    CHOOSE k \in Candidates(w, i) : \A j \in Candidates(w, i) :
        w[j].lsn < w[k].lsn \/ (w[j].lsn = w[k].lsn /\ k <= j)

Survivors(w) ==
    {i \in Indexes : Candidates(w, i) # {} /\ w[Latest(w, i)].op # "Delete"}

\* In the order of the objects, with fresh LSNs.
Compacted(w) ==
    [n \in 1..Cardinality(Survivors(w)) |->
        LET i == CHOOSE s \in Survivors(w) :
                     Cardinality({r \in Survivors(w) : r <= s}) = n
        IN  [w[Latest(w, i)] EXCEPT !.lsn = n]]

RemoveLog ==
    /\ pc = "compacting"
    /\ kept' = Compacted(wal)
    /\ wal' = <<>> /\ header' = 0
    /\ pc' = "removed"
    /\ UNCHANGED <<file, memory, job, task>>

\* The entries are buffered and reach the file with the sync of the commit,
\* whose LSN the header gets as after any save.
RewriteLog ==
    /\ pc = "removed"
    /\ wal' = kept
    /\ lsn' = Len(kept) + 2
    /\ kept' = <<>>
    /\ pc' = "committed"
    /\ UNCHANGED <<header, file, index, changed, cache, dirty, next, job, task>>

Next ==
    \/ Open \/ OpenFails \/ Crash
    \/ \E v \in Vals : Create(v) \/ \E i \in Indexes : Update(i, v)
    \/ \E i \in Indexes : Get(i) \/ Delete(i)
    \/ Apply \/ ApplyDelete
    \/ \E s \in Saves : Save(s)
    \/ WriteIndex \/ CommitLog \/ UpdateHeader \/ Close
    \/ RemoveLog \/ RewriteLog

Spec == Init /\ [][Next]_vars

-----------------------------------------------------------------------------
\* What get(i) would answer after a restart.
Recovered(i) ==
    CASE Rebuilt(wal, i) # NoObject                        -> Rebuilt(wal, i)
      [] Rebuilt(wal, i) = NoObject /\ saved[i] # NoEntry  -> saved[i].rec
      [] Rebuilt(wal, i) = NoObject /\ saved[i] = NoEntry  -> NoObject

Running == pc \notin {"down", "refused"}

Status   == IF Running THEN "open" ELSE "closed"
Contents == [i \in Indexes |-> IF Running THEN Found(i) ELSE Recovered(i)]

Durable == INSTANCE DurableStore WITH
    status <- Status, contents <- Contents, pending <- job

(***************************************************************************)
(* The store keeps what DurableStore promises: what get answers is what    *)
(* was written, before and after any restart.                              *)
(***************************************************************************)
ImplementsDurable == Durable!Spec

\* all() lists the object i.
Listed(i) ==
    IF cache[i] # NoObject THEN cache[i].st = "live"
    ELSE i < next /\ index[i] # NoEntry /\ index[i].flag = "Active"

(***************************************************************************)
(* all() lists an object exactly when get finds it and it is not deleted,  *)
(* although one reads flags of the index and the other reads records.      *)
(***************************************************************************)
ListingExact ==
    pc = "up" => \A i \in Indexes :
        Listed(i) <=> Found(i) \in Objects /\ Found(i).st = "live"

-----------------------------------------------------------------------------
\* docs/PERSISTENT_STORE_SPEC.md:331, "Durability | fsync after journal
\* write; periodic checkpoint": what get answers now, a restart brings back.
RestartBringsBack ==
    pc = "up" => \A i \in Indexes : Recovered(i) = Found(i)

\* docs/PERSISTENT_STORE_SPEC.md:947, "Durability: Survive process crash, OS
\* crash, power loss".
StoreOpens == pc # "refused"

=============================================================================
