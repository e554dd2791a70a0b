# Coral: a TLA+ model of the compiler and its runtime

This directory specifies, model-checks and proves properties of the Coral
language repository: the runtime, in which concurrency, failure and order
matter (actors, timers, scheduler, supervision, memory, persistent store), and
the compiler, from the lines of a source to the code that runs. Paths are
relative to the repository.

    tlc -config ActorSafety.cfg MCActorSystem      # one run
    tlapm ActorSystemProofs.tla                    # the proofs of a module

`PROJECT.json` lists components, runs, the map from definitions to source
lines, the hazards and the theorems.

## 1. The system

Coral is a compiler written in Rust (`src/`: lexer, parser, semantic analysis,
lowering, LLVM code generation), a runtime library the compiled programs are
linked with (`runtime/src/`), a standard library and a second compiler written
in Coral itself, and a language server. The compiler is a sequential pipeline
of transformations that rely on each other's rules. What runs concurrently and
what survives a crash is in the runtime.

| component | state | operations | interacts with |
|---|---|---|---|
| actor system (`actor.rs`) | registry (id to sender, one mutex), monitors, parents, one bounded mailbox per actor | spawn, send (blocking), try_send, stop, graceful stop, monitor, demonitor | scheduler (runs the actor's closure), timers, remote |
| message loop (`actor_ops.rs`) | position in the loop, draining | receive, handle, failure arms, `drain_and_stop`, clean-up in the spawn closure | the actor system, under its locks |
| timer wheel (`actor.rs`) | heap, id counter, cancel flags, worker thread and its handle | send_after, schedule_repeat, cancel by id, cancel by token, shutdown, the worker's pass | sends to actors |
| scheduler (`actor.rs`) | an injector and a deque per worker, shutdown flag | submit, shutdown, `worker_loop` | runs closures of the actor system |
| supervision (`actor.rs`) | children, restart counts and windows | child failure, restart, escalate | spawn, send |
| named actors (`actor.rs`) | name to handle | register, lookup, unregister, spawn_named | remote |
| remote actors (`remote.rs`) | peers, listener | connect, send a frame, deliver to a name | named actors |
| store engine (`store/engine.rs`, `wal.rs`, `index.rs`) | log, primary index, record files, cache | open and recover, create, get, update, delete, save, checkpoint, close, compact | files |
| transactions, indexes, queries (`store/transaction.rs`, `secondary_index.rs`, `query.rs`) | snapshots, operations; numbers by value of a field | begin, insert, update, delete, commit, rollback; create and drop an index; plan and execute | store engine |
| memory (`rc_ops.rs`, `rc_deferred.rs`, `weak_ref.rs`, `cycle_detector.rs`, `allocator.rs`) | counts, epochs, root buffers, free lists | retain, release, upgrade, collect | all values, several threads |
| collections (`list_ops.rs`, `map_ops.rs`) | slots, tombstones | get, set, remove, grow | memory |
| symbols, runtime modules | interned names | intern, lookup | several threads |
| module loader (`src/src/module_loader.rs`) | cache of expanded modules with times and dependencies | load, load_modules, clear_cache | files that are edited meanwhile |
| compiler (`src/src`) | per program: tokens, syntax tree, types, caches of values and representations, IR | one pass after the other | loader, runtime |

### What is hard, and what makes each part correct

* **Actor system.** `send` waits for room with the registry locked; stopping
  is a sequence of steps (last receive, drop of the receiver, notification,
  removal from two maps) between which senders and watchers run; a graceful
  stop drains while others send. It is correct if an accepted message is
  handled once and in order, if the registry is exact, if an announced death
  is final, and if calls return and stops are obeyed.
* **Timer wheel.** The worker holds a due timer outside the heap, where cancel
  does not see it; it may wake late. It is correct if a timer is in one place,
  never fires early or in a burst, fires at most once after it was cancelled,
  and fires at all.
* **Scheduler.** Work moves in batches among queues. It is correct if each
  closure starts exactly once and none is stuck behind a worker that never
  finishes.
* **Store.** A crash may come between any two of: log entry, memory, records,
  index, commit, header; compaction replaces the log. It is correct if a
  restart brings back what was written, and of a write under way all or
  nothing.
* **Supervision.** Reports about earlier incarnations of a child arrive late,
  and a supervisor sleeps before some restarts. It is correct if no child is
  restarted more often than its budget says, and none is lost or supervised
  twice.
* **Memory.** Counts are plain for values of one thread and atomic for frozen
  ones; dropping a value is a worklist during which other threads run; a box is
  used again for the next value. It is correct if every count is the number of
  references there are, if no box is in two free lists or in one while in use,
  and if what two threads reach is frozen. A release may start a collection,
  which looks at values that other threads are dropping.
* **Transactions and indexes.** A transaction undoes itself through ordinary
  operations while others write; an index is kept in step by hand. They are
  correct if a rollback restores what was found and if a query over the index
  answers what a scan answers.
* **Module loader.** It is correct if every module comes once and after what it
  uses, if circular imports are told from diamonds, and if its cache never
  gives old text.
* **Compiler.** Parsing, inference, folding, unboxing, caching of common
  subexpressions, named arguments and specialised variants each have rules of
  their own about the same program. It is correct if they agree: the program
  that runs does what its text means, and one that analysis accepts does not go
  wrong.

## 2. The modules

| module | models | composes |
|---|---|---|
| `ActorSystem` | `ActorSystem`, `ActorContext`, the message loop and the spawn closure | the pool of workers is `idle`, as `TaskPool` promises |
| `TimerWheel` | `TimerWheel`, `TimerToken` and the timer worker | the send to the target may block at any time; what unblocks it is in `ActorSystem` |
| `TaskPool` | what the actor system relies on: a closure handed in starts once on a worker that runs nothing | |
| `Scheduler` | `Scheduler`, `WorkStealingQueue`, `worker_loop` | implements `TaskPool` |
| `DurableStore` | what a store promises when each write is synced | |
| `StoreEngine` | `StoreEngine`, `WalWriter`, `WalReader`, `PrimaryIndex` | implements `DurableStore` |
| `Supervision` | supervised children, reports of failure, `handle_child_failure` and its message handler | |
| `Memory` | reference counts, drops, pools, deferred releases, freezing, mailboxes of values, the cycle detector | |
| `WeakRefs` | weak references and epochs | extends `Memory` |
| `StoreData` | secondary index, queries, transactions | the engine's operations are atomic, as `SharedStoreEngine` makes them |
| `Loader` | `ModuleLoader` and the files under it | |
| `Syntax` | the syntax tree (`ast.rs`) | |
| `Lexer`, `Parser`, `ParserItems` | `lexer.rs`, `parser.rs` | |
| `Printer` | how an author writes a tree down: the inverse the parser is checked against | |
| `Lower` | `lower.rs` | |
| `Scopes`, `Checks` | names, traits and warnings of `semantic.rs` | |
| `Types`, `Solver` | constraints, unification, representation hints | |
| `ConstFold` | folding and dead code in `compiler.rs` | |
| `CoralValues` | values and what the runtime's operators do to them | |
| `Codegen` | `codegen/`: slots, representations, cached values, variants, closures, matches | |
| `Machine` | runs the generated code | uses `CoralValues` |
| `Meaning` | what a tree means, defined directly: the reference for the compiled code | uses `CoralValues` |
| `Compiler` | `compile_to_ir_with_warnings`: one action per stage | composes all of these |
| `MC...` | instances for TLC: symmetry sets, programs, patterns of files | |
| `...Proofs` | theorems about the module of that name | |

In each module a definition whose comment begins with "Mutant" is a variant
of a definition after it with a plausible bug. No specification uses it; it
serves to see that a property notices the bug.

**`ActorSystem`.** Threads are `Clients` (the main thread, the timer worker, a
connection) and one thread per running actor. A critical section that cannot
block is one step. The two that can, a `send` to a full mailbox and the failure
report, hold `regLock` across steps. A call is first made (`InvokeSend`,
`InvokeSpawn`) and completes later (`Spawn`, `SendFails`, `SendSucceeds`,
`SendBlocks`, `TrySend`), so that a thread can be committed to a call while it
waits for the mutex. `phase` is the program counter of the actor's closure; its
values are explained at their definition. Message contents are left out: a user
message is its position in `accepted`. `accepted`, `taken` and `delivered` are
history. A panic (`HandlerPanics`) unwinds the closure: the receiver is
dropped, no clean-up is done and the worker thread is gone, as `worker_loop`
has no `catch_unwind`. The pool has any of the sizes `PoolSizes`; an actor
keeps its worker until its closure ends, so with fewer workers than actors one
stays queued.

**`TimerWheel`.** Time is in ticks; `Tick` is the clock, which runs as long as
`MaxTime` allows. A caller's operation is split where the code releases a lock:
allocation of the id, push, `ensure_worker` with its three steps (flag, spawn,
store of the handle), the two halves of `shutdown`. The worker's pass is split
at pop, check of the flag, send, reschedule, so that each race with `cancel`
is there. The send (`WorkerSends`) may block (`WorkerBlocks`): the target's
mailbox is full, or another sender holds the registry while it waits. It comes
out of that only if somebody makes room (`WorkerUnblocked`), which this module
leaves open.

**`Scheduler`.** crossbeam's deques are external: `steal_batch_and_pop` moves a
batch of any size, or answers Retry. The condition variable is a timed sleep of
1 ms, so that a notification only shortens it and no wake-up can be lost.
`Endless` closures are actors nobody stops.

**`StoreEngine`.** A record is never overwritten, so an index entry holds the
record it points to. The content of an object is one value. The log holds what
replay and compaction look at; a Commit or Checkpoint entry uses up an LSN.
`SharedStoreEngine` locks the whole engine for each operation, so nothing but a
crash comes between its steps; each operation is split where a crash makes a
difference: log entry (`Log`), the rest of the write (`Apply`, `ApplyDelete`),
truncation of the index (`Save`), its rewriting (`WriteIndex`), the commit
(`CommitLog`), the header (`UpdateHeader`), removal of the log (`RemoveLog`)
and its replacement (`RewriteLog`). A crash is the end of the process: files
keep what was written to them. `Rebuilt` says what replay makes of a log
without recursion: the value of the last Insert or Update from the last Insert
on.

**`Supervision`.** Actors are numbered as they start; `actors` gives level and
parent. A failure puts a report into the parent's mailbox (`Report`); the
parent takes it (`HandleFailure`), which is split only where it sleeps before a
restart (`Wake`): while it sleeps the child is in `asleep`, in neither map.
`Recent` and `Backoff` are the code's filter of the restart times and its
delay. `restarts`, `lines` and `given` are histories: a line is a supervised
child through all its incarnations, named by the first.

**`Memory`.** `heap` holds counts and contents, `place` where each box is in
its life, `run` what each thread is doing. A drop is a worklist, one child per
step (`DropChild`), so that other threads' retains and releases fall between.
The recursive walks over the heap (`freeze_value`, `mark_gray`, `scan`,
`scan_black`) are least fixed points (`Closure`): each visits what can be
reached over the boxes it does not stop at.
A collection is entered by `coral_collect_cycles` or from within a release
(`Root`): of the releases that leave references one in a thousand collects, unless
the program turned that off, and the model lets any of them do it. It takes a step where the code takes the detector's lock, while the
other threads go on; only two collections exclude each other, as in the code.
`amiss` is a history: "claimed" once `collect_roots` took a value for garbage,
"leaked" once a message held something `freeze_value` had not got to. Both
happen (section 3), and the properties of `Memory` say what holds up to then
(`Undisturbed`).
`WeakRefs` adds weak references; `dropped` values are told from their
successors in the same box.

**`StoreData`.** An object is one field, which may be missing, a mark of
deletion, and whether it is in the cache (an index is built from the cache
only). A transaction's read (`Look`) and write (`TxUpdate`, `TxDelete`) are
steps of their own, as is each undone operation (`Undo`). `first`, `remade` and
`clean` are histories of what a transaction found, made and can answer for. The
index counts how often it lists each number under a value, since insertion does
not look whether the number is there already and removal takes all of them; a
query's answer is the number of times each object is in it.

**`Loader`.** A file is its use lines and a time of change; a text is the
sequence of the pieces in it. The code's two recursive walks, `load_recursive`
and `collect_modules`, are one walk in steps, with their recursion as an
explicit `stack`: a frame is a file that was read, the use lines left to go
through, the modules used so far (`module_deps`) and the length of the text
when it was begun. For the next file, the walk meets it on the stack
(`Circular`), or it was gone through (`Skip`), or `load` takes it from the cache
(`Reuse`), or it is read (`Open`), or it is not there (`Missing`); `Close` ends a
file and, in `load`, caches what it brought. A failed load keeps what it has
cached. Files are edited, removed and created between the calls and while one
goes on, at any step; two changes never have the same time. `local_cache` is
left out: a file in it is in `included`, which is looked at first.
`known` is history: the one program that was loaded since the cache was clear.

**The compiler.** A tree is a record of kind, name, names, number and
children. A source is a sequence of lines, each an indentation and words; what
characters a word is spelt with is left out. Each pass is a set of operators
with the name of its Rust function or of its idea; `Compiler` has an action
for each stage, with its refusals. The stages are constants of `Compiler`,
functions that `Compiler.cfg` sets to the ones it defines (`LexLines` to
`RunCode`): TLC evaluates them once, and does not expand the passes, which call
each other recursively, at every place they are used. `Codegen` produces a tree of instructions
that keeps what matters of LLVM: in which representation a slot is, which value
was cached when, which variant of a function is called. A value that is found
in the cache is used as it is, out of date or not. It refuses code in which the
value's computation does not dominate its use, as LLVM does when that code is
lowered, and what it does not lower itself (maps, members, slices, map comprehensions, loops over keys and
values, assignments to fields; stores and actors). Boolean parameters and
results of specialised variants are kept boxed. `Machine` runs the code with
bounded fuel and ends in "garbage" where the real one would interpret bits of
another kind. `Meaning` shares only `CoralValues` with it.

## 3. The runs

| run | question | expected |
|---|---|---|
| `actor_safety` | all operations, two actors, mailboxes of one message, panics: `ExactlyOnceInOrder`, `RegistryExact`, `LockOwner`, `DownCount`, `DownIsFinal`, `NothingAfterDeregistration` | pass |
| `actor_live` | `CallsReturn`, `StopIsObeyed`, `WatcherLearns`: with one worker or two for two actors, all that is promised comes about unless threads wait in a circle or for an actor that never gets a worker | pass |
| `timer_wheel` | two threads, two timers, sends that block: `OnePlace`, `NoBurst`, `AtMostOneMore`, `TimersFire`, `ShutdownReturns`, `QuietAfterShutdown` | pass |
| `scheduler` | two workers, three closures, one endless, one that may panic: `ImplementsPool`, `TwoAfterShutdown`, `EveryTaskStarts` | pass |
| `store_crash` | crashes between all steps, no compaction: `ImplementsDurable` | pass |
| `store_compact` | compaction and clean restarts: `ImplementsDurable`, `ListingExact` | pass |
| `supervision` | every strategy and budget over a tree of four actors: `RestartBudget`, `SupervisedOnce` | pass |
| `memory` | two threads, three boxes, collections at any release: `CountsExact`, `RecycledOnce`, `SharedFrozen`, each until the collector claims a value or something unfrozen is shared | pass |
| `memory_weak` | does a weak reference to a dropped value stay dead? `DroppedStaysDead` | violated |
| `store_data` | two transactions and an index: `QueryAgrees`, `RollbackRestores` | pass |
| `loader` | calls with edits between and during them: `ModulesInOrder`, `CacheNeverStale` | pass |
| `compiler` | 2600 programs through all stages: `ParsesBack`, `FoldPreserves`, `CodeMeansProgram`, `AcceptedRunsSafely`, `SilentMatchesCover`, `SolverSettled` | pass |

### What the violated one shows

`memory_weak`: a weak reference compares the epoch of its box. Recycling a box
writes `Value::unit()` over it (`lib.rs:921`) and `alloc_value` writes the next
value over that, both with epoch 0, so the epoch comes back and `upgrade`
answers with the value made there afterwards. The test in `weak_ref.rs`
("upgrade must fail after deallocation") looks before the box is used again.

### Statements that TLC refutes, kept as configurations

Each of these configurations checks one statement of the documentation that
the code does not keep; TLC answers with the behaviour described. They are not
among the runs. What each statement needs in order to hold is a hypothesis of
a theorem of section 6 where there is one.

* `ActorMutualWait.cfg` (`ActorsNeverWaitForEachOther`): `send` blocks inside the critical section of the
  registry (`actor.rs:523`). Two actors whose mailboxes are full send to each
  other: one waits for room with the registry locked, the other for the
  registry, and from then on no actor can send, spawn or stop.
* `ActorGracefulLoss.cfg` (`GracefulStopLosesNothing`): the drain loop ends when the mailbox is empty and the
  entry leaves the registry later; a message accepted in between is dropped.
* `ActorFailure.cfg` (`FailureReachesParent`): the Failure arm (`actor_ops.rs:38`) calls `send` with the
  registry locked by the same thread, and a `std::sync::Mutex` is not
  reentrant.
* `TimerWheel.cfg` with the property `CancelStopsTimer` in place of its own:
  `cancel` looks at the heap only. A repeating timer that is being fired is not
  in it: cancel answers false and the timer goes on (one timer and one caller
  are enough).
* `StoreCompactLoss.cfg` (`RestartBringsBack`): compaction keeps one entry of each object. If it is an
  Update, replay, which ignores an Update without its Insert, rebuilds nothing.
  An object that a crash left only in the log is lost; an update that was
  synced after a compaction is lost by the next crash.
* `Memory.cfg` with the invariant `NothingClaimed` in place of its own: the
  detector collects cycles, hence garbage that has references. `scan` takes any
  gray box whose count is zero, and that is a value another thread is about to
  drop: a main thread's release leaves one reference to a list it sent and
  collects; the list is marked, the actor releases it, `scan` finds its count
  zero and both free it. With the constraint `Alone` (no thread is between the
  count that became zero and the end of its drop while another marks or scans)
  the invariant holds in all 804632 states.
* `StoreCrash.cfg` with the invariant `StoreOpens` in place of its property: a crash between the truncation and the rewriting of
  `primary.idx` leaves an empty file, and `open` fails on it, although the log
  holds every object.

### Known divergences that have no run of their own

They are visible in the model and were checked while it was written:

* A panic skips `notify_monitors`, `registry.remove` and `monitors.remove`
  (`actor.rs:505-517`), so the watchers of a crashed actor are not told.
  `RegistryExact` states what is left behind.
* A graceful stop announces the death twice; `DownCount` states the bound.
* A `demonitor` that returns while `notify_monitors` works on its clone does
  not stop the ActorDown.
* An actor occupies its worker for life, so with as many idle actors as
  workers the next one does not start: a send that fills its mailbox blocks for
  ever with the registry locked, and an Exit it accepted is not acted on.
  `WaitsForWorker` and `Starved` name these states, and `CallsReturn`,
  `StopIsObeyed` and `WatcherLearns` except them only while they last for ever.
* The timer worker's send blocks like any other: while its target has no room,
  no timer fires, and a `shutdown` that joins the worker does not return.
  `TimersFire` and `ShutdownReturns` except a worker that is blocked for ever.
* A `shutdown` of the timer wheel between the spawn of the worker and the store
  of its handle joins nothing; `QuietAfterShutdown` leaves this window out.
* `Scheduler::shutdown` joins nobody; `TwoAfterShutdown` is the bound that
  holds.
* A crash inside `compact_wal`, between the removal of the old log and the
  writing of the new one, loses what is not in the index, and LSNs used again
  after a crash can make compaction keep the earlier of two entries.
* With auto_persist off, the index entry of an object that was deleted before
  it was first persisted says Active (`engine.rs:431`).

Memory:

* `FLAG_HAS_WEAK_REFS` and `FLAG_INLINE_STRING` are the same bit.
* The cycle detector collects no cycle: `mark_gray` never subtracts the
  references inside the graph, and `scan` whitens only a box whose count is
  already 0 (`docs/CYCLE_SAFE_PATTERNS.md:111` promises collection).
  `CollectorClaimsNothing` proves that it takes nothing when no thread drops a
  value beside it, in particular in a program of one thread.
* When one does, it takes that value, and what follows is worse than garbage
  kept: without its proviso `RecycledOnce` fails in five calls (make two, send,
  receive and release them): the box is in two pools, or twice in one.
* `LOCAL_ROOTS` keeps addresses of dropped boxes, and a collection enters what
  it finds there. A box that is being dropped and holds `Value::unit()` has the
  count 1, so it is marked; used again for a new value and found with the count
  zero later, it is claimed although it is in use. Once the pools are full the
  address is that of freed memory.
* `possible_root` reads the tag of a box after the release gave up its
  reference to it (`rc_ops.rs:129`, `rc_ops.rs:158`), when another thread may
  have dropped and recycled it.
* `freeze_value` does not follow Tagged and Closure fields: without its proviso
  TLC refutes `SharedFrozen` in three calls (make a list, make a tagged value of
  it, send that). A cyclic value that is sent makes it recurse without end.
* A full release queue drops the pointer, `cow_ensure_unique` keeps the
  references of the old list, messages left in a mailbox at an actor's end are
  not released, a repeating timer releases its message at each delivery
  (`actor_ops.rs:516`).

Supervision and names:

* A restart does not stop the old child; `consecutive_restarts` is never reset,
  so the backoff only grows; the message loop passes a ChildFailure on to the
  parent and does not handle it itself.
* A name stays bound to a dead actor and an occupied name is refused, so a
  restarted named child cannot register again
  (`docs/ACTOR_SYSTEM_COMPLETION.md:110`).

Store data:

* `Lt` and `Gt` through an index include the bound; a hash index answers a
  range with nothing; the default bounds `Int(MIN)` and `Int(MAX)` cut off the
  other types; lists and maps compare Equal and negative floats compare by bits.
* `create_secondary_index` reads the cache only. An update of a deleted object
  enters it into the index again.
* `rollback` recreates a deleted object under a new index, ignores errors,
  leaves an object behind when one transaction inserts and deletes it, and
  makes two of one deleted twice. Transactions see each other's writes, a crash
  leaves one partly applied and `commit` is a checkpoint; the documentation
  says ACID. `RollbackRestores` states what does hold.

Module loader (`load` only: the command line and the language server use
`load_modules`, and the server clears the cache first):

* The second load of an unchanged program returns the prelude twice and caches
  the entry with two dependencies, so a later edit of a third is not seen by the
  third load. The tests that a shared module "should only appear once"
  (`tests/phase7_features.rs:316`) and that two loads are equal (`:178`) load
  with a clear cache or without the prelude.
* A file that comes to use others, or the same in another order, between two
  loads of one program can bring old text too: the walk then meets the modules
  in another order than the one their entries were made in, and what one entry
  leaves out another no longer brings.
* Reloading a dependency for another program makes the importer's stale text
  valid again; an edited prelude stays in the cached text; a new file earlier in
  the search order is not noticed; a cached module can bring its dependency
  twice, or not at all. The modification time is read after the contents.
* The fingerprint of `ModuleCache` ignores `use` lines, and a hit returns no
  warnings (`compiler.rs:28`).

Compiler:

* Lexer and parser: no Newline follows a Dedent, so an expression that ends in
  a block is continued by the next line
  (`docs/LANGUAGE_EVOLUTION_ROADMAP.md:621`); comment-only lines take part in
  layout; a Dedent that ends an indented argument list needs no `)`.
* Lowering: a pipeline substitutes syntactically and drops argument names;
  placeholders survive under slices, spreads, `?`, unsafe blocks,
  comprehensions and guards.
* Folding: `length([...])` drops the effects of the elements; an i64 overflow
  panics in a debug build.
* Checks: a match whose arms all have guards gets no exhaustiveness warning
  (`docs/EVOLUTION_PROGRESS.md:457`, `semantic.rs:3319`); with a constructor of
  no type among its patterns a match is judged or not as the hash order has it
  (`semantic.rs:3353`; the warnings of the model are those given in every
  order, and no program of the run has such a pattern); nested positions are
  judged independently; definite assignment does not look into Match, Index,
  Pipeline and Lambda; a name assigned in both branches of an if is undefined
  after it; a binding's own name is in scope in its value; a name bound in one
  alternative of an Or-pattern is accepted; an extension before its target is
  dropped; default bodies of traits are not checked.
* Types: Error and None unify with everything, so an error that leaves an Int
  function is unboxed as a number; types are global by name; `solve_callable`
  binds without the occurs check; lambdas are constrained in a cloned graph.
* Code: `continue` in a for over a list or a range skips the increment
  (`codegen/mod.rs:2225-2262`, `2752`); a for over an iterator stops at the
  first unit; a slot can be written in one representation and read in another
  (`mod.rs:4760`); a global whose value names a later one reads 0; named arguments are
  evaluated in parameter order and defaults in the caller; builtins hide user
  functions; a range pattern stores its name when the test fails; list patterns
  after a rest read their own index; store methods are found by name only.
* Common subexpressions (`docs/REFERENCE_COMPILER_ISSUES.md:116`). The cache is
  not told of everything that changes a name, and with any of these programs
  added to those of `MCCompiler` TLC refutes `CodeMeansProgram`: a value cached
  before a while is used in its header at every turn (`log(x < 3)` before
  `while x < 3 and true`, when the body stores to `x`); a pattern that binds `x`
  again leaves `x + 1` in the cache; with `f(a, b = a + 1)` the default of a
  second call in one block is that of the first (`[f(1), f(4)]`). And it is not
  cleared before the condition of an elif (`mod.rs:2036`): a comparison that the
  body before it has evaluated is reused where it does not dominate, so that
  LLVM refuses an accepted program; 34 of the run's programs end in this way.
* Runtime: Error values are truthy; Sub and Mul of other than numbers return an
  operand; equal maps may hash differently.

The properties name the cases they leave out (an error taken for an integer,
globals out of order, a name bound in two ways);
the programs of `MCCompiler` keep clear of the others.

## 4. Bounds and why they are enough

* `actor_safety`: two actors, one client, capacity 1, six operations. Full
  mailboxes need capacity 1; two actors can watch, stop and fill each other;
  six operations are two spawns and four others, enough for monitor, send,
  graceful stop and a competing send. Actors and clients are interchangeable:
  the constants are used only as names, hence the symmetry set. `actor_live`
  uses five operations and no symmetry, as it checks liveness. Both have a pool
  of one worker, where the second actor waits for the first, or of two.
* `timer_wheel`: two timers and two callers, time up to 2 with period and poll
  interval 1: a repeating timer fires, is rescheduled and fires again, and a
  second caller cancels or shuts down at every point.
* `scheduler`: two workers and three closures: each can be stolen, in a batch,
  from a deque or an injector.
* `store_*`: two objects, two values, a log of four entries. Objects meet only
  in `next` and in the count of index entries, for which two are enough; four
  entries are an Insert, an Update and a Delete with one more object. The
  engine never looks at a value, hence the symmetry set of `store_crash`.
  `MaxLsn` leaves room for one or two saves between crashes.
* `supervision`: a root, its children and theirs, four actors in all, one report
  waiting in a mailbox, time up to 2 with a window of 1: a budget is used up,
  its window passes and it is used up again, and an escalation reaches the root.
  Every strategy is in `AllConfigs`.
* `memory`: three boxes, a main thread that may defer its releases and the
  thread of an actor, lists, tagged values and atoms, six calls: make two, link
  and send them, receive, release; a collection inside a release counts as no
  call. One call less would be enough for each way the provisos are needed.
  The actor makes no value of its own. Boxes are interchangeable. The pools hold every box, so
  that none goes back to the system. `memory_weak`: two boxes and one weak
  reference.
* `store_data`: one object in the data file and one created, two values, two
  transactions with three operations between them: insert, update and delete of
  one object, and the writes of one transaction between those of the other.
  The index is the ordered one; the hash index differs only in that it answers
  no range.
* `loader`: four patterns of imports over five files (a diamond in either order,
  a module with and without a twin in the library), two files edited, removed or
  created at any time, any of five lists of use lines for an edited one, and two
  calls: a load, a change, a load again, with a change during either. 1.5
  million states. A third call would show the ways in which the cache brings
  old text; the theorems have no bound.
* `compiler`: 2600 programs in families (expressions, sequences of statements,
  functions, matches, items, ill-typed programs), each run with fuel 12, more
  than the longest loop among them needs. 15712 states.
* `CHECK_DEADLOCK FALSE` is in every configuration but `Loader.cfg`: a program
  may stop calling the runtime, the bounds end every behaviour, and the circular
  waits that the code really has are states that `CircularWait` names. The
  loader can always be asked to clear its cache.

## 5. Fairness

* `ActorSystem`: weak fairness of each thread's call and of each actor's task.
  The operating system schedules threads, a mutex that stays free is taken, and
  a handler returns. No fairness is assumed of the decision to make a call.
* `TimerWheel`: weak fairness of the clock, the worker and the caller's steps
  inside an operation; none of `WorkerUnblocked`, as nobody has to make room
  for a send.
* `Scheduler`: weak fairness of each worker's steps, and strong fairness of
  taking work: a steal can lose a race (Retry) any number of times, and
  crossbeam promises that a thread that keeps trying is not refused for ever.
* `StoreEngine`, `StoreData`, `Memory`, `Supervision`, `Loader` and `Compiler`
  have no liveness property: their operations return by themselves.

## 6. The proofs

For every value of the constants, from the named assumptions about them and the
hypotheses named below. Each invariant is proved by the same argument: an
inductive invariant, one step per action, temporal logic at the end.

* **`ActorSystemProofs`.** `IInv` is `TypeOK`, `ControlInv`, `DataInv`,
  `DownInv` and `TellInv`. `RegistryExact` and `LockOwner` are inductive only
  together with `CallInv` (an actor inside a call is in its handler, an actor
  being spawned has a spawn call) and `DrainInv` (which phases an actor is in
  after it has begun to drain). `DataInv` is `ExactlyOnceInOrder` for one actor,
  with lemmas about appending to and taking from the sequences. `DownInv` says
  that an announced actor is in a phase it does not leave for a live one.
  `TellInv` bounds the ActorDown messages a watcher was sent by the
  announcements made so far, which are read off the phase of the dead actor.
  Theorems: `TypeCorrect`, `RegistryCorrect`, `LockCorrect`,
  `MessagesCorrect`, `MailboxCloses`, `DownCorrect`, `DownCountCorrect`.
* **`TimerWheelProofs`.** `Armed` bounds the ids in use by `nextId`;
  `Distinct` is `OnePlace` in a form the provers can use; `Timing` relates the
  due time of an entry to the number of times it fired; `Late` says where a
  cancelled timer that may still fire is; `Joinable` that a running worker's
  handle is stored, about to be stored, or in the hands of a `shutdown` that
  waits for the worker. Theorems: `TypeCorrect`, `OnePlaceCorrect`,
  `NoBurstCorrect`, `CancelCorrect`, `QuietCorrect`.
* **`SchedulerProofs`.** `PoolInv`: each closure is in the queues at most once
  (`UniqueIn`), only closures handed in are, and a worker runs a closure
  exactly when its counter says so. Theorems: `TypeCorrect`, `ShutdownBound`,
  and `Refines`, that the scheduler implements `TaskPool`.
* **`StoreEngineProofs`.** Lemmas say what `Rebuilt` makes of a log with one
  more entry, and of a compacted one. `TypeCorrect` includes replay and
  compaction: the entry that compaction keeps exists, as do the ranks it sorts
  by. The rest holds for two kinds of store, each with its own invariant:
  * one whose log is never compacted (`"compact" \notin Ops`), whatever crashes
    come. `DurableInv` says that the cache is what replay would make of the log
    (`CacheMirrorsLog`) and that the index names logged objects only
    (`LogIsComplete`). From it: `DurableWithoutCompaction` (the engine
    implements `DurableStore`), `RestartWithoutCompaction` and
    `ListingWithoutCompaction`;
  * one that never crashes (`"crash" \notin Ops`), whatever compactions come.
    `CleanInv` says that at every step of an operation the log together with
    the index, or with what `compact_wal` holds in memory, gives back each
    object, and that the LSNs used are those before the header's. From it
    `DurableWithoutCrash`; and with `FlagInv` (an index entry's flag tells what
    its record does) `ListingWithoutCrash`, which needs `AutoPersist`: without
    it the entry of an object deleted before it was first persisted says Active.

  Neither hypothesis can be dropped. An object that is created, lost from the
  index by a crash, then updated, has its Insert dropped by compaction, and the
  next crash loses it (`StoreCompactLoss.cfg`). Listing fails in the same way:
  an object created, left unsaved by a crash and deleted gets the entry Active
  for a deleted record; once compaction has dropped its log entries, a restart
  lists it.
* **`SupervisionProofs`.** `Named` gives each tracker, in the map or asleep,
  the line of its child and no other; with it `SupervisedOnce` is inductive.
  `Tracked` says that the times a tracker kept contain every restart of its
  line that is still within the window: `RestartBudget` follows, as a restart is
  made only when fewer than `max_restarts` are kept. The lemmas about `Recent`
  use that restart times never decrease. Theorems: `TypeCorrect`,
  `BudgetCorrect`, `OnceCorrect`. The backoff needs only to be a natural number.
* **`StoreDataProofs`.** `Indexed` says that the index counts a number once
  under the value its object has and nowhere else; every insertion, update,
  deletion and undone operation preserves it, given that the numbers a
  transaction undoes are those it wrote. `Restorable` says of the operations
  still to be undone that undoing them, last first, restores what the
  transaction found. Theorems: `QueryCorrect`, and the action property
  `RollbackCorrect`.
* **`MemoryProofs`.** `Refs` counts references over five kinds of places; the
  lemmas `TotalUpdate`, `RefsStep` and `PartSame` reduce a step to the thread
  and the box it changes. `Owners` says whose hands a dying box and the shell
  of a dropped one are in; `Counts` adds to `CountsExact` that a dropped box has
  no items and only live boxes and shells have a count. They are inductive only
  together, with `RecycledOnce`: a box may leave the pool because nobody refers
  to it, and nobody refers to it because its count was exact. `IInv` holds until
  the collector claims a value, whether or not what is shared is frozen.
  Theorems: `InvariantCorrect`, `CountsCorrect`, `RecycleCorrect`.
  `FrozenCorrect` rests on `Shared`: a value that is not frozen belongs to the
  thread that made it, only this thread has it in its hands, and a value's
  items are frozen if it is, or belong to its owner. What a thread reaches is
  then its own or frozen (`Closure` is least). It holds for all kinds of values
  until a message holds what `freeze_value` did not get to; that such a message
  is the only way to share an unfrozen value is what the theorem says.
  `CollectorClaimsNothing` has the hypothesis `[]Alone`, about the other
  threads, in place of a proviso about the collector: no box is then ever white.
  `Marked` says that a gray box is live, or was released afterwards and is about
  to be forgotten (`notify_value_freed`); with `Alone` none of the latter exists
  while a collection scans, so that what it finds gray has a count.
* **`LoaderProofs`.** `IInv` is `TypeOK` with four parts. `StackInv`: a file is
  on the stack once and not after it was gone through. `SteadyInv`, while no
  file changes: each frame is what the disk holds (`AsRead`), the stack is a
  chain of uses (`Chain`), and whatever is needed was gone through, is begun or
  is still to come (`Reach`). `PureInv`, of calls that start with a clear cache:
  the text has one piece of each file gone through. `EndInv`: a call that ended
  did so for a reason. A circular import is found at a file that the stack
  shows to need itself; at the end of a walk the set of files gone through is
  closed under uses, so it has what is needed, and the order of the text rules
  out that one needs itself (`Closure` is least: no induction is used).
  Theorems: `TypeCorrect`, `Order`.

  `Reload` is `CacheNeverStale`. What a cached text holds depends on what the
  walk had gone through when it was made, so no invariant about single entries
  is inductive. `RInv` says that there is a *plan* of the first load: for each
  file the length of the text when it was begun and when it was closed, which
  numbers the files in the order of the text. `FirstLoad` relates a load that
  goes on to its plan; `Known` says what the cache holds between the calls, in
  terms of the plan; `AgainLoad` says that the second load is where the first
  was when its text had length `p`, though it may have come there by other
  steps: `Close` moves `p` on by one file, `Reuse` by all that the entry
  brought. That an entry is valid means that all it brought is as it was
  (`ValidSpan`): it brought what its dependencies reach, up to what was there
  before. The existence of the plan needs no induction either, since every
  step extends it. The hypotheses in the property (`checked`, `steady`, the
  history `known`) are needed: without them the ways of section 3 in
  which old text comes back are counterexamples.

Only model-checked:

* liveness, which needs fairness and ENABLED: `CallsReturn`, `StopIsObeyed`,
  `WatcherLearns`, `TimersFire`, `ShutdownReturns`, `EveryTaskStarts`;
* the store with crashes and compaction together, of which the theorems'
  conclusions are false;
* the properties of the compiler, whose passes are recursive over syntax trees:
  induction over data;
* the provisos of `Memory` are needed: `NothingClaimed` and `SharedFrozen`
  without them are what TLC refutes;
* `DroppedStaysDead` of `WeakRefs` is what TLC refutes.

## 7. What is not modelled, and the plan

Not modelled, and why:

* Named actors: a map from names to handles whose only difficulty is the stale
  name listed above. Remote actors: sockets and frames around `send`.
* The open-addressing map, the size classes of the allocator and the interning
  of symbols: sequential data structures with tests of their own.
* A crash in the middle of a transaction (it is partly applied, as said above),
  two engines over one log directory, sync modes other than the default,
  several log segments, the bytes of log, index and records (a torn entry),
  encodings and I/O errors.
* In the compiler: code for stores, actors, maps and members, usage, mutability
  and escape analysis, warnings about members and typed sends, the cache of
  generated code. LLVM itself is the instruction set of `Machine`.
* In the runtime's memory: the nested release of what a closure captured and
  of map entries (lists and tagged values stand for them), the steps within the
  freeing of one box by the collector (after which the properties claim
  nothing), and the data race of a collector that reads a list while its owner
  appends to it, which is undefined behaviour of the code.
* Operating-system wrappers, command line, documentation generator, diagnostics
  and language server: I/O and text. The compiler written in Coral is a second
  implementation of the modelled one.
* A zero repeat interval in the timer wheel.

Next:

1. The type invariant and the counts in `WeakRefs`: it adds steps to `Memory`
   that leave all of `Memory`'s variables alone.
2. `Remote` and the names, composed with `ActorSystem`.
