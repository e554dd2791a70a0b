------------------------------- MODULE Loader -------------------------------
(***************************************************************************)
(* The module loader: one text with every module a program uses expanded   *)
(* in it (load, with a cache of expanded modules that lives as long as the *)
(* loader), or the list of the modules in dependency order (load_modules). *)
(* Files are edited, removed and created between the calls and while one   *)
(* of them goes through the files.                                         *)
(*                                                                         *)
(* A file is its use lines, in order, and one piece of text of its own     *)
(* after them, told apart by the time of its last change.  A text is the   *)
(* sequence of the pieces in it, as is a list of modules.  The recursive   *)
(* walk through the files is a sequence of steps with an explicit stack.   *)
(***************************************************************************)
EXTENDS Naturals, Sequences, FiniteSets, Functions

CONSTANTS
    Files,      \* files there may be: directory ("project", "std") and module
    Entries,    \* files that are loaded
    UseLists,   \* use lines a file may have: sequences of names
    Disks,      \* what the disk may hold at first: use lines by file
    NoPrelude,  \* ModuleLoader.no_prelude
    MaxTime,    \* bound: changes of files
    MaxCalls    \* bound: calls of load and load_modules

Prelude == <<"std", "prelude">>

Unresolved == <<"nowhere", "nothing">>

(* The history once it says nothing any more.                               *)
Several == <<"nowhere", "several">>

ASSUME LoaderAssumption ==
    /\ Files \subseteq STRING \X STRING
    /\ Prelude \in Files
    /\ Files \cap {Unresolved, Several} = {}
    /\ Entries \subseteq Files
    /\ UseLists \subseteq Seq(STRING)
    /\ \A files \in Disks : DOMAIN files \subseteq Files /\ Range(files) \subseteq UseLists
    /\ NoPrelude \in BOOLEAN
    /\ MaxTime \in Nat
    /\ MaxCalls \in Nat

VARIABLES
    disk,       \* the files there are: use lines and time of the last change
    clock,      \* the time
    calls,      \* calls of load and load_modules so far
    cache,      \* ModuleLoader.cache: expanded text, time, dependencies
    call,       \* the call that goes on or the last one, and how it ended
    roots,      \* files to go through: the prelude and the entry
    stack,      \* files begun: what was read of each and what is left to do
    included,   \* files gone through: included, visited
    text,       \* the pieces there are so far, or the result
    known       \* history: the one entry loaded since the cache was clear

walk == <<roots, stack, included, text>>

vars == <<disk, clock, calls, cache, call, walk, known>>

Exists(f) == f \in DOMAIN disk

Put(g, k, v) == [x \in DOMAIN g \cup {k} |-> IF x = k THEN v ELSE g[x]]

IsStd(f) == f[1] = "std"

(* resolve_module: beside the file, then in the working directory (the      *)
(* project's), then in the standard library.                                *)
Resolve(f, n) ==
    LET beside == <<f[1], n>>
        project == <<"project", n>>
        std == <<"std", n>>
    IN CASE Exists(beside) -> beside
         [] ~Exists(beside) /\ Exists(project) -> project
         [] ~Exists(beside) /\ ~Exists(project) /\ Exists(std) -> std
         [] OTHER -> Unresolved

-----------------------------------------------------------------------------
(* The cache.                                                               *)

Current(c, f) == f \in DOMAIN c /\ Exists(f) /\ disk[f].time = c[f].time

(* Mutant: the dependencies are not looked at.                              *)
ValidTop(c, f) == Current(c, f)

(* is_cache_valid: the file and all it depends on according to the cache,   *)
(* each compared with its own entry, are as they were.                      *)
Valid(c, f) ==
    \E visited \in SUBSET DOMAIN c :
        f \in visited /\ \A g \in visited : Current(c, g) /\ c[g].dependencies \subseteq visited

(* update_module_info: the time is that of the file now, not when it was    *)
(* read.                                                                    *)
Cached(c, f, content, deps) ==
    Put(c, f, [content |-> content, time |-> IF Exists(f) THEN disk[f].time ELSE 0,
               dependencies |-> deps])

-----------------------------------------------------------------------------
(* One walk through the files: load_recursive and collect_modules.          *)

NoCall == [op |-> "none", entry |-> Unresolved, status |-> "idle",
           steady |-> TRUE, fresh |-> FALSE, checked |-> FALSE]

Walking == call.status = "walking"

Top == stack[Len(stack)]

Rest(s) == SubSeq(s, 1, Len(s) - 1)

(* The next file to go through, if any: a file that the one on top of the   *)
(* stack uses, or the next of the roots.                                    *)
Pending == Walking /\ (IF stack = <<>> THEN roots # <<>> ELSE Top.uses # <<>>)

Target == IF stack = <<>> THEN Head(roots) ELSE Resolve(Top.file, Head(Top.uses))

(* Mutant: a file gone through counts as one begun.                         *)
OnStackOrVisited(f) == f \in included \/ \E i \in DOMAIN stack : stack[i].file = f

OnStack(f) == \E i \in DOMAIN stack : stack[i].file = f

Unseen(f) == ~OnStack(f) /\ f \notin included

Reusable(f) == call.op = "load" /\ Valid(cache, f)

(* What is left to do on s and r once f has been gone through.              *)
Advanced(frame, f) == [frame EXCEPT !.uses = Tail(@), !.deps = @ \cup {f}]

StackAfter(s, f) == IF s = <<>> THEN s ELSE [s EXCEPT ![Len(s)] = Advanced(@, f)]

RootsAfter(s, r) == IF s = <<>> THEN Tail(r) ELSE r

(* An error ends the call; what was cached stays.                           *)
Fail(why) ==
    /\ call' = [call EXCEPT !.status = why]
    /\ roots' = <<>>
    /\ stack' = <<>>
    /\ included' = {}
    /\ text' = <<>>
    /\ known' = IF call.op = "load" THEN Several ELSE known
    /\ UNCHANGED <<disk, clock, calls, cache>>

Circular == Pending /\ OnStack(Target) /\ Fail("circular")

Missing == Pending /\ Unseen(Target) /\ ~Exists(Target) /\ Fail("missing")

(* What was gone through before gives nothing.                              *)
Skip ==
    /\ Pending
    /\ ~OnStack(Target)
    /\ Target \in included
    /\ stack' = StackAfter(stack, Target)
    /\ roots' = RootsAfter(stack, roots)
    /\ UNCHANGED <<disk, clock, calls, cache, call, included, text, known>>

(* load takes the text of a module whose entry in the cache is valid.       *)
Reuse ==
    /\ Pending
    /\ Unseen(Target)
    /\ Reusable(Target)
    /\ stack' = StackAfter(stack, Target)
    /\ roots' = RootsAfter(stack, roots)
    /\ included' = included \cup {Target}
    /\ text' = text \o cache[Target].content
    /\ UNCHANGED <<disk, clock, calls, cache, call, known>>

(* A file is read and its uses are gone through.                            *)
Open ==
    /\ Pending
    /\ Unseen(Target)
    /\ ~Reusable(Target)
    /\ Exists(Target)
    /\ stack' = Append(stack, [file |-> Target, time |-> disk[Target].time,
                               uses |-> disk[Target].uses, deps |-> {}, from |-> Len(text)])
    /\ UNCHANGED <<disk, clock, calls, cache, call, roots, included, text, known>>

(* Its own text comes after that of what it uses; load caches the whole.    *)
Close ==
    LET f == Top.file
        longer == Append(text, <<f, Top.time>>)
    IN
    /\ Walking
    /\ stack # <<>>
    /\ Top.uses = <<>>
    /\ stack' = StackAfter(Rest(stack), f)
    /\ roots' = RootsAfter(Rest(stack), roots)
    /\ included' = included \cup {f}
    /\ text' = longer
    /\ cache' = IF call.op = "load"
                THEN Cached(cache, f, SubSeq(longer, Top.from + 1, Len(longer)), Top.deps)
                ELSE cache
    /\ UNCHANGED <<disk, clock, calls, call, known>>

-----------------------------------------------------------------------------
(* The calls.                                                               *)

RootsOf(entry) ==
    IF IsStd(entry) \/ NoPrelude \/ ~Exists(Prelude) THEN <<entry>> ELSE <<Prelude, entry>>

Begin(op, entry) ==
    /\ ~Walking
    /\ calls < MaxCalls
    /\ calls' = calls + 1
    /\ call' = [op |-> op, entry |-> entry, status |-> "walking", steady |-> TRUE,
                fresh |-> DOMAIN cache = {}, checked |-> known \in {Unresolved, entry}]
    /\ roots' = RootsOf(entry)
    /\ text' = <<>>
    /\ UNCHANGED <<disk, clock, stack, included>>

(* load                                                                     *)
Load(entry) ==
    /\ Begin("load", entry)
    /\ known' = IF known = Unresolved THEN entry ELSE Several
    /\ UNCHANGED cache

(* load_modules first forgets the files that are gone.                      *)
LoadModules(entry) ==
    /\ Begin("load_modules", entry)
    /\ cache' = Restrict(cache, DOMAIN cache \cap DOMAIN disk)
    /\ UNCHANGED known

(* load caches the entry once more, with all the text and all the files     *)
(* there are in it.                                                         *)
Return ==
    /\ Walking
    /\ stack = <<>>
    /\ roots = <<>>
    /\ call' = [call EXCEPT !.status = "done"]
    /\ cache' = IF call.op = "load" THEN Cached(cache, call.entry, text, included) ELSE cache
    /\ included' = {}
    /\ UNCHANGED <<disk, clock, calls, roots, stack, text, known>>

ClearCache ==
    /\ ~Walking
    /\ cache' = <<>>
    /\ known' = Unresolved
    /\ call' = NoCall
    /\ text' = <<>>
    /\ UNCHANGED <<disk, clock, calls, roots, stack, included>>

-----------------------------------------------------------------------------
(* Files change at any time.  A result is compared with the disk until then *)
(* and if nothing changed during the call.                                  *)

Uses == [f \in DOMAIN disk |-> {Resolve(f, n) : n \in Range(disk[f].uses)}]

(* Everything reached from the files S: the least set closed under edges.   *)
Places == Files \cup {Unresolved}

Closed(edges, S) == \A f \in S \cap DOMAIN edges : edges[f] \subseteq S

Closure(edges, S) ==
    {f \in Places :
        \A reached \in SUBSET Places : S \subseteq reached /\ Closed(edges, reached) => f \in reached}

Needed(from) == Closure(Uses, from)

(* The history is lost by a change during a load or of the prelude, and one *)
(* after which a file uses others than before.                              *)
SameUses ==
    /\ DOMAIN disk' \subseteq DOMAIN disk
    /\ \A f \in DOMAIN disk' :
           /\ disk'[f].uses = disk[f].uses
           /\ \A n \in Range(disk[f].uses) : Resolve(f, n)' \in {Resolve(f, n), Unresolved}

Change(f) ==
    /\ clock < MaxTime
    /\ clock' = clock + 1
    /\ call' = IF Walking THEN [call EXCEPT !.steady = FALSE] ELSE NoCall
    /\ text' = IF Walking THEN text ELSE <<>>
    /\ known' = IF \/ known = Unresolved
                   \/ ~(Walking /\ call.op = "load") /\ f \notin Needed({Prelude}) /\ SameUses
                THEN known ELSE Several
    /\ UNCHANGED <<calls, cache, roots, stack, included>>

WriteFile(f, uses) ==
    /\ disk' = Put(disk, f, [uses |-> uses, time |-> clock + 1])
    /\ Change(f)

RemoveFile(f) ==
    /\ disk' = Restrict(disk, DOMAIN disk \ {f})
    /\ Change(f)

Init ==
    /\ \E files \in Disks : disk = [f \in DOMAIN files |-> [uses |-> files[f], time |-> 1]]
    /\ clock = 1
    /\ calls = 0
    /\ cache = <<>>
    /\ call = NoCall
    /\ roots = <<>>
    /\ stack = <<>>
    /\ included = {}
    /\ text = <<>>
    /\ known = Unresolved

Next ==
    \/ \E f \in Entries : Load(f)
    \/ \E f \in Entries : LoadModules(f)
    \/ Circular
    \/ Missing
    \/ Skip
    \/ Reuse
    \/ Open
    \/ Close
    \/ Return
    \/ ClearCache
    \/ \E f \in Files, uses \in UseLists : WriteFile(f, uses)
    \/ \E f \in DOMAIN disk : RemoveFile(f)

Spec == Init /\ [][Next]_vars

-----------------------------------------------------------------------------
(* Properties.                                                              *)

Ended == call.status \in {"done", "circular", "missing"}

Done == call.status = "done"

NeededBy(entry) == Needed(Range(RootsOf(entry)))

(* Nothing that is needed is missing or needs itself.                       *)
Loadable(entry) ==
    \A f \in NeededBy(entry) : Exists(f) /\ f \notin Needed(Uses[f])

OnDisk(fs) == {<<f, disk[f].time>> : f \in fs}

(* load_modules, and load with a clear cache, succeed exactly when no file  *)
(* is missing and no import is circular, whatever was loaded and edited     *)
(* before; then they give every module the program needs, as it is on disk, *)
(* after the modules it uses.  No module comes twice, even if files change  *)
(* meanwhile (collect_modules and load_recursive, with their stack and set  *)
(* of files gone through).                                                  *)
ModulesInOrder ==
    LET at == [i \in DOMAIN text |-> text[i][1]] IN
    (call.op = "load_modules" \/ call.fresh) =>
        /\ IsInjective(at)
        /\ (Ended /\ call.steady) => (Done <=> Loadable(call.entry))
        /\ (Done /\ call.steady) =>
               /\ Range(text) = OnDisk(NeededBy(call.entry))
               /\ \A i \in DOMAIN at : Uses[at[i]] \subseteq {at[j] : j \in 1 .. i - 1}

(* A program that was loaded once is loaded again after files were edited,  *)
(* with the same use lines, or removed: the load fails exactly when it      *)
(* would without the cache, and otherwise every module the program needs is *)
(* in the text and nothing in it is old (is_cache_valid, load_recursive).   *)
(* This is not so when the prelude was edited, when a file came to use      *)
(* others, when another program was loaded in between, or the third time:   *)
(* an entry is made with the text its dependencies had then, and is valid   *)
(* again once they have been cached again without it.                       *)
CacheNeverStale ==
    (call.op = "load" /\ call.checked /\ call.steady /\ Ended) =>
        /\ Done <=> Loadable(call.entry)
        /\ Done => Range(text) = OnDisk(NeededBy(call.entry))

=============================================================================
