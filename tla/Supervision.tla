---------------------------- MODULE Supervision -----------------------------
(***************************************************************************)
(* Supervised children (actor.rs): a root supervises supervisors, those    *)
(* supervise workers.  A child reports a failure to its parent; the parent *)
(* restarts it within a budget of restarts per window, perhaps after a     *)
(* backoff during which it sleeps, stops supervising it, resumes it, or    *)
(* gives up and reports itself to its own parent.                          *)
(*                                                                         *)
(* A restart starts a new actor from the child's factory: the old one is   *)
(* not stopped, and may report again.  The restarts of one child form a    *)
(* line, named by the first actor of it.                                   *)
(***************************************************************************)
EXTENDS Integers, Sequences, FiniteSets, Functions

CONSTANTS
    Configs,        \* the SupervisionConfigs children are started with
    MaxChildren,    \* their common max_children, 0 for no limit
    MaxActors,      \* bound: actors ever started
    MaxBox,         \* bound: reports waiting in a mailbox
    MaxTime         \* bound: clock

ASSUME ConfigAssumption ==
    /\ MaxChildren \in Nat
    /\ \A cfg \in Configs :
        /\ cfg.strategy \in {"Restart", "Stop", "Escalate", "Resume"}
        /\ cfg.max_restarts \in Nat /\ cfg.window \in Nat
        /\ cfg.backoff_base \in Nat /\ cfg.backoff_max \in Nat

VARIABLES
    actors,     \* actors started: level and parent
    alive,      \* actors in the registry
    children,   \* supervised_children of each actor: line, config and tracker
    mailbox,    \* ChildFailure messages waiting at each actor
    asleep,     \* the restart an actor sleeps before: none or one
    now,        \* Instant::now()
    lines,      \* history: the lines each actor started, with their configs
    restarts,   \* history: decisions to restart, line and time
    given       \* history: lines given up

vars == <<actors, alive, children, mailbox, asleep, now, lines, restarts, given>>

Started == DOMAIN actors

Root == 1

(* SupervisedChildInfo with RestartTracker::default()                       *)
NewChild(line, cfg) == [line |-> line, config |-> cfg, times |-> <<>>, consecutive |-> 0]

Init ==
    /\ actors = <<[level |-> 0, parent |-> 0]>>
    /\ alive = {Root}
    /\ children = <<(<<>>)>>
    /\ mailbox = <<(<<>>)>>
    /\ asleep = <<{}>>
    /\ now = 0
    /\ lines = <<(<<>>)>>
    /\ restarts = <<>>
    /\ given = {}

-----------------------------------------------------------------------------
(* Running actors act while they do not sleep.                              *)
Acts(a) == a \in alive /\ asleep[a] = {}

NewId == Len(actors) + 1

Put(f, k, v) == [x \in DOMAIN f \cup {k} |-> IF x = k THEN v ELSE f[x]]

(* ActorSystem::spawn with parent p; kids are p's supervised children       *)
(* afterwards.                                                              *)
Spawn(p, kids) ==
    /\ NewId <= MaxActors
    /\ actors' = Append(actors, [level |-> actors[p].level + 1, parent |-> p])
    /\ alive' = alive \cup {NewId}
    /\ children' = Append([children EXCEPT ![p] = kids], <<>>)

(* spawn_supervised_child: refused when max_children is reached.            *)
SpawnSupervised(p, cfg) ==
    /\ Acts(p) /\ actors[p].level < 2
    /\ MaxChildren > 0 => Cardinality(DOMAIN children[p]) < MaxChildren
    /\ Spawn(p, Put(children[p], NewId, NewChild(NewId, cfg)))
    /\ lines' = Append([lines EXCEPT ![p] = Put(@, NewId, cfg)], <<>>)
    /\ mailbox' = Append(mailbox, <<>>)
    /\ asleep' = Append(asleep, {})
    /\ UNCHANGED <<now, restarts, given>>

(* notify_child_failure: a message to the parent, lost when the parent is   *)
(* no longer registered.                                                    *)
Told(p, c) == IF p \in alive THEN [mailbox EXCEPT ![p] = Append(@, c)] ELSE mailbox

Report(c) ==
    LET p == actors[c].parent IN
    /\ Acts(c) /\ p # 0
    /\ p \in alive => Len(mailbox[p]) < MaxBox
    /\ mailbox' = Told(p, c)
    /\ UNCHANGED <<actors, alive, children, asleep, now, lines, restarts, given>>

(* An actor's closure returns: it leaves the registry, its children run on. *)
Exit(a) ==
    /\ Acts(a)
    /\ alive' = alive \ {a}
    /\ UNCHANGED <<actors, children, mailbox, asleep, now, lines, restarts, given>>

Tick ==
    /\ now < MaxTime
    /\ now' = now + 1
    /\ UNCHANGED <<actors, alive, children, mailbox, asleep, lines, restarts, given>>

-----------------------------------------------------------------------------
(* Where the times that are kept begin.                                     *)
Least(S) == CHOOSE k \in S : \A j \in S : k <= j

(* Mutant: a restart exactly one window old is dropped too.                 *)
RecentExclusive(times, window) ==
    LET young == {k \in 1 .. Len(times) : now - times[k] < window}
    IN SubSeq(times, Least(young \cup {Len(times) + 1}), Len(times))

(* handle_child_failure drops restarts from the front until it meets one of *)
(* the last window.                                                         *)
Recent(times, window) ==
    LET young == {k \in 1 .. Len(times) : now - times[k] <= window}
    IN SubSeq(times, Least(young \cup {Len(times) + 1}), Len(times))

(* The exponent is capped at 20.                                            *)
Backoff(cfg, consecutive) ==
    LET exp == IF consecutive - 1 < 20 THEN consecutive - 1 ELSE 20
        delay == cfg.backoff_base * 2 ^ exp
    IN IF delay < cfg.backoff_max THEN delay ELSE cfg.backoff_max

(* handle_child_failure: the decision.                                      *)
Decision(child) ==
    LET cfg == child.config IN
    IF Len(Recent(child.times, cfg.window)) >= cfg.max_restarts THEN "Escalate"
    ELSE IF cfg.strategy = "Restart" /\ cfg.backoff_base > 0 THEN "RestartAfter"
    ELSE cfg.strategy

(* The tracker a restarted child goes on with.                              *)
Restarted(child) ==
    [child EXCEPT !.times = Append(Recent(@, child.config.window), now), !.consecutive = @ + 1]

(* Mutant: the restarted child is not taken out before its successor goes   *)
(* in.                                                                      *)
WithoutNothing(c, kids) == kids

Without(c, kids) == Restrict(kids, DOMAIN kids \ {c})

(* The head of p's mailbox is handled; of an unsupervised child nothing is  *)
(* done.                                                                    *)
Drop(p) == mailbox' = [mailbox EXCEPT ![p] = Tail(@)]

Unknown(p, c) ==
    /\ c \notin DOMAIN children[p]
    /\ Drop(p)
    /\ UNCHANGED <<actors, alive, children, asleep, lines, restarts, given>>

Stop(p, c, child) ==
    /\ children' = [children EXCEPT ![p] = Without(c, @)]
    /\ given' = given \cup {child.line}
    /\ Drop(p)
    /\ UNCHANGED <<actors, alive, asleep, lines, restarts>>

(* Escalation reports p itself to p's parent.                               *)
Escalate(p, c, child) ==
    LET q == actors[p].parent IN
    /\ q \in alive => Len(mailbox[q]) < MaxBox
    /\ children' = [children EXCEPT ![p] = Without(c, @)]
    /\ given' = given \cup {child.line}
    /\ mailbox' = [Told(q, p) EXCEPT ![p] = Tail(@)]
    /\ UNCHANGED <<actors, alive, asleep, lines, restarts>>

Restart(p, c, child) ==
    /\ Spawn(p, Put(Without(c, children[p]), NewId, Restarted(child)))
    /\ mailbox' = Append([mailbox EXCEPT ![p] = Tail(@)], <<>>)
    /\ asleep' = Append(asleep, {})
    /\ restarts' = Append(restarts, [line |-> child.line, at |-> now])
    /\ lines' = Append(lines, <<>>)
    /\ UNCHANGED given

(* The child is taken out at once and the supervisor sleeps.                *)
RestartAfter(p, c, child) ==
    LET next == Restarted(child) IN
    /\ children' = [children EXCEPT ![p] = Without(c, @)]
    /\ asleep' = [asleep EXCEPT ![p] = {[wake |-> now + Backoff(child.config, next.consecutive),
                                         child |-> next]}]
    /\ restarts' = Append(restarts, [line |-> child.line, at |-> now])
    /\ Drop(p)
    /\ UNCHANGED <<actors, alive, lines, given>>

Resume(p, c, child) ==
    /\ children' = [children EXCEPT ![p][c].times = Recent(@, child.config.window)]
    /\ Drop(p)
    /\ UNCHANGED <<actors, alive, asleep, lines, restarts, given>>

(* handle_child_failure_msg                                                 *)
HandleFailure(p) ==
    /\ Acts(p) /\ mailbox[p] # <<>>
    /\ LET c == Head(mailbox[p]) IN
       \/ Unknown(p, c)
       \/ /\ c \in DOMAIN children[p]
          /\ LET child == children[p][c]
                 decision == Decision(child) IN
             \/ decision = "Stop" /\ Stop(p, c, child)
             \/ decision = "Escalate" /\ Escalate(p, c, child)
             \/ decision = "Restart" /\ Restart(p, c, child)
             \/ decision = "RestartAfter" /\ RestartAfter(p, c, child)
             \/ decision = "Resume" /\ Resume(p, c, child)
    /\ UNCHANGED now

(* After the sleep the child is started and supervised again.               *)
Wake(p) ==
    /\ p \in alive
    /\ \E sleep \in asleep[p] :
        /\ now >= sleep.wake
        /\ Spawn(p, Put(children[p], NewId, sleep.child))
    /\ lines' = Append(lines, <<>>)
    /\ asleep' = Append([asleep EXCEPT ![p] = {}], {})
    /\ mailbox' = Append(mailbox, <<>>)
    /\ UNCHANGED <<now, restarts, given>>

Next ==
    \/ \E a \in Started, cfg \in Configs : SpawnSupervised(a, cfg)
    \/ \E a \in Started : Report(a)
    \/ \E a \in Started : Exit(a)
    \/ \E a \in Started : HandleFailure(a)
    \/ \E a \in Started : Wake(a)
    \/ Tick

Spec == Init /\ [][Next]_vars

-----------------------------------------------------------------------------
(* Properties.                                                              *)

(* A child is restarted at most max_restarts times in any window, however   *)
(* its failures, late reports of earlier incarnations and the supervisor's  *)
(* sleeps fall: the tracker follows the child from incarnation to           *)
(* incarnation (handle_child_failure).                                      *)
RestartBudget ==
    \A i \in DOMAIN restarts :
        LET line == restarts[i].line
            cfg == lines[actors[line].parent][line]
            near == {j \in 1 .. i : /\ restarts[j].line = line
                                    /\ restarts[i].at - restarts[j].at <= cfg.window}
        IN Cardinality(near) <= cfg.max_restarts

(* Nothing falls out of supervision and nothing is supervised twice: each   *)
(* line an actor started is supervised by it exactly once, or waits for its *)
(* restart, unless it was given up; and the children never exceed           *)
(* max_children (handle_child_failure_msg, spawn_supervised_child).         *)
SupervisedOnce ==
    \A p \in Started :
        LET kids == children[p]
            waiting == {sleep.child.line : sleep \in asleep[p]}
            watched == {kids[c].line : c \in DOMAIN kids}
        IN /\ \A c, d \in DOMAIN kids : kids[c].line = kids[d].line => c = d
           /\ watched \cap waiting = {}
           /\ watched \cup waiting = DOMAIN lines[p] \ given
           /\ MaxChildren > 0 => Cardinality(DOMAIN kids) + Cardinality(waiting) <= MaxChildren

=============================================================================
