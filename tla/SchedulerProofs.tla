-------------------------- MODULE SchedulerProofs --------------------------
(***************************************************************************)
(* Proofs about Scheduler, for every number of workers and closures: type  *)
(* correctness, at most two closures per worker after shutdown, and that   *)
(* it implements TaskPool.                                                 *)
(***************************************************************************)
EXTENDS Scheduler, TLAPS

\* The queues of different workers, and the two of one worker, are different.
LEMMA QueueFacts ==
    ASSUME NEW w \in Workers
    PROVE  /\ Local(w) \in Queues /\ Injector(w) \in Queues
           /\ \A v \in Workers : Injector(v) # Local(w) /\ (v # w => Local(v) # Local(w))
BY DEF Local, Injector, Queues

\* Removing a prefix of a sequence of closures leaves one.
LEMMA SubSeqType ==
    ASSUME NEW s \in Seq(Tasks), NEW m \in 1..(Len(s) + 1), NEW n \in 0..Len(s)
    PROVE  SubSeq(s, m, n) \in Seq(Tasks)
OBVIOUS

\* A batch keeps every queue a sequence of closures, and w runs a closure.
LEMMA BatchType ==
    ASSUME TypeOK, NEW w \in Workers, NEW q \in Queues, NEW k, NEW r \in {"top", "again"},
           StealBatch(w, q, k, r)
    PROVE  /\ queue' \in [Queues -> Seq(Tasks)]
           /\ pc' \in [Workers -> Places]
           /\ runs' \in [Workers -> Tasks \cup {NoTask}]
           /\ resume' \in [Workers -> {"top", "again"}]
           /\ extra' \in [Workers -> Nat]
<1>1. queue[q] \in Seq(Tasks) /\ k \in 1..Len(queue[q]) /\ Local(w) \in Queues
      /\ queue[Local(w)] \in Seq(Tasks)
  BY QueueFacts DEF TypeOK, StealBatch
<1>2. SubSeq(queue[q], k + 1, Len(queue[q])) \in Seq(Tasks) /\ SubSeq(queue[q], 2, k) \in Seq(Tasks)
  BY <1>1, SubSeqType
<1>3. queue' \in [Queues -> Seq(Tasks)]
  <2>1. queue[Local(w)] \o SubSeq(queue[q], 2, k) \in Seq(Tasks)
    BY <1>1, <1>2
  <2> QED
    BY <1>2, <2>1 DEF TypeOK, StealBatch
<1>4. Head(queue[q]) \in Tasks
  BY <1>1
<1>5. Run(w, Head(queue[q]), r)
  BY DEF StealBatch
<1>6. extra' \in [Workers -> Nat]
  BY <1>5 DEF TypeOK, Run
<1> QED
  BY <1>3, <1>4, <1>5, <1>6 DEF TypeOK, Run, Places

\* Every step keeps TypeOK.
LEMMA TypeStep == TypeOK /\ [Next]_vars => TypeOK'
<1> SUFFICES ASSUME TypeOK, [Next]_vars PROVE TypeOK'
  OBVIOUS
<1>1. CASE UNCHANGED vars
  BY <1>1 DEF TypeOK, vars
<1>2. ASSUME NEW t \in Tasks, Submit(t) PROVE TypeOK'
  <2>1. next' \in Workers
    BY <1>2, SchedulerAssumption DEF Submit, Workers, TypeOK
  <2>2. queue' \in [Queues -> Seq(Tasks)]
    BY <1>2, QueueFacts DEF Submit, TypeOK
  <2> QED
    BY <1>2, <2>1, <2>2 DEF Submit, TypeOK
<1>3. CASE Shutdown
  BY <1>3 DEF Shutdown, TypeOK
<1>4. ASSUME NEW w \in Workers, Gain(w) PROVE TypeOK'
  <2>1. CASE PopLocal(w)
    <3>1. queue[Local(w)] \in Seq(Tasks) /\ queue[Local(w)] # <<>>
      BY <2>1, QueueFacts DEF PopLocal, TypeOK
    <3>2. Tail(queue[Local(w)]) \in Seq(Tasks) /\ Head(queue[Local(w)]) \in Tasks
      BY <3>1
    <3> QED
      BY <2>1, <3>2, QueueFacts, SMTT(30) DEF PopLocal, Run, TypeOK, Places
  <2>2. ASSUME NEW k, TakeInjected(w, k) PROVE TypeOK'
    BY <2>2, BatchType, QueueFacts DEF TakeInjected, TypeOK
  <2>3. ASSUME NEW k, NEW v \in Workers, Steal(w, v, k) PROVE TypeOK'
    <3>1. Victim(w, v) \in Queues
      BY QueueFacts DEF Victim
    <3> QED
      BY <2>3, <3>1, BatchType DEF Steal, TypeOK
  <2> QED
    BY <1>4, <2>1, <2>2, <2>3 DEF Gain
<1>5. ASSUME NEW w \in Workers, Step(w) \/ Panic(w) PROVE TypeOK'
  <2> USE DEF TypeOK, Goto, Places
  <2>1. CASE Look(w)
    BY <2>1 DEF Look
  <2>6. CASE InjectorEmpty(w)
    BY <2>6 DEF InjectorEmpty
  <2>7. CASE Wake(w)
    BY <2>7 DEF Wake
  <2>2. CASE PopNothing(w)
    <3>1. pc' \in [Workers -> Places]
      BY <2>2 DEF PopNothing
    <3>2. peers' \in [Workers -> SUBSET Workers]
      BY <2>2 DEF PopNothing
    <3> QED
      BY <2>2, <3>1, <3>2 DEF PopNothing
  <2>3. ASSUME NEW v \in Workers, Pass(w, v) PROVE TypeOK'
    BY <2>3 DEF Pass
  <2>4. CASE Tried(w)
    BY <2>4 DEF Tried
  <2>5. CASE Finish(w)
    BY <2>5 DEF Finish
  <2>8. CASE Panic(w)
    BY <2>8 DEF Panic
  <2> QED
    BY <1>5, <2>8, <2>1, <2>2, <2>3, <2>4, <2>5, <2>6, <2>7 DEF Step
<1> QED
  BY <1>1, <1>2, <1>3, <1>4, <1>5 DEF Next

\* TypeOK is an invariant of the scheduler.
THEOREM TypeCorrect == Spec => []TypeOK
<1>1. Init => TypeOK
  BY SchedulerAssumption DEF Init, TypeOK, Workers, Places
<1> QED
  BY <1>1, TypeStep, PTL DEF Spec

-----------------------------------------------------------------------------
(***************************************************************************)
(* How many closures a worker can have started since the flag was set,     *)
(* given where it is: none between the head of the loop and the injector,  *)
(* one before it tries the peers.                                          *)
(***************************************************************************)
Early == {"local", "injector"}
Mid   == {"again", "stealLocal", "stealInjector", "park"}

ExtraInv ==
    \A w \in Workers :
        /\ down = "no" => extra[w] = 0
        /\ pc[w] \in Early => extra[w] = 0
        /\ pc[w] \in Mid => extra[w] <= 1
        /\ pc[w] = "running" /\ resume[w] = "again" => extra[w] <= 1
        /\ extra[w] <= 2

\* Starting a closure adds one at most.
LEMMA RunExtra ==
    ASSUME TypeOK, ExtraInv, NEW w \in Workers, NEW t, NEW r \in {"top", "again"},
           Run(w, t, r), UNCHANGED down,
           pc[w] \in Early \cup Mid, r = "again" => pc[w] \in Early
    PROVE  ExtraInv'
<1>1. \A v \in Workers : v # w =>
          pc'[v] = pc[v] /\ resume'[v] = resume[v] /\ extra'[v] = extra[v]
  BY DEF Run, TypeOK
<1>2. pc'[w] = "running" /\ resume'[w] = r
      /\ extra'[w] = IF down = "yes" THEN extra[w] + 1 ELSE extra[w]
  BY DEF Run, TypeOK
<1>3. extra[w] \in Nat /\ down \in {"no", "yes"}
  BY DEF TypeOK
<1>4. ASSUME NEW v \in Workers
      PROVE  /\ down' = "no" => extra'[v] = 0
             /\ pc'[v] \in Early => extra'[v] = 0
             /\ pc'[v] \in Mid => extra'[v] <= 1
             /\ pc'[v] = "running" /\ resume'[v] = "again" => extra'[v] <= 1
             /\ extra'[v] <= 2
  <2>1. CASE v # w
    BY <2>1, <1>1 DEF ExtraInv
  <2>2. CASE v = w
    BY <2>2, <1>2, <1>3 DEF ExtraInv, Early, Mid
  <2> QED
    BY <2>1, <2>2
<1> QED
  BY <1>4 DEF ExtraInv

\* Every step keeps ExtraInv.
LEMMA ExtraStep == TypeOK /\ ExtraInv /\ [Next]_vars => ExtraInv'
<1> SUFFICES ASSUME TypeOK, ExtraInv, [Next]_vars PROVE ExtraInv'
  OBVIOUS
<1>1. CASE UNCHANGED vars
  BY <1>1 DEF ExtraInv, vars
<1>2. ASSUME NEW t \in Tasks, Submit(t) PROVE ExtraInv'
  BY <1>2 DEF Submit, ExtraInv
<1>3. CASE Shutdown
  BY <1>3 DEF Shutdown, ExtraInv
<1>4. ASSUME NEW w \in Workers, Gain(w) PROVE ExtraInv'
  <2>1. CASE PopLocal(w)
    BY <2>1, RunExtra DEF PopLocal, Early, Mid
  <2>2. ASSUME NEW k, TakeInjected(w, k) PROVE ExtraInv'
    BY <2>2, RunExtra DEF TakeInjected, StealBatch, Early, Mid
  <2>3. ASSUME NEW k, NEW v \in Workers, Steal(w, v, k) PROVE ExtraInv'
    BY <2>3, RunExtra DEF Steal, StealBatch, Early, Mid
  <2> QED
    BY <1>4, <2>1, <2>2, <2>3 DEF Gain
<1>5. ASSUME NEW w \in Workers, Step(w) \/ Panic(w) PROVE ExtraInv'
  <2>1. /\ UNCHANGED <<down, extra>>
        /\ \A v \in Workers : v # w => pc'[v] = pc[v] /\ resume'[v] = resume[v]
    BY <1>5 DEF Step, Panic, Look, PopNothing, InjectorEmpty, Pass, Tried, Wake, Finish,
                Goto, TypeOK
  <2>2. /\ pc'[w] \in Early => (pc[w] \in Early \/ (pc[w] = "top" /\ down = "no"))
        /\ pc'[w] \in Mid => \/ pc[w] \in Early \cup Mid
                             \/ pc[w] = "running" /\ resume[w] = "again"
        /\ pc'[w] # "running"
    <3> USE DEF Early, Mid, TypeOK, Goto
    <3>1. CASE Look(w)
      BY <3>1 DEF Look
    <3>2. CASE PopNothing(w)
      BY <3>2 DEF PopNothing
    <3>3. CASE InjectorEmpty(w)
      BY <3>3 DEF InjectorEmpty
    <3>4. ASSUME NEW v \in Workers, Pass(w, v) PROVE <2>2!1 /\ <2>2!2 /\ <2>2!3
      BY <3>4 DEF Pass
    <3>5. CASE Tried(w)
      BY <3>5 DEF Tried
    <3>6. CASE Wake(w)
      BY <3>6 DEF Wake
    <3>7. CASE Finish(w) \/ Panic(w)
      BY <3>7 DEF Finish, Panic
    <3> QED
      BY <1>5, <3>1, <3>2, <3>3, <3>4, <3>5, <3>6, <3>7 DEF Step
  <2>3. extra[w] \in Nat
    BY DEF TypeOK
  <2> QED
    BY <2>1, <2>2, <2>3 DEF ExtraInv
<1> QED
  BY <1>1, <1>2, <1>3, <1>4, <1>5 DEF Next

\* After the shutdown flag is set a worker starts at most two closures.
THEOREM ShutdownBound == Spec => []TwoAfterShutdown
<1>1. Init => TypeOK /\ ExtraInv
  BY SchedulerAssumption DEF Init, TypeOK, ExtraInv, Workers, Places, Early, Mid
<1>2. TypeOK /\ ExtraInv /\ [Next]_vars => (TypeOK /\ ExtraInv)'
  BY TypeStep, ExtraStep
<1>3. ExtraInv => TwoAfterShutdown
  BY DEF ExtraInv, TwoAfterShutdown
<1> QED
  BY <1>1, <1>2, <1>3, PTL DEF Spec

-----------------------------------------------------------------------------
(***************************************************************************)
(* Refinement.  The invariant: a closure is at one position of one queue,  *)
(* only closures handed in are queued, and a worker that is not running    *)
(* runs nothing.                                                           *)
(***************************************************************************)
UniqueIn(Q) ==
    \A p, q \in Queues : \A i \in 1..Len(Q[p]), j \in 1..Len(Q[q]) :
        Q[p][i] = Q[q][j] => p = q /\ i = j

QueuedIn(Q) == {t \in Tasks : \E q \in Queues : \E i \in 1..Len(Q[q]) : Q[q][i] = t}

Handed == Queued \subseteq submitted

Busy == \A w \in Workers : pc[w] = "running" <=> runs[w] # NoTask

\* The elements of a concatenation.
LEMMA ConcatElements ==
    ASSUME NEW a \in Seq(Tasks), NEW b \in Seq(Tasks)
    PROVE  /\ Len(a \o b) = Len(a) + Len(b)
           /\ \A i \in 1..Len(a) : (a \o b)[i] = a[i]
           /\ \A i \in 1..Len(b) : (a \o b)[Len(a) + i] = b[i]
OBVIOUS

\* The elements of a subsequence.
LEMMA SubSeqElements ==
    ASSUME NEW a \in Seq(Tasks), NEW m \in 1..(Len(a) + 1), NEW n \in (m - 1)..Len(a)
    PROVE  /\ Len(SubSeq(a, m, n)) = n - m + 1
           /\ \A i \in 1..(n - m + 1) : SubSeq(a, m, n)[i] = a[m + i - 1]
OBVIOUS

\* R is Q with the first k of q removed, all but the first of them given to l.
Moved(Q, R, q, l, k) ==
    /\ \A p \in Queues : p # q /\ p # l => R[p] = Q[p]
    /\ Len(R[q]) = Len(Q[q]) - k
    /\ \A i \in 1..Len(R[q]) : R[q][i] = Q[q][k + i]
    /\ Len(R[l]) = Len(Q[l]) + k - 1
    /\ \A i \in 1..Len(R[l]) : R[l][i] = IF i <= Len(Q[l]) THEN Q[l][i] ELSE Q[q][i - Len(Q[l]) + 1]

\* Moving a batch removes just its first closure from the queues.
LEMMA BatchMoves ==
    ASSUME NEW Q \in [Queues -> Seq(Tasks)], NEW R, UniqueIn(Q),
           NEW q \in Queues, NEW l \in Queues, q # l, NEW k \in 1..Len(Q[q]),
           Moved(Q, R, q, l, k)
    PROVE  UniqueIn(R) /\ Head(Q[q]) \in QueuedIn(Q) /\ QueuedIn(R) = QueuedIn(Q) \ {Head(Q[q])}
<1> DEFINE m == Len(Q[l])
           n == Len(Q[q])
<1>1. n \in Nat /\ m \in Nat /\ k \in Nat /\ 1 <= k /\ k <= n
  OBVIOUS
<1>2. Len(R[q]) = n - k /\ \A i \in 1..(n - k) : R[q][i] = Q[q][k + i]
  BY DEF Moved
<1>3. Len(R[l]) = m + k - 1
      /\ \A i \in 1..(m + k - 1) : R[l][i] = IF i <= m THEN Q[l][i] ELSE Q[q][i - m + 1]
  BY DEF Moved
<1>4. \A p \in Queues : p # q /\ p # l => R[p] = Q[p]
  BY DEF Moved
<1> DEFINE OldQ(p, i) == IF p = q \/ (p = l /\ i > m) THEN q ELSE p
           OldI(p, i) == IF p = q THEN k + i ELSE IF p = l /\ i > m THEN i - m + 1 ELSE i
<1>6. ASSUME NEW p \in Queues, NEW i \in 1..Len(R[p])
      PROVE  /\ OldQ(p, i) \in Queues /\ OldI(p, i) \in 1..Len(Q[OldQ(p, i)])
             /\ R[p][i] = Q[OldQ(p, i)][OldI(p, i)]
             /\ ~(OldQ(p, i) = q /\ OldI(p, i) = 1)
  <2>1. CASE p = q
    BY <2>1, <1>1, <1>2
  <2>2. CASE p = l /\ i > m
    BY <2>2, <1>1, <1>3
  <2>3. CASE p = l /\ ~(i > m)
    BY <2>3, <1>1, <1>3
  <2>4. CASE p # q /\ p # l
    BY <2>4, <1>4
  <2> QED
    BY <2>1, <2>2, <2>3, <2>4
<1>7. ASSUME NEW p \in Queues, NEW i \in 1..Len(R[p]),
             NEW r \in Queues, NEW j \in 1..Len(R[r]),
             OldQ(p, i) = OldQ(r, j), OldI(p, i) = OldI(r, j)
      PROVE  p = r /\ i = j
  <2>0. i \in Nat /\ j \in Nat /\ 1 <= i /\ 1 <= j /\ i <= Len(R[p]) /\ j <= Len(R[r])
    <3>1. Len(R[p]) \in Nat /\ Len(R[r]) \in Nat
      BY <1>1, <1>2, <1>3, <1>4
    <3> QED
      BY <3>1
  <2>1. CASE p = q /\ r = q
    BY <2>1, <1>7, <1>1, <2>0
  <2>2. CASE p = q /\ r # q
    <3>1. r = l /\ j > m
      BY <2>2, <1>7
    <3>2. k + i = j - m + 1 /\ j <= m + k - 1
      BY <2>2, <3>1, <1>7, <1>3, <2>0
    <3> QED
      BY <3>1, <3>2, <1>1, <2>0
  <2>3. CASE p # q /\ r = q
    <3>1. p = l /\ i > m
      BY <2>3, <1>7
    <3>2. k + j = i - m + 1 /\ i <= m + k - 1
      BY <2>3, <3>1, <1>7, <1>3, <2>0
    <3> QED
      BY <3>1, <3>2, <1>1, <2>0
  <2>4. CASE p # q /\ r # q
    BY <2>4, <1>7, <1>1, <2>0
  <2> QED
    BY <2>1, <2>2, <2>3, <2>4
<1>8. UniqueIn(R)
  <2> SUFFICES ASSUME NEW p \in Queues, NEW r \in Queues, NEW i \in 1..Len(R[p]),
                      NEW j \in 1..Len(R[r]), R[p][i] = R[r][j]
               PROVE  p = r /\ i = j
    BY DEF UniqueIn
  <2>1. OldQ(p, i) = OldQ(r, j) /\ OldI(p, i) = OldI(r, j)
    <3>1. Q[OldQ(p, i)][OldI(p, i)] = Q[OldQ(r, j)][OldI(r, j)]
      BY <1>6
    <3>2. /\ OldQ(p, i) \in Queues /\ OldI(p, i) \in 1..Len(Q[OldQ(p, i)])
          /\ OldQ(r, j) \in Queues /\ OldI(r, j) \in 1..Len(Q[OldQ(r, j)])
      BY <1>6
    <3> HIDE DEF OldQ, OldI
    <3> QED
      BY <3>1, <3>2, SMTT(30) DEF UniqueIn
  <2> QED
    BY <2>1, <1>7
<1>9. Head(Q[q]) = Q[q][1] /\ 1 \in 1..Len(Q[q]) /\ Head(Q[q]) \in Tasks
  OBVIOUS
<1>10. Head(Q[q]) \in QueuedIn(Q)
  BY <1>9 DEF QueuedIn
<1>11. QueuedIn(R) \subseteq QueuedIn(Q) \ {Head(Q[q])}
  <2> SUFFICES ASSUME NEW t \in Tasks, NEW p \in Queues, NEW i \in 1..Len(R[p]), R[p][i] = t
               PROVE  t \in QueuedIn(Q) /\ t # Head(Q[q])
    BY DEF QueuedIn
  <2>1. /\ OldQ(p, i) \in Queues /\ OldI(p, i) \in 1..Len(Q[OldQ(p, i)])
        /\ t = Q[OldQ(p, i)][OldI(p, i)]
        /\ ~(OldQ(p, i) = q /\ OldI(p, i) = 1)
    BY <1>6
  <2> HIDE DEF OldQ, OldI
  <2> QED
    BY <2>1, <1>9 DEF QueuedIn, UniqueIn
<1>12. QueuedIn(Q) \ {Head(Q[q])} \subseteq QueuedIn(R)
  <2> SUFFICES ASSUME NEW t \in Tasks, NEW p \in Queues, NEW i \in 1..Len(Q[p]),
                      Q[p][i] = t, t # Head(Q[q])
               PROVE  \E r \in Queues : \E j \in 1..Len(R[r]) : R[r][j] = t
    BY DEF QueuedIn
  <2>1. CASE p = q /\ i > k
    <3>1. i - k \in 1..(n - k) /\ k + (i - k) = i
      BY <2>1, <1>1
    <3> QED
      BY <3>1, <2>1, <1>2
  <2>2. CASE p = q /\ ~(i > k)
    <3>1. i # 1 /\ i \in 2..k
      BY <2>2, <1>1, <1>9
    <3>2. m + i - 1 \in 1..(m + k - 1) /\ ~(m + i - 1 <= m) /\ (m + i - 1) - m + 1 = i
      BY <3>1, <1>1
    <3>3. R[l][m + i - 1] = Q[q][i]
      BY <3>2, <1>3
    <3> QED
      BY <3>2, <3>3, <2>2, <1>3
  <2>3. CASE p = l
    <3>1. i \in 1..(m + k - 1) /\ i <= m
      BY <2>3, <1>1
    <3> QED
      BY <3>1, <2>3, <1>3
  <2>4. CASE p # q /\ p # l
    BY <2>4, <1>4
  <2> QED
    BY <2>1, <2>2, <2>3, <2>4
<1> QED
  BY <1>8, <1>10, <1>11, <1>12

\* steal_batch_and_pop moves a batch.
LEMMA StealMoves ==
    ASSUME TypeOK, NEW w \in Workers, NEW q \in Queues, q # Local(w), NEW k, NEW r,
           StealBatch(w, q, k, r)
    PROVE  k \in 1..Len(queue[q]) /\ Moved(queue, queue', q, Local(w), k)
<1> DEFINE l == Local(w)
           a == SubSeq(queue[q], k + 1, Len(queue[q]))
           b == SubSeq(queue[q], 2, k)
<1>1. queue[q] \in Seq(Tasks) /\ queue[l] \in Seq(Tasks) /\ l \in Queues /\ k \in 1..Len(queue[q])
  BY QueueFacts DEF TypeOK, StealBatch
<1>2. /\ \A p \in Queues : p # q /\ p # l => queue'[p] = queue[p]
      /\ queue'[q] = a /\ queue'[l] = queue[l] \o b
  BY <1>1 DEF StealBatch
<1>3. Len(queue[q]) \in Nat /\ Len(queue[l]) \in Nat /\ k \in Nat
  BY <1>1
<1>4. k + 1 \in 1..(Len(queue[q]) + 1) /\ Len(queue[q]) \in ((k + 1) - 1)..Len(queue[q])
      /\ 2 \in 1..(Len(queue[q]) + 1) /\ k \in (2 - 1)..Len(queue[q])
  BY <1>1, <1>3
<1>5. Len(a) = Len(queue[q]) - (k + 1) + 1
      /\ \A i \in 1..(Len(queue[q]) - (k + 1) + 1) : a[i] = queue[q][(k + 1) + i - 1]
  BY <1>1, <1>4, SubSeqElements
<1>6. Len(b) = k - 2 + 1 /\ \A i \in 1..(k - 2 + 1) : b[i] = queue[q][2 + i - 1]
  BY <1>1, <1>4, SubSeqElements
<1>7. b \in Seq(Tasks)
  BY <1>1, <1>4, SubSeqType
<1> HIDE DEF a, b, l
<1>8. /\ Len(queue'[l]) = Len(queue[l]) + Len(b)
      /\ \A i \in 1..Len(queue[l]) : queue'[l][i] = queue[l][i]
      /\ \A i \in 1..Len(b) : queue'[l][Len(queue[l]) + i] = b[i]
  <2>1. /\ Len(queue[l] \o b) = Len(queue[l]) + Len(b)
        /\ \A i \in 1..Len(queue[l]) : (queue[l] \o b)[i] = queue[l][i]
        /\ \A i \in 1..Len(b) : (queue[l] \o b)[Len(queue[l]) + i] = b[i]
    BY <1>1, <1>7, ConcatElements
  <2> QED
    BY <1>2, <2>1
<1>9. Len(queue'[q]) = Len(queue[q]) - k /\ \A i \in 1..Len(queue'[q]) : queue'[q][i] = queue[q][k + i]
  <2>1. ASSUME NEW i \in 1..Len(queue'[q]) PROVE a[i] = queue[q][k + i]
    <3>1. i \in 1..(Len(queue[q]) - (k + 1) + 1) /\ (k + 1) + i - 1 = k + i
      BY <1>2, <1>3, <1>5
    <3> QED
      BY <3>1, <1>5
  <2> QED
    BY <2>1, <1>2, <1>3, <1>5
<1>10. ASSUME NEW i \in 1..Len(queue'[l]), ~(i <= Len(queue[l]))
       PROVE  queue'[l][i] = queue[q][i - Len(queue[l]) + 1]
  <2> DEFINE j == i - Len(queue[l])
  <2>1. j \in 1..Len(b) /\ j \in 1..(k - 2 + 1) /\ Len(queue[l]) + j = i /\ 2 + j - 1 = j + 1
    BY <1>3, <1>6, <1>8, <1>10
  <2>2. queue'[l][Len(queue[l]) + j] = b[j] /\ b[j] = queue[q][2 + j - 1]
    BY <2>1, <1>6, <1>8
  <2> QED
    BY <2>1, <2>2
<1>11. /\ Len(queue'[l]) = Len(queue[l]) + k - 1
       /\ \A i \in 1..Len(queue'[l]) : queue'[l][i] =
             IF i <= Len(queue[l]) THEN queue[l][i] ELSE queue[q][i - Len(queue[l]) + 1]
  <2>1. Len(queue'[l]) = Len(queue[l]) + k - 1
    BY <1>3, <1>6, <1>8
  <2>2. ASSUME NEW i \in 1..Len(queue'[l]), i <= Len(queue[l]) PROVE queue'[l][i] = queue[l][i]
    <3>1. i \in 1..Len(queue[l])
      BY <1>3, <2>1, <2>2
    <3> QED
      BY <3>1, <1>8
  <2> QED
    BY <2>1, <2>2, <1>10
<1> QED
  BY <1>1, <1>2, <1>9, <1>11 DEF Moved, l

\* local.pop() is a batch of one.
LEMMA PopMoves ==
    ASSUME TypeOK, NEW w \in Workers, PopLocal(w)
    PROVE  1 \in 1..Len(queue[Local(w)]) /\ Moved(queue, queue', Local(w), Injector(w), 1)
<1> DEFINE q == Local(w)
           l == Injector(w)
<1>1. q \in Queues /\ l \in Queues /\ q # l
  BY QueueFacts
<1>2. queue[q] \in Seq(Tasks) /\ queue[q] # <<>> /\ queue[l] \in Seq(Tasks)
      /\ queue'[q] = Tail(queue[q]) /\ \A p \in Queues : p # q => queue'[p] = queue[p]
  BY <1>1 DEF TypeOK, PopLocal
<1> HIDE DEF q, l
<1>3. Len(queue[q]) \in Nat /\ Len(queue[q]) >= 1 /\ Len(queue[l]) \in Nat
      /\ Len(Tail(queue[q])) = Len(queue[q]) - 1
      /\ \A i \in 1..(Len(queue[q]) - 1) : Tail(queue[q])[i] = queue[q][1 + i]
  BY <1>2
<1>4. Len(queue'[q]) = Len(queue[q]) - 1
      /\ \A i \in 1..Len(queue'[q]) : queue'[q][i] = queue[q][1 + i]
  BY <1>2, <1>3
<1>5. queue'[l] = queue[l] /\ Len(queue'[l]) = Len(queue[l]) + 1 - 1
  BY <1>1, <1>2, <1>3
<1>6. \A i \in 1..Len(queue'[l]) :
          queue'[l][i] = IF i <= Len(queue[l]) THEN queue[l][i] ELSE queue[q][i - Len(queue[l]) + 1]
  <2> SUFFICES ASSUME NEW i \in 1..Len(queue'[l]) PROVE queue'[l][i] = queue[l][i] /\ i <= Len(queue[l])
    OBVIOUS
  <2>1. Len(queue'[l]) = Len(queue[l]) /\ Len(queue[l]) \in Nat
    BY <1>3, <1>5
  <2> QED
    BY <1>5, <2>1
<1>7. Moved(queue, queue', q, l, 1)
  BY <1>2, <1>4, <1>5, <1>6 DEF Moved
<1>8. 1 \in 1..Len(queue[q])
  BY <1>3
<1> QED
  BY <1>7, <1>8 DEF q, l

\* A closure that is new to the queues may be appended to one of them.
LEMMA SubmitAdds ==
    ASSUME TypeOK, UniqueIn(queue), Handed, NEW t \in Tasks, Submit(t)
    PROVE  UniqueIn(queue') /\ QueuedIn(queue') = QueuedIn(queue) \cup {t}
<1> DEFINE q == Injector(next)
<1>1. q \in Queues /\ queue[q] \in Seq(Tasks)
  BY QueueFacts DEF TypeOK
<1>2. queue'[q] = Append(queue[q], t) /\ \A p \in Queues : p # q => queue'[p] = queue[p]
  BY <1>1 DEF Submit, TypeOK
<1>3. t \notin QueuedIn(queue)
  BY DEF Submit, Handed, Queued, QueuedIn
<1> HIDE DEF q
<1>4. Len(queue'[q]) = Len(queue[q]) + 1 /\ queue'[q][Len(queue[q]) + 1] = t
      /\ \A i \in 1..Len(queue[q]) : queue'[q][i] = queue[q][i]
  BY <1>1, <1>2
<1>5. Len(queue[q]) \in Nat
  BY <1>1
<1>6. ASSUME NEW p \in Queues, NEW i \in 1..Len(queue'[p])
      PROVE  \/ i \in 1..Len(queue[p]) /\ queue'[p][i] = queue[p][i]
             \/ p = q /\ i = Len(queue[q]) + 1 /\ queue'[p][i] = t
  BY <1>2, <1>4, <1>5
<1>7. \A p \in Queues : \A i \in 1..Len(queue[p]) : queue[p][i] # t
  BY <1>3 DEF QueuedIn
<1>8. UniqueIn(queue')
  BY <1>6, <1>7, SMTT(30) DEF UniqueIn
<1>9. QueuedIn(queue') \subseteq QueuedIn(queue) \cup {t}
  BY <1>6 DEF QueuedIn
<1>10. QueuedIn(queue) \cup {t} \subseteq QueuedIn(queue')
  <2>1. t \in QueuedIn(queue')
    BY <1>1, <1>4, <1>5 DEF QueuedIn
  <2>2. \A p \in Queues : \A i \in 1..Len(queue[p]) :
          i \in 1..Len(queue'[p]) /\ queue'[p][i] = queue[p][i]
    BY <1>2, <1>4, <1>5
  <2> QED
    BY <2>1, <2>2 DEF QueuedIn
<1> QED
  BY <1>8, <1>9, <1>10

\* A worker is not its own peer.
Others == \A w \in Workers : w \notin peers[w]

PoolInv == TypeOK /\ UniqueIn(queue) /\ Handed /\ Busy /\ Others

\* A worker that gains a closure takes it out of the queues, and only it.
LEMMA GainTakes ==
    ASSUME PoolInv, NEW w \in Workers, Gain(w)
    PROVE  /\ UniqueIn(queue') /\ runs[w] = NoTask /\ pc'[w] = "running"
           /\ UNCHANGED submitted
           /\ \E t \in QueuedIn(queue) : /\ QueuedIn(queue') = QueuedIn(queue) \ {t}
                                         /\ runs' = [runs EXCEPT ![w] = t]
           /\ \A v \in Workers : v # w => pc'[v] = pc[v]
<1> USE DEF PoolInv
<1>1. CASE PopLocal(w)
  <2>1. UniqueIn(queue') /\ Head(queue[Local(w)]) \in QueuedIn(queue)
        /\ QueuedIn(queue') = QueuedIn(queue) \ {Head(queue[Local(w)])}
    BY <1>1, PopMoves, BatchMoves, QueueFacts DEF TypeOK
  <2> QED
    BY <1>1, <2>1 DEF PopLocal, Run, Busy, TypeOK
<1>2. ASSUME NEW q \in Queues, q # Local(w), NEW k, NEW r, StealBatch(w, q, k, r),
             pc[w] # "running", UNCHANGED submitted
      PROVE  /\ UniqueIn(queue') /\ runs[w] = NoTask /\ pc'[w] = "running"
             /\ UNCHANGED submitted
             /\ \E t \in QueuedIn(queue) : /\ QueuedIn(queue') = QueuedIn(queue) \ {t}
                                           /\ runs' = [runs EXCEPT ![w] = t]
             /\ \A v \in Workers : v # w => pc'[v] = pc[v]
  <2>1. UniqueIn(queue') /\ Head(queue[q]) \in QueuedIn(queue)
        /\ QueuedIn(queue') = QueuedIn(queue) \ {Head(queue[q])}
    BY <1>2, StealMoves, BatchMoves, QueueFacts DEF TypeOK
  <2> QED
    BY <1>2, <2>1 DEF StealBatch, Run, Busy, TypeOK
<1>3. ASSUME NEW k, TakeInjected(w, k)
      PROVE  StealBatch(w, Injector(w), k, "again") /\ pc[w] # "running" /\ UNCHANGED submitted
  BY <1>3 DEF TakeInjected
<1>4. ASSUME NEW k, NEW v \in Workers, Steal(w, v, k)
      PROVE  /\ StealBatch(w, Victim(w, v), k, "top") /\ pc[w] # "running" /\ UNCHANGED submitted
             /\ Victim(w, v) \in Queues /\ Victim(w, v) # Local(w)
  <2>1. v # w
    BY <1>4 DEF Steal, Others
  <2> QED
    BY <1>4, <2>1, QueueFacts DEF Steal, Victim
<1>5. Injector(w) \in Queues /\ Injector(w) # Local(w)
  BY QueueFacts
<1> QED
  BY <1>1, <1>2, <1>3, <1>4, <1>5 DEF Gain

\* The invariant is kept, and each step is a step of the pool or stutters.
LEMMA PoolStep ==
    ASSUME PoolInv, [Next]_vars
    PROVE  PoolInv' /\ [Pool!Next]_(Pool!pool)
<1> USE DEF PoolInv
<1>1. TypeOK'
  BY TypeStep
<1>2. Queued = QueuedIn(queue) /\ Queued' = QueuedIn(queue')
  BY DEF Queued, QueuedIn
<1>3. CASE UNCHANGED vars
  <2>1. UNCHANGED Queued
    BY <1>3 DEF vars, Queued
  <2>2. UniqueIn(queue') /\ Handed' /\ Busy' /\ Others'
    BY <1>3, <2>1 DEF vars, Handed, Busy, Others
  <2> QED
    BY <1>1, <1>3, <2>1, <2>2 DEF vars, Pool!pool
<1>4. ASSUME NEW t \in Tasks, Submit(t) PROVE PoolInv' /\ [Pool!Next]_(Pool!pool)
  <2>1. UniqueIn(queue') /\ Queued' = Queued \cup {t}
    BY <1>2, <1>4, SubmitAdds
  <2>2. Handed' /\ Busy' /\ Others'
    BY <1>4, <2>1 DEF Submit, Handed, Busy, Others
  <2>3. Pool!Submit(t)
    BY <1>4, <2>1 DEF Submit, Pool!Submit
  <2> QED
    BY <1>1, <2>1, <2>2, <2>3 DEF Pool!Next
<1>5. CASE Shutdown
  <2>1. UNCHANGED Queued
    BY <1>5 DEF Shutdown, Queued
  <2>2. UniqueIn(queue') /\ Handed' /\ Busy' /\ Others'
    BY <1>5, <2>1 DEF Shutdown, Handed, Busy, Others
  <2> QED
    BY <1>1, <1>5, <2>1, <2>2 DEF Shutdown, Pool!pool
<1>6. ASSUME NEW w \in Workers, Gain(w) PROVE PoolInv' /\ [Pool!Next]_(Pool!pool)
  <2>1. PICK t \in QueuedIn(queue) : /\ QueuedIn(queue') = QueuedIn(queue) \ {t}
                                     /\ runs' = [runs EXCEPT ![w] = t]
    BY <1>6, GainTakes
  <2>2. /\ UniqueIn(queue') /\ runs[w] = NoTask /\ pc'[w] = "running"
        /\ UNCHANGED submitted
        /\ \A v \in Workers : v # w => pc'[v] = pc[v]
    BY <1>6, GainTakes
  <2>3. t \in Tasks /\ t # NoTask
    BY SchedulerAssumption DEF QueuedIn
  <2>4. Handed'
    BY <1>2, <2>1, <2>2 DEF Handed
  <2>5. Busy'
    BY <2>1, <2>2, <2>3 DEF Busy, TypeOK
  <2>6. Others'
    <3>1. peers' = peers \/ peers' = [peers EXCEPT ![w] = {}]
      BY <1>6 DEF Gain, PopLocal, TakeInjected, Steal
    <3> QED
      BY <3>1 DEF Others, TypeOK
  <2>7. Pool!Start(w, t)
    BY <1>2, <2>1, <2>2 DEF Pool!Start
  <2> QED
    BY <1>1, <2>2, <2>3, <2>4, <2>5, <2>6, <2>7 DEF Pool!Next
<1>7. ASSUME NEW w \in Workers, Step(w) \/ Panic(w) PROVE PoolInv' /\ [Pool!Next]_(Pool!pool)
  <2>1. UNCHANGED <<queue, submitted>>
    BY <1>7 DEF Step, Look, PopNothing, InjectorEmpty, Pass, Tried, Wake, Finish, Panic
  <2>2. UNCHANGED Queued
    BY <2>1 DEF Queued
  <2>3. UniqueIn(queue') /\ Handed'
    BY <2>1, <2>2 DEF Handed
  <2>4. Others'
    <3>1. \/ peers' = peers
          \/ peers' = [peers EXCEPT ![w] = {}]
          \/ peers' = [peers EXCEPT ![w] = Workers \ {w}]
          \/ \E v \in Workers : peers' = [peers EXCEPT ![w] = @ \ {v}]
      <4>1. CASE PopNothing(w)
        BY <4>1 DEF PopNothing
      <4>2. CASE Tried(w)
        BY <4>2 DEF Tried
      <4>3. CASE ~PopNothing(w) /\ ~Tried(w)
        BY <1>7, <4>3 DEF Step, Look, InjectorEmpty, Pass, Wake, Finish, Panic
      <4> QED
        BY <4>1, <4>2, <4>3
    <3>2. \A v \in Workers : v # w => peers'[v] = peers[v]
      BY <3>1 DEF TypeOK
    <3>3. w \notin peers'[w]
      BY <3>1 DEF Others, TypeOK
    <3> QED
      BY <3>2, <3>3 DEF Others
  <2>5. CASE pc[w] = "running"
    <3>1. Finish(w) \/ Panic(w)
      BY <1>7, <2>5 DEF Step, Look, PopNothing, InjectorEmpty, Pass, Tried, Wake
    <3>2. runs' = [runs EXCEPT ![w] = NoTask] /\ pc'[w] # "running"
          /\ \A v \in Workers : v # w => pc'[v] = pc[v]
      BY <3>1 DEF Finish, Panic, TypeOK
    <3>3. Busy'
      BY <3>2 DEF Busy, TypeOK
    <3>4. Pool!Finish(w)
      BY <2>1, <2>2, <2>5, <3>2 DEF Pool!Finish, Busy
    <3> QED
      BY <1>1, <2>3, <2>4, <3>3, <3>4 DEF Pool!Next
  <2>6. CASE pc[w] # "running"
    <3>1. UNCHANGED runs
      BY <1>7, <2>6 DEF Step, Look, PopNothing, InjectorEmpty, Pass, Tried, Wake, Finish,
                        Panic, Goto
    <3>2. pc'[w] # "running" /\ \A v \in Workers : v # w => pc'[v] = pc[v]
      <4> USE DEF Goto, TypeOK
      <4>1. CASE Look(w)
        BY <4>1 DEF Look
      <4>2. CASE PopNothing(w)
        BY <4>2 DEF PopNothing
      <4>3. CASE InjectorEmpty(w)
        BY <4>3 DEF InjectorEmpty
      <4>4. ASSUME NEW v \in Workers, Pass(w, v) PROVE UNCHANGED pc
        BY <4>4 DEF Pass
      <4>5. CASE Tried(w)
        BY <4>5 DEF Tried
      <4>6. CASE Wake(w)
        BY <4>6 DEF Wake
      <4>7. ~Finish(w) /\ ~Panic(w)
        BY <2>6 DEF Finish, Panic
      <4> QED
        BY <1>7, <2>6, <4>1, <4>2, <4>3, <4>4, <4>5, <4>6, <4>7 DEF Step
    <3>3. Busy'
      BY <2>6, <3>1, <3>2 DEF Busy
    <3> QED
      BY <1>1, <2>1, <2>2, <2>3, <2>4, <3>1, <3>3 DEF Pool!pool
  <2> QED
    BY <2>5, <2>6
<1> QED
  BY <1>3, <1>4, <1>5, <1>6, <1>7 DEF Next

(***************************************************************************)
(* The work-stealing scheduler implements the pool: a closure handed to    *)
(* submit is started exactly once, by a worker that runs nothing.          *)
(***************************************************************************)
THEOREM Refines == Spec => ImplementsPool
<1>1. Init => PoolInv /\ Pool!Init
  <2> SUFFICES ASSUME Init PROVE PoolInv /\ Pool!Init
    OBVIOUS
  <2>1. TypeOK
    BY SchedulerAssumption DEF Init, TypeOK, Workers, Places
  <2>2. \A q \in Queues : Len(queue[q]) = 0
    BY DEF Init
  <2>3. Queued = {}
    BY <2>2 DEF Queued
  <2>4. UniqueIn(queue)
    BY <2>2 DEF UniqueIn
  <2> QED
    BY <2>1, <2>3, <2>4 DEF Init, PoolInv, Handed, Busy, Others, Pool!Init
<1>2. PoolInv /\ [Next]_vars => PoolInv' /\ [Pool!Next]_(Pool!pool)
  BY PoolStep
<1> QED
  BY <1>1, <1>2, PTL DEF Spec, ImplementsPool, Pool!Spec

=============================================================================
