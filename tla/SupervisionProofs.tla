------------------------- MODULE SupervisionProofs --------------------------
(***************************************************************************)
(* Proofs about Supervision, for any number of actors, any configurations  *)
(* and any length of time: no child is restarted more often than its       *)
(* budget allows, and none is lost or supervised twice.                    *)
(***************************************************************************)
EXTENDS Supervision, FiniteSetTheorems, SequenceTheorems, WellFoundedInduction, TLAPS

\* Functions from sets of actors.
Table(C)  == UNION {[D -> C] : D \in SUBSET Nat}
Child     == [line : Nat, config : Configs, times : Seq(Nat), consecutive : Nat]
Kids      == Table(Child)
Owned     == Table(Configs)
WakeTimes == {t + Backoff(cfg, n) : t \in Nat, cfg \in Configs, n \in Nat}
Sleep     == [wake : WakeTimes, child : Child]
Actor     == [level : Nat, parent : Nat]
Event     == [line : Nat, at : Nat]
Pending   == SUBSET Sleep
Box       == Seq(Nat)

\* The types of the variables: one place of each sequence for each actor.
TypeInv ==
    /\ actors \in Seq(Actor)
    /\ alive \subseteq Started
    /\ children \in Seq(Kids) /\ Len(children) = Len(actors)
    /\ mailbox \in Seq(Box) /\ Len(mailbox) = Len(actors)
    /\ asleep \in Seq(Pending) /\ Len(asleep) = Len(actors)
    /\ now \in Nat
    /\ lines \in Seq(Owned) /\ Len(lines) = Len(actors)
    /\ restarts \in Seq(Event)
    /\ given \subseteq Nat

(***************************************************************************)
(* Sequences and functions.                                                *)
(***************************************************************************)

\* A sequence that changes at one place and grows at its end.
LEMMA Grown ==
    ASSUME NEW T, NEW s \in Seq(T), NEW p \in 1 .. Len(s), NEW v \in T, NEW w \in T
    PROVE  LET t == Append([s EXCEPT ![p] = v], w) IN
           /\ t \in Seq(T) /\ Len(t) = Len(s) + 1
           /\ t[Len(s) + 1] = w
           /\ \A i \in 1 .. Len(s) : t[i] = IF i = p THEN v ELSE s[i]
  OBVIOUS

LEMMA Longer ==
    ASSUME NEW T, NEW s \in Seq(T), NEW w \in T
    PROVE  /\ Append(s, w) \in Seq(T) /\ Len(Append(s, w)) = Len(s) + 1
           /\ Append(s, w)[Len(s) + 1] = w
           /\ \A i \in 1 .. Len(s) : Append(s, w)[i] = s[i]
  OBVIOUS

LEMMA Changed ==
    ASSUME NEW T, NEW s \in Seq(T), NEW p \in 1 .. Len(s), NEW v \in T
    PROVE  /\ [s EXCEPT ![p] = v] \in Seq(T) /\ Len([s EXCEPT ![p] = v]) = Len(s)
           /\ \A i \in 1 .. Len(s) : [s EXCEPT ![p] = v][i] = IF i = p THEN v ELSE s[i]
  OBVIOUS

\* Functions on sets of numbers: the empty one, one more argument, one less,
\* another value.
LEMMA EmptyTable ==
    ASSUME NEW C
    PROVE  <<>> \in Table(C) /\ DOMAIN <<>> = {}
<1>1. <<>> \in [{} -> C] /\ DOMAIN <<>> = {}
  OBVIOUS
<1>2. {} \in SUBSET Nat
  OBVIOUS
<1> QED
  BY <1>1, <1>2 DEF Table

LEMMA TableType ==
    ASSUME NEW C, NEW f
    PROVE  /\ f \in Table(C) =>
                DOMAIN f \subseteq Nat /\ f \in [DOMAIN f -> C]
           /\ DOMAIN f \subseteq Nat /\ f \in [DOMAIN f -> C] =>
                f \in Table(C)
<1>1. ASSUME f \in Table(C)
      PROVE  DOMAIN f \subseteq Nat /\ f \in [DOMAIN f -> C]
  <2>1. PICK D \in SUBSET Nat : f \in [D -> C]
    BY <1>1 DEF Table
  <2> QED
    BY <2>1
<1>2. ASSUME DOMAIN f \subseteq Nat, f \in [DOMAIN f -> C]
      PROVE  f \in Table(C)
  <2>1. DOMAIN f \in SUBSET Nat
    BY <1>2
  <2> QED
    BY <1>2, <2>1 DEF Table
<1> QED
  BY <1>1, <1>2

LEMMA PutKid ==
    ASSUME NEW kids \in Kids, NEW k \in Nat, NEW child \in Child
    PROVE  /\ Put(kids, k, child) \in Kids
           /\ DOMAIN Put(kids, k, child) = DOMAIN kids \cup {k}
           /\ Put(kids, k, child)[k] = child
           /\ \A x \in DOMAIN kids : x # k => Put(kids, k, child)[x] = kids[x]
<1>1. DOMAIN kids \subseteq Nat /\ kids \in [DOMAIN kids -> Child]
  BY TableType DEF Kids
<1>2. DOMAIN Put(kids, k, child) = DOMAIN kids \cup {k} /\ Put(kids, k, child) \in [DOMAIN kids \cup {k} -> Child]
  BY <1>1 DEF Put
<1>3. Put(kids, k, child) \in Kids
  BY <1>1, <1>2, TableType DEF Kids
<1> QED
  BY <1>1, <1>2, <1>3 DEF Put

LEMMA PutOwned ==
    ASSUME NEW owned \in Owned, NEW k \in Nat, NEW cfg \in Configs
    PROVE  /\ Put(owned, k, cfg) \in Owned
           /\ DOMAIN Put(owned, k, cfg) = DOMAIN owned \cup {k}
           /\ Put(owned, k, cfg)[k] = cfg
           /\ \A x \in DOMAIN owned : x # k => Put(owned, k, cfg)[x] = owned[x]
<1>1. DOMAIN owned \subseteq Nat /\ owned \in [DOMAIN owned -> Configs]
  BY TableType DEF Owned
<1>2. DOMAIN Put(owned, k, cfg) = DOMAIN owned \cup {k} /\ Put(owned, k, cfg) \in [DOMAIN owned \cup {k} -> Configs]
  BY <1>1 DEF Put
<1>3. Put(owned, k, cfg) \in Owned
  BY <1>1, <1>2, TableType DEF Owned
<1> QED
  BY <1>1, <1>2, <1>3 DEF Put

LEMMA WithoutType ==
    ASSUME NEW C, NEW f \in Table(C), NEW k
    PROVE  /\ Without(k, f) \in Table(C)
           /\ DOMAIN Without(k, f) = DOMAIN f \ {k}
           /\ \A x \in DOMAIN f : x # k => Without(k, f)[x] = f[x]
<1>1. DOMAIN f \subseteq Nat /\ f \in [DOMAIN f -> C]
  BY TableType
<1>2. /\ DOMAIN Without(k, f) = DOMAIN f \ {k}
      /\ Without(k, f) \in [DOMAIN f \ {k} -> C]
  BY <1>1 DEF Without, Restrict
<1>3. Without(k, f) \in Table(C)
  BY <1>1, <1>2, TableType
<1> QED
  BY <1>1, <1>2, <1>3 DEF Without, Restrict

(***************************************************************************)
(* The restarts a tracker remembers.                                       *)
(***************************************************************************)

\* A nonempty set of naturals has a least member.
LEMMA LeastFacts ==
    ASSUME NEW S \in SUBSET Nat, S # {}
    PROVE  Least(S) \in S /\ \A j \in S : Least(S) <= j
<1>1. PICK m \in S : \A k \in S : ~(<<k, m>> \in OpToRel(<, Nat))
  BY NatLessThanWellFounded, WFMin, Zenon
<1>2. \A k \in S : ~(k < m)
  BY <1>1 DEF OpToRel
<1>3. \A k \in S : m <= k
  BY <1>2
<1> QED
  BY <1>3 DEF Least

LEMMA FrontCut ==
    ASSUME NEW times \in Seq(Nat), NEW k \in 1 .. Len(times) + 1
    PROVE  /\ SubSeq(times, k, Len(times)) \in Seq(Nat)
           /\ Len(SubSeq(times, k, Len(times))) = Len(times) + 1 - k
           /\ \A m \in k .. Len(times) : SubSeq(times, k, Len(times))[m + 1 - k] = times[m]
<1>1. /\ SubSeq(times, k, Len(times)) \in Seq(Nat)
      /\ Len(SubSeq(times, k, Len(times))) = Len(times) + 1 - k
      /\ \A i \in 1 .. Len(times) - k + 1 : SubSeq(times, k, Len(times))[i] = times[k + i - 1]
  <2>1. k \in Int /\ Len(times) \in Int /\ \A i \in k .. Len(times) : times[i] \in Nat
    OBVIOUS
  <2>2. Len(SubSeq(times, k, Len(times))) = IF k <= Len(times) THEN Len(times) - k + 1 ELSE 0
    BY <2>1, SubSeqProperties
  <2> QED
    BY <2>1, <2>2, SubSeqProperties
<1> DEFINE n == Len(times)
           s == SubSeq(times, k, n)
<1>2. s \in Seq(Nat) /\ Len(s) = n + 1 - k /\ \A i \in 1 .. n - k + 1 : s[i] = times[k + i - 1]
  BY <1>1
<1>3. n \in Nat /\ k \in Nat
  OBVIOUS
<1> HIDE DEF s, n
<1>4. ASSUME NEW m \in k .. n PROVE s[m + 1 - k] = times[m]
  <2>1. m + 1 - k \in 1 .. n - k + 1 /\ k + (m + 1 - k) - 1 = m
    BY <1>3
  <2>2. s[m + 1 - k] = times[k + (m + 1 - k) - 1]
    BY <1>2, <2>1
  <2> QED
    BY <2>1, <2>2
<1> QED
  BY <1>2, <1>4 DEF s, n

\* Recent cuts a front off, and nothing of the last window with it.
LEMMA RecentFacts ==
    ASSUME now \in Nat, NEW times \in Seq(Nat), NEW window \in Nat
    PROVE  \E k \in 1 .. Len(times) + 1 :
              /\ Recent(times, window) \in Seq(Nat)
              /\ Len(Recent(times, window)) = Len(times) + 1 - k
              /\ \A m \in k .. Len(times) : Recent(times, window)[m + 1 - k] = times[m]
              /\ \A m \in 1 .. Len(times) : now - times[m] <= window => k <= m
<1> DEFINE young == {k \in 1 .. Len(times) : now - times[k] <= window}
           S == young \cup {Len(times) + 1}
           k == Least(S)
<1>1. S \in SUBSET Nat /\ S # {} /\ S \subseteq 1 .. Len(times) + 1
  OBVIOUS
<1>2. k \in S /\ \A j \in S : k <= j
  <2> HIDE DEF S
  <2> QED
    BY <1>1, LeastFacts
<1>3. k \in 1 .. Len(times) + 1
  BY <1>1, <1>2
<1>4. \A m \in 1 .. Len(times) : now - times[m] <= window => k <= m
  BY <1>2
<1>5. Recent(times, window) = SubSeq(times, k, Len(times))
  BY DEF Recent
<1> HIDE DEF k
<1>6. /\ SubSeq(times, k, Len(times)) \in Seq(Nat)
      /\ Len(SubSeq(times, k, Len(times))) = Len(times) + 1 - k
      /\ \A m \in k .. Len(times) : SubSeq(times, k, Len(times))[m + 1 - k] = times[m]
  BY <1>3, FrontCut
<1> QED
  BY <1>3, <1>4, <1>5, <1>6

(***************************************************************************)
(* SupervisedOnce of one supervisor: its children, the restart it sleeps   *)
(* before, the lines it started and those given up; and what the handlers  *)
(* do to it.                                                               *)
(***************************************************************************)
OnceAt(kids, pending, owned, gone) ==
    LET waiting == {sleep.child.line : sleep \in pending}
        watched == {kids[c].line : c \in DOMAIN kids}
    IN /\ \A c, d \in DOMAIN kids : kids[c].line = kids[d].line => c = d
       /\ watched \cap waiting = {}
       /\ watched \cup waiting = DOMAIN owned \ gone
       /\ MaxChildren > 0 => Cardinality(DOMAIN kids) + Cardinality(waiting) <= MaxChildren

LEMMA OnceEmpty == ASSUME NEW gone PROVE OnceAt(<<>>, {}, <<>>, gone)
<1>1. DOMAIN <<>> = {} /\ {sleep.child.line : sleep \in {}} = {}
  OBVIOUS
<1>2. {(<<>>)[c].line : c \in {}} = {}
  OBVIOUS
<1>3. MaxChildren > 0 => Cardinality({}) + Cardinality({}) <= MaxChildren
  BY FS_EmptySet, ConfigAssumption
<1> QED
  BY <1>1, <1>2, <1>3 DEF OnceAt

\* A line given up elsewhere changes nothing here.
LEMMA OnceElsewhere ==
    ASSUME NEW kids, NEW pending, NEW owned, NEW gone, NEW l,
           OnceAt(kids, pending, owned, gone), l \notin DOMAIN owned
    PROVE  OnceAt(kids, pending, owned, gone \cup {l})
  BY DEF OnceAt

\* A child started: spawn_supervised_child.
LEMMA OnceStarted ==
    ASSUME NEW kids \in Kids, NEW owned \in Owned, NEW gone, NEW n \in Nat,
           NEW cfg \in Configs, IsFiniteSet(DOMAIN kids), OnceAt(kids, {}, owned, gone),
           n \notin DOMAIN kids, n \notin DOMAIN owned, n \notin gone,
           MaxChildren > 0 => Cardinality(DOMAIN kids) < MaxChildren
    PROVE  OnceAt(Put(kids, n, NewChild(n, cfg)), {}, Put(owned, n, cfg), gone)
<1> DEFINE ch == NewChild(n, cfg)  K == Put(kids, n, ch)  O == Put(owned, n, cfg)
<1>0. ch \in Child
  BY DEF NewChild, Child
<1>1. ch.line = n
  BY DEF NewChild
<1>2. /\ DOMAIN K = DOMAIN kids \cup {n} /\ K[n] = ch
      /\ \A x \in DOMAIN kids : x # n => K[x] = kids[x]
  BY DEF Put
<1>3. DOMAIN O = DOMAIN owned \cup {n}
  BY DEF Put
<1>4. Cardinality(DOMAIN K) = Cardinality(DOMAIN kids) + 1
  BY <1>2, FS_AddElement
<1>5. Cardinality(DOMAIN kids) \in Nat
  BY FS_CardinalityType
<1>6. {sleep.child.line : sleep \in {}} = {} /\ Cardinality({}) = 0
  BY FS_EmptySet
<1>7. \A c \in DOMAIN kids : kids[c].line \in DOMAIN owned
  BY DEF OnceAt
<1> HIDE DEF K, O, ch
<1>8. \A c, d \in DOMAIN K : K[c].line = K[d].line => c = d
  BY <1>1, <1>2, <1>7 DEF OnceAt
<1>9. {K[c].line : c \in DOMAIN K} = DOMAIN O \ gone
  BY <1>1, <1>2, <1>3, <1>6 DEF OnceAt
<1>10. MaxChildren > 0 => Cardinality(DOMAIN K) + 0 <= MaxChildren
  BY <1>4, <1>5, ConfigAssumption
<1>11. OnceAt(K, {}, O, gone)
  BY <1>6, <1>8, <1>9, <1>10 DEF OnceAt
<1> QED
  BY <1>11 DEF K, O, ch

\* A child taken out and its line given up: Stop and Escalate.
LEMMA OnceGivenUp ==
    ASSUME NEW kids \in Kids, NEW owned, NEW gone, NEW c \in DOMAIN kids,
           IsFiniteSet(DOMAIN kids), OnceAt(kids, {}, owned, gone)
    PROVE  OnceAt(Without(c, kids), {}, owned, gone \cup {kids[c].line})
<1> DEFINE K == Without(c, kids)
<1>1. DOMAIN K = DOMAIN kids \ {c} /\ \A x \in DOMAIN kids : x # c => K[x] = kids[x]
  BY WithoutType DEF Kids
<1>2. Cardinality(DOMAIN K) <= Cardinality(DOMAIN kids) /\ Cardinality(DOMAIN K) \in Nat
  BY <1>1, FS_Subset, FS_CardinalityType
<1>3. {sleep.child.line : sleep \in {}} = {} /\ Cardinality({}) = 0
  BY FS_EmptySet
<1>4. Cardinality(DOMAIN kids) \in Nat
  BY FS_CardinalityType
<1> HIDE DEF K
<1>5. \A x, y \in DOMAIN K : K[x].line = K[y].line => x = y
  BY <1>1 DEF OnceAt
<1>6. {K[x].line : x \in DOMAIN K} = DOMAIN owned \ (gone \cup {kids[c].line})
  BY <1>1, <1>3 DEF OnceAt
<1>7. MaxChildren > 0 => Cardinality(DOMAIN K) + 0 <= MaxChildren
  BY <1>2, <1>3, <1>4, ConfigAssumption DEF OnceAt
<1>8. OnceAt(K, {}, owned, gone \cup {kids[c].line})
  BY <1>3, <1>5, <1>6, <1>7 DEF OnceAt
<1> QED
  BY <1>8 DEF K

\* A child replaced by its successor at once: Restart.
LEMMA OnceReplaced ==
    ASSUME NEW kids \in Kids, NEW owned, NEW gone, NEW c \in DOMAIN kids, NEW n \in Nat,
           NEW ch \in Child, ch.line = kids[c].line, n \notin DOMAIN kids,
           IsFiniteSet(DOMAIN kids), OnceAt(kids, {}, owned, gone)
    PROVE  OnceAt(Put(Without(c, kids), n, ch), {}, owned, gone)
<1> DEFINE M == Without(c, kids)  K == Put(M, n, ch)
<1>1. /\ M \in Kids /\ DOMAIN M = DOMAIN kids \ {c}
      /\ \A x \in DOMAIN kids : x # c => M[x] = kids[x]
  BY WithoutType DEF Kids
<1> HIDE DEF M
<1>2. /\ DOMAIN K = (DOMAIN kids \ {c}) \cup {n} /\ K[n] = ch
      /\ \A x \in DOMAIN kids \ {c} : K[x] = kids[x]
  <2>1. /\ DOMAIN K = DOMAIN M \cup {n} /\ K[n] = ch
        /\ \A x \in DOMAIN M : x # n => K[x] = M[x]
    BY DEF Put
  <2> QED
    BY <1>1, <2>1
<1>3. Cardinality(DOMAIN K) = Cardinality(DOMAIN kids)
  <2>1. /\ IsFiniteSet(DOMAIN kids \ {c})
        /\ Cardinality(DOMAIN kids \ {c}) = Cardinality(DOMAIN kids) - 1
    BY FS_RemoveElement
  <2>2. Cardinality(DOMAIN K) = Cardinality(DOMAIN kids \ {c}) + 1
    BY <1>2, <2>1, FS_AddElement
  <2>3. Cardinality(DOMAIN kids) \in Nat
    BY FS_CardinalityType
  <2> QED
    BY <2>1, <2>2, <2>3
<1>4. {sleep.child.line : sleep \in {}} = {} /\ Cardinality({}) = 0
  BY FS_EmptySet
<1> HIDE DEF K
<1>5. \A x, y \in DOMAIN K : K[x].line = K[y].line => x = y
  BY <1>2 DEF OnceAt
<1>6. {K[x].line : x \in DOMAIN K} = {kids[x].line : x \in DOMAIN kids}
  BY <1>2
<1>7. OnceAt(K, {}, owned, gone)
  BY <1>3, <1>4, <1>5, <1>6 DEF OnceAt
<1> QED
  BY <1>7 DEF K, M

\* A child taken out for a later restart: RestartAfter.
LEMMA OncePutOff ==
    ASSUME NEW kids \in Kids, NEW owned, NEW gone, NEW c \in DOMAIN kids,
           NEW sl, sl.child.line = kids[c].line,
           IsFiniteSet(DOMAIN kids), OnceAt(kids, {}, owned, gone)
    PROVE  OnceAt(Without(c, kids), {sl}, owned, gone)
<1> DEFINE K == Without(c, kids)
<1>1. DOMAIN K = DOMAIN kids \ {c} /\ \A x \in DOMAIN kids : x # c => K[x] = kids[x]
  BY WithoutType DEF Kids
<1>2. /\ Cardinality(DOMAIN K) = Cardinality(DOMAIN kids) - 1
      /\ Cardinality(DOMAIN kids) \in Nat
  BY <1>1, FS_RemoveElement, FS_CardinalityType
<1>3. {sleep.child.line : sleep \in {}} = {} /\ Cardinality({}) = 0
  BY FS_EmptySet
<1>4. /\ {sleep.child.line : sleep \in {sl}} = {kids[c].line}
      /\ Cardinality({kids[c].line}) = 1
  BY FS_Singleton
<1> HIDE DEF K
<1>5. \A x, y \in DOMAIN K : K[x].line = K[y].line => x = y
  BY <1>1 DEF OnceAt
<1>6. /\ {K[x].line : x \in DOMAIN K} \cap {kids[c].line} = {}
      /\ {K[x].line : x \in DOMAIN K} \cup {kids[c].line} = {kids[x].line : x \in DOMAIN kids}
  BY <1>1 DEF OnceAt
<1>7. MaxChildren > 0 => Cardinality(DOMAIN K) + 1 <= MaxChildren
  <2>1. MaxChildren > 0 => Cardinality(DOMAIN kids) + 0 <= MaxChildren
    BY <1>3 DEF OnceAt
  <2> QED
    BY <1>2, <2>1, ConfigAssumption
<1>8. OnceAt(K, {sl}, owned, gone)
  BY <1>3, <1>4, <1>5, <1>6, <1>7 DEF OnceAt
<1> QED
  BY <1>8 DEF K

\* The successor started after the sleep: Wake.
LEMMA OnceBack ==
    ASSUME NEW kids \in Kids, NEW owned, NEW gone, NEW n \in Nat, NEW sl \in Sleep,
           n \notin DOMAIN kids, IsFiniteSet(DOMAIN kids), OnceAt(kids, {sl}, owned, gone)
    PROVE  OnceAt(Put(kids, n, sl.child), {}, owned, gone)
<1> DEFINE K == Put(kids, n, sl.child)
<1>0. sl.child \in Child
  BY DEF Sleep
<1>1. /\ DOMAIN K = DOMAIN kids \cup {n} /\ K[n] = sl.child
      /\ \A x \in DOMAIN kids : x # n => K[x] = kids[x]
  BY DEF Put
<1>2. /\ Cardinality(DOMAIN K) = Cardinality(DOMAIN kids) + 1
      /\ Cardinality(DOMAIN kids) \in Nat
  BY <1>1, FS_AddElement, FS_CardinalityType
<1>3. {sleep.child.line : sleep \in {}} = {} /\ Cardinality({}) = 0
  BY FS_EmptySet
<1>4. /\ {sleep.child.line : sleep \in {sl}} = {sl.child.line}
      /\ Cardinality({sl.child.line}) = 1
  BY FS_Singleton, ZenonT(30)
<1> HIDE DEF K
<1>5. \A x, y \in DOMAIN K : K[x].line = K[y].line => x = y
  BY <1>1, <1>4 DEF OnceAt
<1>6. {K[x].line : x \in DOMAIN K} = {kids[x].line : x \in DOMAIN kids} \cup {sl.child.line}
  BY <1>1
<1>7. MaxChildren > 0 => Cardinality(DOMAIN K) + 0 <= MaxChildren
  <2>1. MaxChildren > 0 => Cardinality(DOMAIN kids) + 1 <= MaxChildren
    BY <1>4 DEF OnceAt
  <2> QED
    BY <1>2, <2>1, ConfigAssumption
<1>8. OnceAt(K, {}, owned, gone)
  BY <1>3, <1>4, <1>5, <1>6, <1>7 DEF OnceAt
<1> QED
  BY <1>8 DEF K

\* A tracker changes and the lines stay: Resume.
LEMMA OnceResumed ==
    ASSUME NEW kids, NEW new, NEW owned, NEW gone, DOMAIN new = DOMAIN kids,
           \A x \in DOMAIN kids : new[x].line = kids[x].line, OnceAt(kids, {}, owned, gone)
    PROVE  OnceAt(new, {}, owned, gone)
  BY DEF OnceAt

-----------------------------------------------------------------------------
(***************************************************************************)
(* What a step of supervisor p leaves behind: its children, the restart it *)
(* sleeps before and its lines; at most one new actor, which supervises    *)
(* nothing; and everybody else as they were.                               *)
(***************************************************************************)
Becomes(p, kids, pending, owned) ==
    /\ children'[p] = kids /\ asleep'[p] = pending /\ lines'[p] = owned
    /\ \A q \in Started : /\ q \in Started' /\ actors'[q] = actors[q]
                          /\ q # p => /\ children'[q] = children[q]
                                       /\ asleep'[q] = asleep[q]
                                       /\ lines'[q] = lines[q]
    /\ \A q \in Started' : q \in Started \/
          /\ q = NewId /\ actors'[q].parent = p
          /\ children'[q] = <<>> /\ asleep'[q] = {} /\ lines'[q] = <<>>

\* What TypeInv says of one supervisor.
LEMMA AtType ==
    ASSUME TypeInv, NEW p \in Started
    PROVE  /\ children[p] \in Kids /\ asleep[p] \subseteq Sleep /\ lines[p] \in Owned
           /\ actors[p] \in Actor /\ mailbox[p] \in Box
           /\ p \in 1 .. Len(actors) /\ Started = 1 .. Len(actors)
           /\ \A c \in DOMAIN children[p] : c \in Nat /\ children[p][c] \in Child
<1>1. p \in 1 .. Len(actors) /\ Started = 1 .. Len(actors)
  BY DEF TypeInv, Started
<1>2. /\ children[p] \in Kids /\ asleep[p] \subseteq Sleep /\ lines[p] \in Owned
      /\ actors[p] \in Actor /\ mailbox[p] \in Box
  <2>1. /\ children \in Seq(Kids) /\ asleep \in Seq(Pending) /\ lines \in Seq(Owned)
        /\ actors \in Seq(Actor) /\ mailbox \in Seq(Box)
        /\ Len(children) = Len(actors) /\ Len(mailbox) = Len(actors)
        /\ Len(asleep) = Len(actors) /\ Len(lines) = Len(actors)
    BY DEF TypeInv
  <2>2. children[p] \in Kids
    BY <1>1, <2>1
  <2>3. asleep[p] \in Pending
    BY <1>1, <2>1
  <2>4. lines[p] \in Owned
    BY <1>1, <2>1
  <2>5. actors[p] \in Actor
    BY <1>1, <2>1
  <2>6. mailbox[p] \in Box
    BY <1>1, <2>1
  <2> QED
    BY <2>2, <2>3, <2>4, <2>5, <2>6 DEF Pending
<1>3. DOMAIN children[p] \subseteq Nat /\ children[p] \in [DOMAIN children[p] -> Child]
  BY <1>2, TableType DEF Kids
<1> QED
  BY <1>1, <1>2, <1>3

\* The tracker of a restarted child, and of one that is resumed.
LEMMA RestartedType ==
    ASSUME now \in Nat, NEW child \in Child
    PROVE  /\ child.config \in Configs /\ child.config.window \in Nat
           /\ Restarted(child) \in Child
           /\ Restarted(child).line = child.line
           /\ Restarted(child).config = child.config
           /\ Restarted(child).times = Append(Recent(child.times, child.config.window), now)
           /\ Recent(child.times, child.config.window) \in Seq(Nat)
<1>1. child.config \in Configs /\ child.times \in Seq(Nat) /\ child.consecutive \in Nat
  BY DEF Child
<1>2. child.config.window \in Nat
  BY <1>1, ConfigAssumption
<1>3. Recent(child.times, child.config.window) \in Seq(Nat)
  BY <1>1, <1>2, RecentFacts
<1>4. Append(Recent(child.times, child.config.window), now) \in Seq(Nat)
  BY <1>3
<1> DEFINE times == Append(Recent(child.times, child.config.window), now)
<1>5. Restarted(child) = [child EXCEPT !.times = times, !.consecutive = child.consecutive + 1]
  BY DEF Restarted
<1>6. child.consecutive + 1 \in Nat
  BY <1>1
<1> HIDE DEF times
<1>7. /\ Restarted(child) \in Child
      /\ Restarted(child).line = child.line
      /\ Restarted(child).config = child.config
      /\ Restarted(child).times = times
  BY <1>4, <1>5, <1>6 DEF Child, times
<1> QED
  BY <1>1, <1>2, <1>3, <1>7 DEF times

\* Spawn: the types, and what it leaves alone.
LEMMA SpawnType ==
    ASSUME TypeInv, NEW p \in Started, NEW kids \in Kids, Spawn(p, kids)
    PROVE  /\ actors' \in Seq(Actor) /\ Len(actors') = Len(actors) + 1
           /\ Started' = Started \cup {NewId} /\ NewId \notin Started /\ NewId \in Nat
           /\ NewId = Len(actors) + 1
           /\ actors'[NewId].parent = p /\ \A q \in Started : actors'[q] = actors[q]
           /\ alive' \subseteq Started'
           /\ children' \in Seq(Kids) /\ Len(children') = Len(actors')
           /\ children'[NewId] = <<>>
           /\ \A q \in Started : children'[q] = IF q = p THEN kids ELSE children[q]
<1> DEFINE a == [level |-> actors[p].level + 1, parent |-> p]
<1>1. /\ p \in 1 .. Len(actors) /\ Started = 1 .. Len(actors) /\ a.parent = p
      /\ a \in Actor /\ Len(actors) \in Nat
  BY AtType DEF TypeInv, Actor
<1>2. actors \in Seq(Actor) /\ actors' = Append(actors, a)
  BY DEF TypeInv, Spawn
<1> HIDE DEF a
<1>3. /\ actors' \in Seq(Actor) /\ Len(actors') = Len(actors) + 1
      /\ actors'[Len(actors) + 1] = a /\ \A q \in 1 .. Len(actors) : actors'[q] = actors[q]
  BY <1>1, <1>2, Longer
<1>4. Started' = 1 .. (Len(actors) + 1)
  BY <1>3 DEF Started
<1>5. NewId = Len(actors) + 1
  BY DEF NewId
<1>6. children \in Seq(Kids) /\ Len(children) = Len(actors) /\ <<>> \in Kids
  BY EmptyTable DEF TypeInv, Kids
<1>7. children' = Append([children EXCEPT ![p] = kids], <<>>)
  BY DEF Spawn
<1>8. /\ children' \in Seq(Kids) /\ Len(children') = Len(actors) + 1
      /\ children'[Len(actors) + 1] = <<>>
      /\ \A q \in 1 .. Len(actors) : children'[q] = IF q = p THEN kids ELSE children[q]
  <2>1. p \in 1 .. Len(children)
    BY <1>1, <1>6
  <2> QED
    BY <1>6, <1>7, <2>1, Grown
<1>9. alive' = alive \cup {NewId} /\ alive \subseteq Started
  BY DEF TypeInv, Spawn
<1>10. Started' = Started \cup {NewId} /\ NewId \notin Started /\ NewId \in Nat
  BY <1>1, <1>4, <1>5
<1> QED
  BY <1>1, <1>3, <1>5, <1>8, <1>9, <1>10

\* spawn_supervised_child
LEMMA StartEffect ==
    ASSUME TypeInv, NEW p \in Started, NEW cfg \in Configs, SpawnSupervised(p, cfg)
    PROVE  /\ TypeInv'
           /\ Becomes(p, Put(children[p], NewId, NewChild(NewId, cfg)), asleep[p],
                      Put(lines[p], NewId, cfg))
           /\ NewId \in Nat /\ NewId \notin Started /\ Started' = Started \cup {NewId}
<1> DEFINE kids == Put(children[p], NewId, NewChild(NewId, cfg))
           owned == Put(lines[p], NewId, cfg)
<1>1. /\ children[p] \in Kids /\ lines[p] \in Owned
      /\ p \in 1 .. Len(actors) /\ Started = 1 .. Len(actors)
      /\ NewId \in Nat /\ NewId = Len(actors) + 1
  BY AtType DEF TypeInv, NewId
<1>2. NewChild(NewId, cfg) \in Child
  BY <1>1 DEF NewChild, Child
<1>3. kids \in Kids
  BY <1>1, <1>2, PutKid
<1>4. owned \in Owned
  BY <1>1, PutOwned
<1>5. Spawn(p, kids)
  BY DEF SpawnSupervised
<1>6. lines' = Append([lines EXCEPT ![p] = owned], <<>>)
  BY DEF SpawnSupervised
<1> HIDE DEF kids, owned
<1>7. /\ actors' \in Seq(Actor) /\ Len(actors') = Len(actors) + 1
      /\ Started' = Started \cup {NewId} /\ NewId \notin Started
      /\ actors'[NewId].parent = p /\ \A q \in Started : actors'[q] = actors[q]
      /\ alive' \subseteq Started'
      /\ children' \in Seq(Kids) /\ Len(children') = Len(actors')
      /\ children'[NewId] = <<>>
      /\ \A q \in Started : children'[q] = IF q = p THEN kids ELSE children[q]
  BY <1>3, <1>5, SpawnType
<1>8. /\ lines' \in Seq(Owned) /\ Len(lines') = Len(actors')
      /\ lines'[NewId] = <<>>
      /\ \A q \in Started : lines'[q] = IF q = p THEN owned ELSE lines[q]
  <2>1. lines \in Seq(Owned) /\ Len(lines) = Len(actors) /\ <<>> \in Owned
    BY EmptyTable DEF TypeInv, Owned
  <2> QED
    BY <1>1, <1>4, <1>6, <1>7, <2>1, Grown, SMTT(30)
<1>9. mailbox' \in Seq(Box) /\ Len(mailbox') = Len(actors')
  <2>1. /\ mailbox \in Seq(Box) /\ Len(mailbox) = Len(actors) /\ <<>> \in Box
        /\ mailbox' = Append(mailbox, <<>>)
    BY DEF TypeInv, SpawnSupervised, Box
  <2> QED
    BY <1>7, <2>1, Longer
<1>10. /\ asleep' \in Seq(Pending) /\ Len(asleep') = Len(actors')
       /\ asleep'[NewId] = {} /\ \A q \in Started : asleep'[q] = asleep[q]
  <2>1. /\ asleep \in Seq(Pending) /\ Len(asleep) = Len(actors) /\ {} \in Pending
        /\ asleep' = Append(asleep, {})
    BY DEF TypeInv, SpawnSupervised, Pending
  <2>2. /\ asleep' \in Seq(Pending) /\ Len(asleep') = Len(asleep) + 1
        /\ asleep'[Len(asleep) + 1] = {}
        /\ \A q \in 1 .. Len(asleep) : asleep'[q] = asleep[q]
    BY <2>1, Longer
  <2> QED
    BY <1>1, <1>7, <2>1, <2>2
<1>11. /\ now' = now /\ restarts' = restarts /\ given' = given /\ now \in Nat
       /\ restarts \in Seq(Event) /\ given \subseteq Nat
  BY DEF TypeInv, SpawnSupervised
<1>12. TypeInv'
  BY <1>7, <1>8, <1>9, <1>10, <1>11 DEF TypeInv
<1>13. Becomes(p, kids, asleep[p], owned)
  BY <1>7, <1>8, <1>10 DEF Becomes
<1> QED
  BY <1>1, <1>7, <1>12, <1>13 DEF kids, owned

\* A report appended to a mailbox, and the head of a mailbox taken.
LEMMA ToldType ==
    ASSUME TypeInv, NEW q, NEW c \in Nat
    PROVE  /\ Told(q, c) \in Seq(Box) /\ Len(Told(q, c)) = Len(actors)
           /\ \A r \in Started : mailbox[r] # <<>> => Told(q, c)[r] # <<>>
<1>1. mailbox \in Seq(Box) /\ Len(mailbox) = Len(actors) /\ alive \subseteq Started
  BY DEF TypeInv
<1>2. CASE q \in alive
  <2>1. q \in 1 .. Len(mailbox) /\ mailbox[q] \in Box /\ Started = 1 .. Len(mailbox)
    BY <1>1, <1>2, AtType
  <2>2. Append(mailbox[q], c) \in Box /\ Append(mailbox[q], c) # <<>>
    BY <2>1 DEF Box
  <2>3. Told(q, c) = [mailbox EXCEPT ![q] = Append(mailbox[q], c)]
    BY <1>2 DEF Told
  <2> QED
    BY <1>1, <2>1, <2>2, <2>3, Changed
<1>3. CASE q \notin alive
  BY <1>1, <1>3 DEF Told
<1> QED
  BY <1>2, <1>3

LEMMA TailType ==
    ASSUME NEW box \in Seq(Box), NEW p \in 1 .. Len(box), box[p] # <<>>
    PROVE  /\ [box EXCEPT ![p] = Tail(@)] \in Seq(Box)
           /\ Len([box EXCEPT ![p] = Tail(@)]) = Len(box)
<1>1. box[p] \in Box
  OBVIOUS
<1>2. Tail(box[p]) \in Box
  BY <1>1 DEF Box
<1> QED
  BY <1>2, Changed

\* The steps that leave supervision as it is.
Unaffected ==
    UNCHANGED <<actors, children, asleep, lines, restarts, given>>

LEMMA QuietEffect ==
    ASSUME TypeInv, NEW p \in Started,
           Report(p) \/ Exit(p) \/ Tick
           \/ (mailbox[p] # <<>> /\ now' = now /\ \E c : Unknown(p, c))
    PROVE  TypeInv' /\ Unaffected /\ now' \in Nat /\ now <= now'
<1>1. Unaffected
  BY DEF Report, Exit, Tick, Unknown, Unaffected
<1>2. now' \in Nat /\ now <= now'
  BY DEF Report, Exit, Tick, TypeInv
<1>3. alive' \subseteq Started'
  BY <1>1 DEF Report, Exit, Tick, Unknown, TypeInv, Unaffected, Started
<1>4. p \in Nat /\ p \in 1 .. Len(mailbox) /\ mailbox \in Seq(Box) /\ Len(mailbox) = Len(actors)
  BY AtType DEF TypeInv
<1>5. mailbox' \in Seq(Box) /\ Len(mailbox') = Len(actors)
  <2>1. CASE Report(p)
    BY <1>4, <2>1, ToldType DEF Report
  <2>2. CASE Exit(p) \/ Tick
    BY <1>4, <2>2 DEF Exit, Tick
  <2>3. CASE mailbox[p] # <<>> /\ \E c : Unknown(p, c)
    BY <1>4, <2>3, TailType DEF Unknown, Drop
  <2> QED
    BY <2>1, <2>2, <2>3
<1> QED
  BY <1>1, <1>2, <1>3, <1>5 DEF TypeInv, Unaffected, Started

\* A step that starts nobody: p's children and its sleep change.
LEMMA StayEffect ==
    ASSUME TypeInv, NEW p \in Started, NEW kids \in Kids, NEW pending \in Pending,
           children' = [children EXCEPT ![p] = kids],
           asleep' = [asleep EXCEPT ![p] = pending],
           UNCHANGED <<actors, alive, lines>>,
           mailbox' \in Seq(Box), Len(mailbox') = Len(actors),
           now' \in Nat, restarts' \in Seq(Event), given' \subseteq Nat
    PROVE  TypeInv' /\ Becomes(p, kids, pending, lines[p]) /\ Started' = Started
<1>1. /\ p \in 1 .. Len(children) /\ p \in 1 .. Len(asleep) /\ Started = 1 .. Len(actors)
      /\ children \in Seq(Kids) /\ asleep \in Seq(Pending)
      /\ Len(children) = Len(actors) /\ Len(asleep) = Len(actors)
  BY AtType DEF TypeInv
<1>2. /\ children' \in Seq(Kids) /\ Len(children') = Len(actors)
      /\ \A q \in Started : children'[q] = IF q = p THEN kids ELSE children[q]
  BY <1>1, Changed
<1>3. /\ asleep' \in Seq(Pending) /\ Len(asleep') = Len(actors)
      /\ \A q \in Started : asleep'[q] = IF q = p THEN pending ELSE asleep[q]
  BY <1>1, Changed
<1>4. Started' = Started
  BY DEF Started
<1>5. TypeInv'
  BY <1>2, <1>3, <1>4 DEF TypeInv
<1>6. Becomes(p, kids, pending, lines[p])
  BY <1>2, <1>3, <1>4 DEF Becomes
<1> QED
  BY <1>4, <1>5, <1>6

\* The sleeps when one of them ends and an actor is started, and when an
\* actor is started at once.
LEMMA SleepEnds ==
    ASSUME TypeInv, NEW p \in Started, asleep' = Append([asleep EXCEPT ![p] = {}], {})
    PROVE  /\ asleep' \in Seq(Pending) /\ Len(asleep') = Len(actors) + 1
           /\ asleep'[Len(actors) + 1] = {}
           /\ \A q \in Started : asleep'[q] = IF q = p THEN {} ELSE asleep[q]
<1>1. /\ asleep \in Seq(Pending) /\ p \in 1 .. Len(asleep) /\ Len(asleep) = Len(actors)
      /\ Started = 1 .. Len(asleep)
  BY AtType DEF TypeInv
<1>2. {} \in Pending
  BY DEF Pending
<1> QED
  BY <1>1, <1>2

LEMMA SleepStays ==
    ASSUME TypeInv, asleep' = Append(asleep, {})
    PROVE  /\ asleep' \in Seq(Pending) /\ Len(asleep') = Len(actors) + 1
           /\ asleep'[Len(actors) + 1] = {}
           /\ \A q \in Started : asleep'[q] = asleep[q]
<1>1. asleep \in Seq(Pending) /\ Len(asleep) = Len(actors) /\ Started = 1 .. Len(asleep)
  BY DEF TypeInv, Started
<1>2. {} \in Pending
  BY DEF Pending
<1> QED
  BY <1>1, <1>2

\* A step that starts an actor in p's name: its children and its sleep change.
LEMMA SpawnEffect ==
    ASSUME TypeInv, NEW p \in Started, NEW kids \in Kids, NEW pending \in Pending,
           Spawn(p, kids),
           asleep' \in Seq(Pending), Len(asleep') = Len(actors) + 1,
           asleep'[Len(actors) + 1] = {},
           \A q \in Started : asleep'[q] = IF q = p THEN pending ELSE asleep[q],
           lines' = Append(lines, <<>>),
           mailbox' \in Seq(Box), Len(mailbox') = Len(actors) + 1,
           now' \in Nat, restarts' \in Seq(Event), given' \subseteq Nat
    PROVE  /\ TypeInv' /\ Becomes(p, kids, pending, lines[p])
           /\ Started' = Started \cup {NewId} /\ NewId \notin Started /\ NewId \in Nat
<1>1. Started = 1 .. Len(actors) /\ lines \in Seq(Owned) /\ Len(lines) = Len(actors)
  BY AtType DEF TypeInv
<1>2. <<>> \in Owned
  BY EmptyTable DEF Owned
<1>3. /\ actors' \in Seq(Actor) /\ Len(actors') = Len(actors) + 1
      /\ Started' = Started \cup {NewId} /\ NewId \notin Started /\ NewId \in Nat
      /\ NewId = Len(actors) + 1
      /\ actors'[NewId].parent = p /\ \A q \in Started : actors'[q] = actors[q]
      /\ alive' \subseteq Started'
      /\ children' \in Seq(Kids) /\ Len(children') = Len(actors')
      /\ children'[NewId] = <<>>
      /\ \A q \in Started : children'[q] = IF q = p THEN kids ELSE children[q]
  BY SpawnType
<1>4. /\ lines' \in Seq(Owned) /\ Len(lines') = Len(lines) + 1
      /\ lines'[Len(lines) + 1] = <<>>
      /\ \A q \in 1 .. Len(lines) : lines'[q] = lines[q]
  BY <1>1, <1>2, Longer, SMTT(30)
<1>5. TypeInv'
  BY <1>1, <1>3, <1>4 DEF TypeInv
<1>6. Becomes(p, kids, pending, lines[p])
  BY <1>1, <1>3, <1>4 DEF Becomes
<1> QED
  BY <1>3, <1>5, <1>6

\* The arms of handle_child_failure_msg, and the end of a sleep.
LEMMA GivenUpEffect ==
    ASSUME TypeInv, NEW p \in Started, mailbox[p] # <<>>, now' = now,
           NEW c \in DOMAIN children[p],
           Stop(p, c, children[p][c]) \/ Escalate(p, c, children[p][c])
    PROVE  /\ TypeInv' /\ Becomes(p, Without(c, children[p]), asleep[p], lines[p])
           /\ Started' = Started /\ restarts' = restarts
           /\ given' = given \cup {children[p][c].line}
<1> DEFINE kids == Without(c, children[p])
<1>1. /\ p \in Nat /\ p \in 1 .. Len(actors) /\ children[p] \in Kids
      /\ asleep[p] \in Pending /\ children[p][c] \in Child
  BY AtType DEF Pending
<1>2. kids \in Kids
  BY <1>1, WithoutType DEF Kids
<1>3. /\ children' = [children EXCEPT ![p] = kids]
      /\ UNCHANGED <<actors, alive, asleep, lines, restarts>>
      /\ given' = given \cup {children[p][c].line}
  BY DEF Stop, Escalate
<1> HIDE DEF kids
<1>4. asleep' = [asleep EXCEPT ![p] = asleep[p]]
  BY <1>1, <1>3 DEF TypeInv
<1>5. mailbox' \in Seq(Box) /\ Len(mailbox') = Len(actors)
  <2>1. CASE Stop(p, c, children[p][c])
    BY <1>1, <2>1, TailType DEF Stop, Drop, TypeInv
  <2>2. CASE Escalate(p, c, children[p][c])
    <3> DEFINE box == Told(actors[p].parent, p)
    <3>1. box \in Seq(Box) /\ Len(box) = Len(actors) /\ box[p] # <<>>
      BY <1>1, ToldType
    <3>2. mailbox' = [box EXCEPT ![p] = Tail(@)]
      BY <2>2 DEF Escalate
    <3> HIDE DEF box
    <3> QED
      BY <1>1, <3>1, <3>2, TailType
  <2> QED
    BY <2>1, <2>2
<1>6. now' \in Nat /\ restarts' \in Seq(Event) /\ given' \subseteq Nat
  BY <1>1, <1>3 DEF TypeInv, Child
<1>7. TypeInv' /\ Becomes(p, kids, asleep[p], lines[p]) /\ Started' = Started
  BY <1>1, <1>2, <1>3, <1>4, <1>5, <1>6, StayEffect
<1> QED
  BY <1>3, <1>7 DEF kids

LEMMA RestartEffect ==
    ASSUME TypeInv, NEW p \in Started, mailbox[p] # <<>>, now' = now,
           NEW c \in DOMAIN children[p], Restart(p, c, children[p][c])
    PROVE  /\ TypeInv'
           /\ Becomes(p, Put(Without(c, children[p]), NewId, Restarted(children[p][c])),
                      asleep[p], lines[p])
           /\ Started' = Started \cup {NewId} /\ NewId \notin Started /\ NewId \in Nat
           /\ restarts' = Append(restarts, [line |-> children[p][c].line, at |-> now])
           /\ given' = given
<1> DEFINE kids == Put(Without(c, children[p]), NewId, Restarted(children[p][c]))
           event == [line |-> children[p][c].line, at |-> now]
<1>1. /\ p \in 1 .. Len(actors) /\ children[p] \in Kids /\ asleep[p] \in Pending
      /\ children[p][c] \in Child /\ NewId \in Nat /\ now \in Nat
  BY AtType DEF Pending, NewId, TypeInv
<1>2. Without(c, children[p]) \in Kids
  BY <1>1, WithoutType DEF Kids
<1>3. Restarted(children[p][c]) \in Child
  BY <1>1, RestartedType
<1>4. kids \in Kids
  BY <1>1, <1>2, <1>3, PutKid
<1>5. /\ Spawn(p, kids) /\ asleep' = Append(asleep, {}) /\ lines' = Append(lines, <<>>)
      /\ mailbox' = Append([mailbox EXCEPT ![p] = Tail(@)], <<>>)
      /\ restarts' = Append(restarts, event) /\ given' = given
  BY DEF Restart
<1>6. event \in Event
  BY <1>1 DEF Event, Child
<1> HIDE DEF kids, event
<1>7. mailbox' \in Seq(Box) /\ Len(mailbox') = Len(actors) + 1
  <2> DEFINE box == [mailbox EXCEPT ![p] = Tail(@)]
  <2>1. box \in Seq(Box) /\ Len(box) = Len(actors)
    BY <1>1, TailType DEF TypeInv
  <2>2. mailbox' = Append(box, <<>>) /\ <<>> \in Box
    BY <1>5 DEF Box
  <2> HIDE DEF box
  <2> QED
    BY <2>1, <2>2, Longer
<1>8. /\ asleep' \in Seq(Pending) /\ Len(asleep') = Len(actors) + 1
      /\ asleep'[Len(actors) + 1] = {}
      /\ \A q \in Started : asleep'[q] = IF q = p THEN asleep[p] ELSE asleep[q]
  BY <1>5, SleepStays
<1>9. now' \in Nat /\ restarts' \in Seq(Event) /\ given' \subseteq Nat
  BY <1>5, <1>6 DEF TypeInv
<1>10. /\ TypeInv' /\ Becomes(p, kids, asleep[p], lines[p])
       /\ Started' = Started \cup {NewId} /\ NewId \notin Started /\ NewId \in Nat
  BY <1>1, <1>4, <1>5, <1>7, <1>8, <1>9, SpawnEffect
<1> QED
  BY <1>5, <1>10 DEF kids, event

\* The sleep a delayed restart begins with.
BeginSleep(child) ==
    [wake |-> now + Backoff(child.config, Restarted(child).consecutive),
     child |-> Restarted(child)]

LEMMA PutOffEffect ==
    ASSUME TypeInv, NEW p \in Started, mailbox[p] # <<>>, now' = now,
           NEW c \in DOMAIN children[p], RestartAfter(p, c, children[p][c])
    PROVE  /\ TypeInv'
           /\ BeginSleep(children[p][c]) \in Sleep
           /\ Becomes(p, Without(c, children[p]), {BeginSleep(children[p][c])}, lines[p])
           /\ Started' = Started
           /\ restarts' = Append(restarts, [line |-> children[p][c].line, at |-> now])
           /\ given' = given
<1> DEFINE kids == Without(c, children[p])
           event == [line |-> children[p][c].line, at |-> now]
           sl == BeginSleep(children[p][c])
<1>1. /\ p \in 1 .. Len(actors) /\ children[p] \in Kids
      /\ children[p][c] \in Child /\ now \in Nat
  BY AtType DEF TypeInv
<1>2. kids \in Kids
  BY <1>1, WithoutType DEF Kids
<1>3. sl \in Sleep
  <2>1. Restarted(children[p][c]) \in Child /\ children[p][c].config \in Configs
    BY <1>1, RestartedType
  <2>2. Restarted(children[p][c]).consecutive \in Nat
    BY <2>1 DEF Child
  <2>3. now + Backoff(children[p][c].config, Restarted(children[p][c]).consecutive)
            \in WakeTimes
    BY <1>1, <2>1, <2>2 DEF WakeTimes
  <2> QED
    BY <2>1, <2>3 DEF BeginSleep, Sleep
<1>4. {sl} \in Pending
  BY <1>3 DEF Pending
<1>5. /\ children' = [children EXCEPT ![p] = kids]
      /\ asleep' = [asleep EXCEPT ![p] = {sl}]
      /\ restarts' = Append(restarts, event) /\ Drop(p)
      /\ UNCHANGED <<actors, alive, lines, given>>
  BY DEF RestartAfter, BeginSleep
<1>6. event \in Event
  BY <1>1 DEF Event, Child
<1> HIDE DEF kids, event, sl
<1>7. mailbox' \in Seq(Box) /\ Len(mailbox') = Len(actors)
  BY <1>1, <1>5, TailType DEF Drop, TypeInv
<1>8. now' \in Nat /\ restarts' \in Seq(Event) /\ given' \subseteq Nat
  BY <1>5, <1>6 DEF TypeInv
<1>9. TypeInv' /\ Becomes(p, kids, {sl}, lines[p]) /\ Started' = Started
  BY <1>2, <1>4, <1>5, <1>7, <1>8, StayEffect
<1> QED
  BY <1>3, <1>5, <1>9 DEF kids, event, sl

LEMMA ResumeEffect ==
    ASSUME TypeInv, NEW p \in Started, mailbox[p] # <<>>, now' = now,
           NEW c \in DOMAIN children[p], Resume(p, c, children[p][c])
    PROVE  LET child == children[p][c]
               new == [child EXCEPT !.times = Recent(@, child.config.window)]
           IN /\ TypeInv'
              /\ Becomes(p, [children[p] EXCEPT ![c] = new], asleep[p], lines[p])
              /\ new \in Child /\ new.line = child.line /\ new.config = child.config
              /\ new.times = Recent(child.times, child.config.window)
              /\ Started' = Started /\ restarts' = restarts /\ given' = given
<1> DEFINE child == children[p][c]
           new == [child EXCEPT !.times = Recent(@, child.config.window)]
           kids == [children[p] EXCEPT ![c] = new]
<1>1. /\ p \in 1 .. Len(actors) /\ children[p] \in Kids /\ asleep[p] \in Pending
      /\ child \in Child /\ now \in Nat
  BY AtType DEF TypeInv, Pending
<1>2. Recent(child.times, child.config.window) \in Seq(Nat)
  BY <1>1, RestartedType
<1>3. /\ new \in Child /\ new.line = child.line /\ new.config = child.config
      /\ new.times = Recent(child.times, child.config.window)
  <2> HIDE DEF child
  <2> QED
    BY <1>1, <1>2 DEF Child
<1>4. kids \in Kids
  <2>1. DOMAIN children[p] \subseteq Nat /\ children[p] \in [DOMAIN children[p] -> Child]
    BY <1>1, TableType DEF Kids
  <2> HIDE DEF new
  <2>2. DOMAIN kids = DOMAIN children[p] /\ kids \in [DOMAIN children[p] -> Child]
    BY <1>3, <2>1
  <2> QED
    BY <2>1, <2>2, TableType DEF Kids
<1>5. /\ children' = [children EXCEPT ![p] = kids] /\ Drop(p)
      /\ UNCHANGED <<actors, alive, asleep, lines, restarts, given>>
  <2>1. children' = [children EXCEPT ![p][c].times = Recent(@, child.config.window)]
    BY DEF Resume
  <2>2. p \in DOMAIN children
    BY <1>1 DEF TypeInv
  <2> QED
    BY <2>1, <2>2 DEF Resume
<1> HIDE DEF kids, new, child
<1>6. asleep' = [asleep EXCEPT ![p] = asleep[p]]
  BY <1>1, <1>5 DEF TypeInv
<1>7. mailbox' \in Seq(Box) /\ Len(mailbox') = Len(actors)
  BY <1>1, <1>5, TailType DEF Drop, TypeInv
<1>8. now' \in Nat /\ restarts' \in Seq(Event) /\ given' \subseteq Nat
  BY <1>5 DEF TypeInv
<1>9. TypeInv' /\ Becomes(p, kids, asleep[p], lines[p]) /\ Started' = Started
  BY <1>1, <1>4, <1>5, <1>6, <1>7, <1>8, StayEffect
<1> QED
  BY <1>3, <1>5, <1>9 DEF kids, new, child

LEMMA WakeEffect ==
    ASSUME TypeInv, NEW p \in Started, Wake(p)
    PROVE  /\ TypeInv'
           /\ \E sl \in asleep[p] : Becomes(p, Put(children[p], NewId, sl.child), {}, lines[p])
           /\ Started' = Started \cup {NewId} /\ NewId \notin Started /\ NewId \in Nat
           /\ now' = now /\ restarts' = restarts /\ given' = given
<1>1. PICK sl \in asleep[p] : Spawn(p, Put(children[p], NewId, sl.child))
  BY DEF Wake
<1> DEFINE kids == Put(children[p], NewId, sl.child)
<1>2. /\ p \in 1 .. Len(actors) /\ children[p] \in Kids /\ sl \in Sleep
      /\ NewId \in Nat /\ {} \in Pending
  BY AtType DEF Pending, NewId, TypeInv
<1>3. sl.child \in Child
  BY <1>2 DEF Sleep
<1>4. kids \in Kids
  BY <1>2, <1>3, PutKid
<1> HIDE DEF kids
<1>5. /\ asleep' = Append([asleep EXCEPT ![p] = {}], {}) /\ lines' = Append(lines, <<>>)
      /\ mailbox' = Append(mailbox, <<>>) /\ UNCHANGED <<now, restarts, given>>
  BY DEF Wake
<1>6. /\ asleep' \in Seq(Pending) /\ Len(asleep') = Len(actors) + 1
      /\ asleep'[Len(actors) + 1] = {}
      /\ \A q \in Started : asleep'[q] = IF q = p THEN {} ELSE asleep[q]
  BY <1>5, SleepEnds
<1>7. mailbox' \in Seq(Box) /\ Len(mailbox') = Len(actors) + 1
  <2>1. mailbox \in Seq(Box) /\ Len(mailbox) = Len(actors) /\ <<>> \in Box
    BY DEF TypeInv, Box
  <2> QED
    BY <1>5, <2>1, Longer
<1>8. now' \in Nat /\ restarts' \in Seq(Event) /\ given' \subseteq Nat
  BY <1>5 DEF TypeInv
<1>9. Spawn(p, kids)
  BY <1>1 DEF kids
<1>10. /\ TypeInv' /\ Becomes(p, kids, {}, lines[p])
       /\ Started' = Started \cup {NewId} /\ NewId \notin Started /\ NewId \in Nat
  BY <1>2, <1>4, <1>5, <1>6, <1>7, <1>8, <1>9, SpawnEffect
<1> QED
  BY <1>5, <1>10 DEF kids

-----------------------------------------------------------------------------
(***************************************************************************)
(* What a tracker must remember for the budget to hold: every restart of   *)
(* its line in the last window has a place of its own in times.            *)
(***************************************************************************)
Within(child, rs, t, j) ==
    rs[j].line = child.line /\ t - rs[j].at <= child.config.window

Remembers(child, rs, t) ==
    \E g \in [1 .. Len(child.times) -> Nat] :
        \A j \in DOMAIN rs : Within(child, rs, t, j) =>
            \E m \in 1 .. Len(child.times) : g[m] = j /\ child.times[m] = rs[j].at

\* Time makes the window move on.
LEMMA RemembersLater ==
    ASSUME NEW child \in Child, NEW rs \in Seq(Event), NEW t \in Nat, NEW u \in Nat, t <= u,
           Remembers(child, rs, t)
    PROVE  Remembers(child, rs, u)
<1>1. PICK g \in [1 .. Len(child.times) -> Nat] :
          \A j \in DOMAIN rs : Within(child, rs, t, j) =>
              \E m \in 1 .. Len(child.times) : g[m] = j /\ child.times[m] = rs[j].at
  BY DEF Remembers
<1>2. child.config.window \in Nat
  BY ConfigAssumption DEF Child
<1>3. \A j \in DOMAIN rs : rs[j].at \in Nat
  <2>1. \A j \in DOMAIN rs : rs[j] \in Event
    OBVIOUS
  <2> QED
    BY <2>1 DEF Event
<1>4. \A j \in DOMAIN rs : Within(child, rs, u, j) => Within(child, rs, t, j)
  BY <1>2, <1>3 DEF Within
<1> QED
  BY <1>1, <1>4 DEF Remembers

\* A restart of another line is none of its business.
LEMMA RemembersOther ==
    ASSUME NEW child \in Child, NEW rs \in Seq(Event), NEW t \in Nat, NEW e \in Event,
           e.line # child.line, Remembers(child, rs, t)
    PROVE  Remembers(child, Append(rs, e), t)
<1>1. PICK g \in [1 .. Len(child.times) -> Nat] :
          \A j \in DOMAIN rs : Within(child, rs, t, j) =>
              \E m \in 1 .. Len(child.times) : g[m] = j /\ child.times[m] = rs[j].at
  BY DEF Remembers
<1> DEFINE new == Append(rs, e)
<1>2. /\ DOMAIN rs = 1 .. Len(rs) /\ DOMAIN new = 1 .. Len(rs) + 1
      /\ new[Len(rs) + 1] = e /\ \A j \in DOMAIN rs : new[j] = rs[j]
  OBVIOUS
<1> HIDE DEF new
<1>3. ASSUME NEW j \in DOMAIN new, Within(child, new, t, j)
      PROVE  \E m \in 1 .. Len(child.times) : g[m] = j /\ child.times[m] = new[j].at
  <2>1. j # Len(rs) + 1
    BY <1>2, <1>3 DEF Within
  <2>2. j \in DOMAIN rs /\ new[j] = rs[j]
    BY <1>2, <2>1
  <2>3. Within(child, rs, t, j)
    BY <1>3, <2>2 DEF Within
  <2> QED
    BY <1>1, <2>2, <2>3
<1>4. Remembers(child, new, t)
  BY <1>3 DEF Remembers
<1> QED
  BY <1>4 DEF new

\* A child that was never restarted remembers everything.
LEMMA RemembersNone ==
    ASSUME NEW child \in Child, NEW rs \in Seq(Event), NEW t \in Nat,
           \A j \in DOMAIN rs : rs[j].line # child.line
    PROVE  Remembers(child, rs, t)
<1>1. [m \in 1 .. Len(child.times) |-> 0] \in [1 .. Len(child.times) -> Nat]
  OBVIOUS
<1>2. \A j \in DOMAIN rs : ~Within(child, rs, t, j)
  BY DEF Within
<1> QED
  BY <1>1, <1>2 DEF Remembers

\* Recent forgets nothing of the window.
LEMMA RecentRemembers ==
    ASSUME now \in Nat, NEW child \in Child, NEW rs \in Seq(Event),
           Remembers(child, rs, now)
    PROVE  LET kept == Recent(child.times, child.config.window) IN
           \E h \in [1 .. Len(kept) -> Nat] :
              \A j \in DOMAIN rs : Within(child, rs, now, j) =>
                  \E m \in 1 .. Len(kept) : h[m] = j /\ kept[m] = rs[j].at
<1> DEFINE times == child.times
           window == child.config.window
           kept == Recent(times, window)
<1>1. times \in Seq(Nat) /\ window \in Nat
  BY ConfigAssumption DEF Child
<1>2. PICK g \in [1 .. Len(times) -> Nat] :
          \A j \in DOMAIN rs : Within(child, rs, now, j) =>
              \E m \in 1 .. Len(times) : g[m] = j /\ times[m] = rs[j].at
  BY DEF Remembers
<1>3. PICK k \in 1 .. Len(times) + 1 :
          /\ kept \in Seq(Nat)
          /\ Len(kept) = Len(times) + 1 - k
          /\ \A m \in k .. Len(times) : kept[m + 1 - k] = times[m]
          /\ \A m \in 1 .. Len(times) : now - times[m] <= window => k <= m
  BY <1>1, RecentFacts
<1>4. \A j \in DOMAIN rs : Within(child, rs, now, j) => now - rs[j].at <= window
  BY DEF Within
<1> HIDE DEF kept, times, window
<1> DEFINE h == [m \in 1 .. Len(kept) |-> g[m + k - 1]]
<1>5. \A m \in 1 .. Len(kept) : m + k - 1 \in 1 .. Len(times)
  BY <1>1, <1>3
<1>6. h \in [1 .. Len(kept) -> Nat]
  BY <1>2, <1>5
<1>7. ASSUME NEW j \in DOMAIN rs, Within(child, rs, now, j)
      PROVE  \E m \in 1 .. Len(kept) : h[m] = j /\ kept[m] = rs[j].at
  <2>1. PICK m \in 1 .. Len(times) : g[m] = j /\ times[m] = rs[j].at
    BY <1>2, <1>7
  <2>2. now - times[m] <= window
    BY <1>4, <1>7, <2>1
  <2>3. k <= m
    BY <1>3, <2>2
  <2>4. m + 1 - k \in 1 .. Len(kept) /\ (m + 1 - k) + k - 1 = m /\ m \in k .. Len(times)
    BY <1>1, <1>3, <2>3
  <2>5. h[m + 1 - k] = g[m] /\ kept[m + 1 - k] = times[m]
    BY <1>3, <2>4
  <2> QED
    BY <2>1, <2>4, <2>5
<1> QED
  BY <1>6, <1>7 DEF kept, times, window

\* So a resumed child remembers what it did, and a restarted one its new
\* restart too.
LEMMA RemembersResumed ==
    ASSUME now \in Nat, NEW child \in Child, NEW rs \in Seq(Event), NEW new \in Child,
           Remembers(child, rs, now),
           new.line = child.line, new.config = child.config,
           new.times = Recent(child.times, child.config.window)
    PROVE  Remembers(new, rs, now)
<1>1. \A j \in DOMAIN rs : Within(new, rs, now, j) => Within(child, rs, now, j)
  BY DEF Within
<1> DEFINE kept == Recent(child.times, child.config.window)
<1>2. PICK h \in [1 .. Len(kept) -> Nat] :
          \A j \in DOMAIN rs : Within(child, rs, now, j) =>
              \E m \in 1 .. Len(kept) : h[m] = j /\ kept[m] = rs[j].at
  BY RecentRemembers
<1> HIDE DEF kept
<1>3. new.times = kept
  BY DEF kept
<1> QED
  BY <1>1, <1>2, <1>3 DEF Remembers

LEMMA RemembersRestarted ==
    ASSUME now \in Nat, NEW child \in Child, NEW rs \in Seq(Event),
           Remembers(child, rs, now)
    PROVE  Remembers(Restarted(child), Append(rs, [line |-> child.line, at |-> now]), now)
<1> DEFINE kept == Recent(child.times, child.config.window)
           next == Restarted(child)
           e == [line |-> child.line, at |-> now]
           new == Append(rs, e)
<1>1. /\ next \in Child /\ next.line = child.line /\ next.config = child.config
      /\ next.times = Append(kept, now) /\ kept \in Seq(Nat)
  BY RestartedType
<1>2. PICK h \in [1 .. Len(kept) -> Nat] :
          \A j \in DOMAIN rs : Within(child, rs, now, j) =>
              \E m \in 1 .. Len(kept) : h[m] = j /\ kept[m] = rs[j].at
  BY RecentRemembers
<1>3. e \in Event /\ e.at = now
  BY DEF Event, Child
<1> HIDE DEF kept, next, e
<1>4. /\ DOMAIN rs = 1 .. Len(rs) /\ DOMAIN new = 1 .. Len(rs) + 1 /\ Len(rs) \in Nat
      /\ new[Len(rs) + 1] = e /\ \A j \in DOMAIN rs : new[j] = rs[j]
  BY <1>3
<1>5. /\ Len(next.times) = Len(kept) + 1 /\ next.times[Len(kept) + 1] = now
      /\ \A m \in 1 .. Len(kept) : next.times[m] = kept[m]
      /\ Len(kept) \in Nat
  BY <1>1
<1> HIDE DEF new
<1> DEFINE g == [m \in 1 .. Len(kept) + 1 |-> IF m = Len(kept) + 1 THEN Len(rs) + 1 ELSE h[m]]
<1>6. g \in [1 .. Len(next.times) -> Nat]
  BY <1>2, <1>4, <1>5
<1>7. ASSUME NEW j \in DOMAIN new, Within(next, new, now, j)
      PROVE  \E m \in 1 .. Len(next.times) : g[m] = j /\ next.times[m] = new[j].at
  <2>1. CASE j = Len(rs) + 1
    <3>1. Len(kept) + 1 \in 1 .. Len(next.times) /\ g[Len(kept) + 1] = j
      BY <1>5, <2>1
    <3>2. new[j].at = now
      BY <1>3, <1>4, <2>1
    <3> QED
      BY <1>5, <3>1, <3>2
  <2>2. CASE j # Len(rs) + 1
    <3>1. j \in DOMAIN rs /\ new[j] = rs[j]
      BY <1>4, <2>2
    <3>2. Within(child, rs, now, j)
      BY <1>1, <1>7, <3>1 DEF Within
    <3>3. PICK m \in 1 .. Len(kept) : h[m] = j /\ kept[m] = rs[j].at
      BY <1>2, <3>1, <3>2
    <3>4. m \in 1 .. Len(next.times) /\ g[m] = h[m] /\ next.times[m] = kept[m]
      BY <1>5
    <3> QED
      BY <3>1, <3>3, <3>4
  <2> QED
    BY <2>1, <2>2
<1>8. Remembers(next, new, now)
  BY <1>6, <1>7 DEF Remembers
<1> QED
  BY <1>8 DEF next, new, e

\* And a restart allowed by the tracker is within the budget.
LEMMA WithinBudget ==
    ASSUME now \in Nat, NEW child \in Child, NEW rs \in Seq(Event),
           Remembers(child, rs, now),
           Len(Recent(child.times, child.config.window)) < child.config.max_restarts
    PROVE  LET near == {j \in 1 .. Len(rs) : Within(child, rs, now, j)} IN
           /\ IsFiniteSet(near \cup {Len(rs) + 1})
           /\ Cardinality(near \cup {Len(rs) + 1}) <= child.config.max_restarts
<1> DEFINE kept == Recent(child.times, child.config.window)
           near == {j \in 1 .. Len(rs) : Within(child, rs, now, j)}
           I == 1 .. Len(kept)
<1>1. PICK h \in [I -> Nat] :
          \A j \in DOMAIN rs : Within(child, rs, now, j) =>
              \E m \in I : h[m] = j /\ kept[m] = rs[j].at
  BY RecentRemembers
<1>2. kept \in Seq(Nat) /\ Len(kept) \in Nat /\ child.config.max_restarts \in Nat
  BY RestartedType, ConfigAssumption DEF Child
<1> HIDE DEF kept
<1>3. IsFiniteSet(I) /\ Cardinality(I) = Len(kept)
  <2>1. 1 \in Int /\ Len(kept) \in Int
    BY <1>2
  <2>2. /\ IsFiniteSet(1 .. Len(kept))
        /\ Cardinality(1 .. Len(kept)) = IF 1 > Len(kept) THEN 0 ELSE Len(kept) - 1 + 1
    BY <2>1, FS_Interval, Zenon
  <2> QED
    BY <1>2, <2>2
<1> DEFINE image == {h[m] : m \in I}
<1>4. IsFiniteSet(image) /\ Cardinality(image) <= Cardinality(I)
  <2>1. h \in Surjection(I, image)
    BY DEF Surjection
  <2> HIDE DEF image, I
  <2> QED
    BY <1>3, <2>1, FS_Surjection
<1>5. near \subseteq image
  BY <1>1
<1>6. /\ IsFiniteSet(near) /\ Cardinality(near) <= Cardinality(image)
      /\ Cardinality(near) \in Nat /\ Cardinality(image) \in Nat
  BY <1>4, <1>5, FS_Subset, FS_CardinalityType
<1>7. Len(rs) + 1 \notin near
  OBVIOUS
<1> HIDE DEF near
<1>8. /\ IsFiniteSet(near \cup {Len(rs) + 1})
      /\ Cardinality(near \cup {Len(rs) + 1}) = Cardinality(near) + 1
  BY <1>6, <1>7, FS_AddElement
<1>9. Len(kept) < child.config.max_restarts
  BY DEF kept
<1> QED
  BY <1>2, <1>3, <1>4, <1>6, <1>8, <1>9 DEF near

-----------------------------------------------------------------------------
(***************************************************************************)
(* The inductive invariant.  Named: a line belongs to the actor that       *)
(* started it, trackers carry the configuration of their line, and a       *)
(* supervisor sleeps before one restart at a time.  Tracked: every tracker *)
(* remembers the restarts of its line, which is what the budget rests on.  *)
(***************************************************************************)
Owns(owned, child) == child.line \in DOMAIN owned /\ child.config = owned[child.line]

Named ==
    /\ \A p \in Started :
        /\ DOMAIN children[p] \subseteq Started
        /\ \A l \in DOMAIN lines[p] : l \in Started /\ actors[l].parent = p
        /\ \A c \in DOMAIN children[p] : Owns(lines[p], children[p][c])
        /\ \A sl \in asleep[p] : Owns(lines[p], sl.child) /\ asleep[p] = {sl}
    /\ given \subseteq Started
    /\ \A j \in DOMAIN restarts : \E p \in Started : restarts[j].line \in DOMAIN lines[p]

Tracked ==
    \A p \in Started :
        /\ \A c \in DOMAIN children[p] : Remembers(children[p][c], restarts, now)
        /\ \A sl \in asleep[p] : Remembers(sl.child, restarts, now)

IInv == TypeInv /\ Named /\ SupervisedOnce /\ Tracked /\ RestartBudget

\* The budget of one restart.
BudgetAt(i) ==
    LET line == restarts[i].line
        cfg == lines[actors[line].parent][line]
        near == {j \in 1 .. i : /\ restarts[j].line = line
                                /\ restarts[i].at - restarts[j].at <= cfg.window}
    IN Cardinality(near) <= cfg.max_restarts

LEMMA BudgetParts == RestartBudget <=> \A i \in DOMAIN restarts : BudgetAt(i)
  BY DEF RestartBudget, BudgetAt

LEMMA OnceParts ==
    SupervisedOnce <=> \A p \in Started : OnceAt(children[p], asleep[p], lines[p], given)
  BY DEF SupervisedOnce, OnceAt

\* A new line is a new actor; the old ones keep their configurations.
Extends(owned, old) ==
    /\ \A l \in DOMAIN old : l \in DOMAIN owned /\ owned[l] = old[l]
    /\ \A l \in DOMAIN owned : l \in DOMAIN old \/ (l = NewId /\ l \in Started' \ Started)

LEMMA NamedKept ==
    ASSUME TypeInv, Named, NEW p \in Started, NEW kids, NEW pending, NEW owned,
           Becomes(p, kids, pending, owned), Extends(owned, lines[p]),
           DOMAIN kids \subseteq Started',
           \A c \in DOMAIN kids : Owns(owned, kids[c]),
           \A sl \in pending : Owns(owned, sl.child) /\ pending = {sl},
           given' \subseteq Started',
           \A j \in DOMAIN restarts' : \E q \in Started : restarts'[j].line \in DOMAIN lines[q]
    PROVE  Named'
<1>1. p \in Started' /\ Started \subseteq Started'
  BY DEF Becomes
<1>2. ASSUME NEW q \in Started'
      PROVE  /\ DOMAIN children'[q] \subseteq Started'
             /\ \A l \in DOMAIN lines'[q] : l \in Started' /\ actors'[l].parent = q
             /\ \A c \in DOMAIN children'[q] : Owns(lines'[q], children'[q][c])
             /\ \A sl \in asleep'[q] : Owns(lines'[q], sl.child) /\ asleep'[q] = {sl}
  <2>1. CASE q = p
    <3>1. children'[q] = kids /\ asleep'[q] = pending /\ lines'[q] = owned
      BY <2>1 DEF Becomes
    <3>2. \A l \in DOMAIN owned : l \in Started' /\ actors'[l].parent = q
      <4> SUFFICES ASSUME NEW l \in DOMAIN owned PROVE l \in Started' /\ actors'[l].parent = q
        OBVIOUS
      <4>1. CASE l \in DOMAIN lines[p]
        BY <1>1, <2>1, <4>1 DEF Named, Becomes
      <4>2. CASE l = NewId /\ l \in Started' \ Started
        BY <2>1, <4>2 DEF Becomes
      <4> QED
        BY <4>1, <4>2 DEF Extends
    <3> QED
      BY <3>1, <3>2
  <2>2. CASE q # p /\ q \in Started
    <3>1. children'[q] = children[q] /\ asleep'[q] = asleep[q] /\ lines'[q] = lines[q]
      BY <2>2 DEF Becomes
    <3>2. \A l \in DOMAIN lines[q] : l \in Started' /\ actors'[l].parent = q
      BY <1>1, <2>2 DEF Named, Becomes
    <3> QED
      BY <1>1, <2>2, <3>1, <3>2 DEF Named
  <2>3. CASE q \notin Started
    <3>1. children'[q] = <<>> /\ asleep'[q] = {} /\ lines'[q] = <<>>
      BY <2>3 DEF Becomes
    <3>2. DOMAIN <<>> = {}
      OBVIOUS
    <3> QED
      BY <3>1, <3>2
  <2> QED
    BY <2>1, <2>2, <2>3
<1>3. \A q \in Started : DOMAIN lines[q] \subseteq DOMAIN lines'[q]
  BY DEF Becomes, Extends
<1>4. \A j \in DOMAIN restarts' : \E q \in Started' : restarts'[j].line \in DOMAIN lines'[q]
  BY <1>1, <1>3
<1> QED
  BY <1>2, <1>4 DEF Named

LEMMA OnceKept ==
    ASSUME Named, SupervisedOnce, NEW p \in Started, NEW kids, NEW pending, NEW owned,
           Becomes(p, kids, pending, owned),
           given' = given \/ \E l \in DOMAIN lines[p] : given' = given \cup {l},
           OnceAt(kids, pending, owned, given')
    PROVE  SupervisedOnce'
<1>1. ASSUME NEW q \in Started'
      PROVE  OnceAt(children'[q], asleep'[q], lines'[q], given')
  <2>1. CASE q = p
    BY <2>1 DEF Becomes
  <2>2. CASE q # p /\ q \in Started
    <3>1. children'[q] = children[q] /\ asleep'[q] = asleep[q] /\ lines'[q] = lines[q]
      BY <2>2 DEF Becomes
    <3>2. OnceAt(children[q], asleep[q], lines[q], given)
      BY <2>2, OnceParts
    <3>3. CASE given' = given
      BY <3>1, <3>2, <3>3
    <3>4. ASSUME NEW l \in DOMAIN lines[p], given' = given \cup {l}
          PROVE  OnceAt(children'[q], asleep'[q], lines'[q], given')
      <4>1. l \notin DOMAIN lines[q]
        BY <2>2 DEF Named
      <4> QED
        BY <3>1, <3>2, <3>4, <4>1, OnceElsewhere
    <3> QED
      BY <3>3, <3>4
  <2>3. CASE q \notin Started
    BY <2>3, OnceEmpty DEF Becomes
  <2> QED
    BY <2>1, <2>2, <2>3
<1>2. \A q \in Started' : OnceAt(children[q], asleep[q], lines[q], given)'
  BY <1>1 DEF OnceAt
<1> QED
  BY <1>2 DEF SupervisedOnce, OnceAt

LEMMA TrackedKept ==
    ASSUME TypeInv, Named, Tracked, NEW p \in Started, NEW kids, NEW pending, NEW owned,
           Becomes(p, kids, pending, owned), now' = now,
           \/ restarts' = restarts
           \/ \E e \in Event : restarts' = Append(restarts, e) /\ e.line \in DOMAIN lines[p],
           \A c \in DOMAIN kids : Remembers(kids[c], restarts', now),
           \A sl \in pending : Remembers(sl.child, restarts', now)
    PROVE  Tracked'
<1>0. restarts \in Seq(Event) /\ now \in Nat
  BY DEF TypeInv
<1>1. ASSUME NEW q \in Started, q # p, NEW child \in Child, Owns(lines[q], child),
             Remembers(child, restarts, now)
      PROVE  Remembers(child, restarts', now)
  <2>1. ASSUME NEW e \in Event, restarts' = Append(restarts, e), e.line \in DOMAIN lines[p]
        PROVE  Remembers(child, restarts', now)
    <3>1. e.line # child.line
      BY <1>1, <2>1 DEF Named, Owns
    <3> QED
      BY <1>0, <1>1, <2>1, <3>1, RemembersOther
  <2> QED
    BY <1>1, <2>1
<1>2. ASSUME NEW q \in Started'
      PROVE  /\ \A c \in DOMAIN children'[q] : Remembers(children'[q][c], restarts', now)
             /\ \A sl \in asleep'[q] : Remembers(sl.child, restarts', now)
  <2>1. CASE q = p
    BY <2>1 DEF Becomes
  <2>2. CASE q # p /\ q \in Started
    <3>1. children'[q] = children[q] /\ asleep'[q] = asleep[q]
      BY <2>2 DEF Becomes
    <3>2. ASSUME NEW c \in DOMAIN children[q]
          PROVE  Remembers(children[q][c], restarts', now)
      <4>1. children[q][c] \in Child
        BY <2>2, AtType
      <4>2. Owns(lines[q], children[q][c]) /\ Remembers(children[q][c], restarts, now)
        BY <2>2 DEF Named, Tracked
      <4> QED
        BY <1>1, <2>2, <4>1, <4>2
    <3>3. ASSUME NEW sl \in asleep[q] PROVE Remembers(sl.child, restarts', now)
      <4>1. sl \in Sleep
        BY <2>2, AtType
      <4>2. sl.child \in Child
        BY <4>1 DEF Sleep
      <4>3. Owns(lines[q], sl.child) /\ Remembers(sl.child, restarts, now)
        BY <2>2 DEF Named, Tracked
      <4> QED
        BY <1>1, <2>2, <4>2, <4>3
    <3> QED
      BY <3>1, <3>2, <3>3
  <2>3. CASE q \notin Started
    <3>1. children'[q] = <<>> /\ asleep'[q] = {} /\ DOMAIN <<>> = {}
      BY <2>3 DEF Becomes
    <3> QED
      BY <3>1
  <2> QED
    BY <2>1, <2>2, <2>3
<1> QED
  BY <1>2 DEF Tracked

\* The budget of the restarts made so far does not change.
LEMMA BudgetKept ==
    ASSUME TypeInv, Named, RestartBudget, NEW p \in Started, NEW kids, NEW pending, NEW owned,
           Becomes(p, kids, pending, owned), Extends(owned, lines[p]),
           NEW i \in DOMAIN restarts,
           \A j \in DOMAIN restarts : restarts'[j] = restarts[j]
    PROVE  BudgetAt(i)'
<1> DEFINE l == restarts[i].line
<1>1. PICK q \in Started : l \in DOMAIN lines[q]
  BY DEF Named
<1>2. l \in Started /\ actors[l].parent = q
  BY <1>1 DEF Named
<1>3. actors'[l] = actors[l]
  BY <1>2 DEF Becomes
<1>4. lines'[q][l] = lines[q][l]
  BY <1>1 DEF Becomes, Extends
<1>5. 1 .. i \subseteq DOMAIN restarts
  BY DEF TypeInv
<1>6. BudgetAt(i)
  BY BudgetParts
<1> DEFINE cfg == lines[q][l]
           near == {j \in 1 .. i : restarts[j].line = l
                                    /\ restarts[i].at - restarts[j].at <= cfg.window}
           next == {j \in 1 .. i : restarts'[j].line = l
                                    /\ restarts'[i].at - restarts'[j].at <= cfg.window}
<1>7. Cardinality(near) <= cfg.max_restarts
  BY <1>2, <1>6 DEF BudgetAt
<1>8. next = near
  BY <1>5
<1>9. restarts'[i].line = l /\ lines'[actors'[l].parent][l] = cfg
  BY <1>2, <1>3, <1>4
<1>10. Cardinality(next) <= cfg.max_restarts
  BY <1>7, <1>8
<1> QED
  BY <1>9, <1>10 DEF BudgetAt

\* The children of an actor are finitely many.
LEMMA FiniteKids ==
    ASSUME TypeInv, Named, NEW p \in Started
    PROVE  IsFiniteSet(DOMAIN children[p]) /\ DOMAIN children[p] \subseteq Started
<1>1. DOMAIN children[p] \subseteq 1 .. Len(actors) /\ Started = 1 .. Len(actors)
  BY AtType DEF Named
<1>2. 1 \in Int /\ Len(actors) \in Int
  BY DEF TypeInv
<1>3. IsFiniteSet(1 .. Len(actors))
  BY <1>2, FS_Interval, Zenon
<1> QED
  BY <1>1, <1>3, FS_Subset

\* A restart that the decision allows is within the budget.
LEMMA BudgetNew ==
    ASSUME TypeInv, Named, Tracked, NEW p \in Started, NEW kids, NEW pending,
           Becomes(p, kids, pending, lines[p]),
           NEW c \in DOMAIN children[p],
           Decision(children[p][c]) \in {"Restart", "RestartAfter"},
           restarts' = Append(restarts, [line |-> children[p][c].line, at |-> now]),
           NEW n, n = Len(restarts) + 1
    PROVE  BudgetAt(n)'
<1> DEFINE child == children[p][c]
           l == child.line
           cfg == child.config
           e == [line |-> l, at |-> now]
           near == {j \in 1 .. Len(restarts) : Within(child, restarts, now, j)}
<1>1. /\ child \in Child /\ now \in Nat /\ restarts \in Seq(Event)
      /\ cfg \in Configs /\ cfg.window \in Nat /\ cfg.max_restarts \in Nat
      /\ Recent(child.times, cfg.window) \in Seq(Nat)
  <2>1. child \in Child /\ now \in Nat /\ restarts \in Seq(Event)
    BY AtType DEF TypeInv
  <2>2. cfg \in Configs /\ Recent(child.times, cfg.window) \in Seq(Nat)
    BY <2>1, RestartedType
  <2> QED
    BY <2>1, <2>2, ConfigAssumption
<1>2. Len(Recent(child.times, cfg.window)) < cfg.max_restarts
  <2>1. ~(Len(Recent(child.times, cfg.window)) >= cfg.max_restarts)
    BY DEF Decision
  <2> HIDE DEF cfg, child
  <2> QED
    BY <1>1, <2>1
<1>3. Remembers(child, restarts, now)
  BY DEF Tracked
<1>4. Cardinality(near \cup {n}) <= cfg.max_restarts
  <2> HIDE DEF child
  <2> QED
    BY <1>1, <1>2, <1>3, WithinBudget
<1>5. l \in DOMAIN lines[p] /\ cfg = lines[p][l]
  BY DEF Named, Owns
<1>6. l \in Started /\ actors'[l] = actors[l] /\ actors[l].parent = p /\ lines'[p] = lines[p]
  BY <1>5 DEF Named, Becomes
<1>7. /\ n \in Nat /\ restarts'[n] = e /\ e.line = l /\ e.at = now
      /\ \A j \in 1 .. Len(restarts) : restarts'[j] = restarts[j]
  BY <1>1
<1> DEFINE next == {j \in 1 .. n : restarts'[j].line = l
                                    /\ restarts'[n].at - restarts'[j].at <= cfg.window}
<1> HIDE DEF child, cfg, l, e
<1>8. next = near \cup {n}
  <2>1. \A j \in 1 .. n : j \in next <=> j \in near \cup {n}
    <3> SUFFICES ASSUME NEW j \in 1 .. n PROVE j \in next <=> j \in near \cup {n}
      OBVIOUS
    <3>1. CASE j = n
      <4>1. restarts'[n].at - restarts'[n].at <= cfg.window
        BY <1>1, <1>7
      <4> QED
        BY <1>7, <3>1, <4>1
    <3>2. CASE j # n
      <4>1. j \in 1 .. Len(restarts) /\ restarts'[j] = restarts[j]
        BY <1>1, <1>7, <3>2
      <4> QED
        BY <1>7, <3>2, <4>1 DEF Within, cfg, l
    <3> QED
      BY <3>1, <3>2
  <2>2. next \subseteq 1 .. n /\ near \cup {n} \subseteq 1 .. n
    BY <1>1, <1>7
  <2> QED
    BY <2>1, <2>2
<1>9. Cardinality(next) <= cfg.max_restarts
  BY <1>4, <1>8
<1>10. restarts'[n].line = l /\ lines'[actors'[l].parent][l] = cfg
  BY <1>5, <1>6, <1>7
<1> QED
  BY <1>9, <1>10 DEF BudgetAt

\* spawn_supervised_child keeps the invariant.
LEMMA StartStep ==
    ASSUME IInv, NEW p \in Started, NEW cfg \in Configs, SpawnSupervised(p, cfg)
    PROVE  IInv'
<1> DEFINE ch == NewChild(NewId, cfg)
           kids == Put(children[p], NewId, ch)
           owned == Put(lines[p], NewId, cfg)
<1> USE DEF IInv
<1>1. /\ TypeInv' /\ Becomes(p, kids, asleep[p], owned)
      /\ NewId \in Nat /\ NewId \notin Started /\ Started' = Started \cup {NewId}
  BY StartEffect
<1>2. /\ asleep[p] = {} /\ now' = now /\ restarts' = restarts /\ given' = given
      /\ MaxChildren > 0 => Cardinality(DOMAIN children[p]) < MaxChildren
  BY DEF SpawnSupervised, Acts
<1>3. children[p] \in Kids /\ lines[p] \in Owned
  BY AtType
<1>4. IsFiniteSet(DOMAIN children[p]) /\ DOMAIN children[p] \subseteq Started
  BY FiniteKids
<1>5. DOMAIN lines[p] \subseteq Started /\ given \subseteq Started
  BY DEF Named
<1>6. ch.line = NewId /\ ch.config = cfg /\ ch \in Child
  BY <1>1 DEF NewChild, Child
<1>7. /\ DOMAIN kids = DOMAIN children[p] \cup {NewId} /\ kids[NewId] = ch
      /\ \A x \in DOMAIN children[p] : x # NewId => kids[x] = children[p][x]
  BY DEF Put
<1>8. /\ DOMAIN owned = DOMAIN lines[p] \cup {NewId} /\ owned[NewId] = cfg
      /\ \A x \in DOMAIN lines[p] : x # NewId => owned[x] = lines[p][x]
  BY DEF Put
<1>9. OnceAt(kids, asleep[p], owned, given)
  <2>1. OnceAt(children[p], {}, lines[p], given)
    BY <1>2, OnceParts
  <2> QED
    BY <1>1, <1>2, <1>3, <1>4, <1>5, <2>1, OnceStarted
<1> HIDE DEF kids, owned, ch
<1>10. Extends(owned, lines[p])
  BY <1>1, <1>5, <1>8 DEF Extends
<1>11. \A c \in DOMAIN kids : Owns(owned, kids[c])
  <2>1. \A c \in DOMAIN children[p] : Owns(lines[p], children[p][c])
    BY DEF Named
  <2>2. Owns(owned, ch)
    BY <1>6, <1>8 DEF Owns
  <2>3. \A c \in DOMAIN children[p] : Owns(owned, kids[c])
    <3> SUFFICES ASSUME NEW c \in DOMAIN children[p] PROVE Owns(owned, kids[c])
      OBVIOUS
    <3>1. kids[c] = children[p][c]
      BY <1>1, <1>4, <1>7
    <3> QED
      BY <2>1, <3>1, <1>10 DEF Owns, Extends
  <2> QED
    BY <1>7, <2>2, <2>3
<1>12. Named'
  <2>1. DOMAIN kids \subseteq Started' /\ given' \subseteq Started'
    BY <1>1, <1>2, <1>4, <1>5, <1>7
  <2>2. \A j \in DOMAIN restarts' : \E q \in Started : restarts'[j].line \in DOMAIN lines[q]
    BY <1>2 DEF Named
  <2> QED
    BY <1>1, <1>2, <1>10, <1>11, <2>1, <2>2, NamedKept
<1>13. SupervisedOnce'
  BY <1>1, <1>2, <1>9, OnceKept
<1>14. Tracked'
  <2>1. \A j \in DOMAIN restarts : restarts[j].line # ch.line
    BY <1>1, <1>6 DEF Named
  <2>2. Remembers(ch, restarts, now)
    BY <1>6, <2>1, RemembersNone DEF TypeInv
  <2>3. \A c \in DOMAIN children[p] : Remembers(children[p][c], restarts, now)
    BY DEF Tracked
  <2>4. \A c \in DOMAIN kids : Remembers(kids[c], restarts', now)
    BY <1>1, <1>2, <1>4, <1>7, <2>2, <2>3
  <2> QED
    BY <1>1, <1>2, <2>4, TrackedKept
<1>15. RestartBudget'
  <2>1. \A i \in DOMAIN restarts' : BudgetAt(i)'
    BY <1>1, <1>2, <1>10, BudgetKept
  <2> QED
    BY <2>1 DEF RestartBudget, BudgetAt
<1> QED
  BY <1>1, <1>12, <1>13, <1>14, <1>15

\* Lines that stay as they are.
LEMMA ExtendsSelf == ASSUME NEW p PROVE Extends(lines[p], lines[p])
  BY DEF Extends

\* Stop and Escalate keep the invariant.
LEMMA GivenUpStep ==
    ASSUME IInv, NEW p \in Started, Acts(p), mailbox[p] # <<>>, now' = now,
           NEW c \in DOMAIN children[p],
           Stop(p, c, children[p][c]) \/ Escalate(p, c, children[p][c])
    PROVE  IInv'
<1> DEFINE kids == Without(c, children[p])
<1> USE DEF IInv
<1>1. /\ TypeInv' /\ Becomes(p, kids, asleep[p], lines[p]) /\ Started' = Started
      /\ restarts' = restarts /\ given' = given \cup {children[p][c].line}
  BY GivenUpEffect
<1>2. asleep[p] = {}
  BY DEF Acts
<1>3. children[p] \in Kids /\ IsFiniteSet(DOMAIN children[p]) /\ DOMAIN children[p] \subseteq Started
  BY AtType, FiniteKids
<1>4. /\ DOMAIN kids = DOMAIN children[p] \ {c}
      /\ \A x \in DOMAIN children[p] : x # c => kids[x] = children[p][x]
  BY DEF Without, Restrict
<1>5. children[p][c].line \in DOMAIN lines[p]
  BY DEF Named, Owns
<1>6. OnceAt(kids, asleep[p], lines[p], given')
  <2>1. OnceAt(children[p], {}, lines[p], given)
    BY <1>2, OnceParts
  <2> QED
    BY <1>1, <1>2, <1>3, <2>1, OnceGivenUp
<1> HIDE DEF kids
<1>7. Extends(lines[p], lines[p])
  BY ExtendsSelf
<1>8. Named'
  <2>1. /\ DOMAIN kids \subseteq Started' /\ given' \subseteq Started'
        /\ \A d \in DOMAIN kids : Owns(lines[p], kids[d])
    BY <1>1, <1>3, <1>4, <1>5 DEF Named
  <2>2. \A j \in DOMAIN restarts' : \E q \in Started : restarts'[j].line \in DOMAIN lines[q]
    BY <1>1 DEF Named
  <2> QED
    BY <1>1, <1>2, <1>7, <2>1, <2>2, NamedKept
<1>9. SupervisedOnce'
  BY <1>1, <1>5, <1>6, OnceKept
<1>10. Tracked'
  <2>1. \A d \in DOMAIN kids : Remembers(kids[d], restarts', now)
    BY <1>1, <1>4 DEF Tracked
  <2> QED
    BY <1>1, <1>2, <2>1, TrackedKept
<1>11. RestartBudget'
  <2>1. \A i \in DOMAIN restarts' : BudgetAt(i)'
    BY <1>1, <1>7, BudgetKept
  <2> QED
    BY <2>1 DEF RestartBudget, BudgetAt
<1> QED
  BY <1>1, <1>8, <1>9, <1>10, <1>11

\* Resume keeps the invariant.
LEMMA ResumeStep ==
    ASSUME IInv, NEW p \in Started, Acts(p), mailbox[p] # <<>>, now' = now,
           NEW c \in DOMAIN children[p], Resume(p, c, children[p][c])
    PROVE  IInv'
<1> DEFINE child == children[p][c]
           new == [child EXCEPT !.times = Recent(@, child.config.window)]
           kids == [children[p] EXCEPT ![c] = new]
<1> USE DEF IInv
<1>1. /\ TypeInv' /\ Becomes(p, kids, asleep[p], lines[p])
      /\ new \in Child /\ new.line = child.line /\ new.config = child.config
      /\ new.times = Recent(child.times, child.config.window)
      /\ Started' = Started /\ restarts' = restarts /\ given' = given
  BY ResumeEffect
<1>2. asleep[p] = {}
  BY DEF Acts
<1>3. DOMAIN children[p] \subseteq Started /\ child \in Child
  BY AtType, FiniteKids
<1> HIDE DEF new
<1>4. DOMAIN kids = DOMAIN children[p]
      /\ \A x \in DOMAIN children[p] : kids[x] = IF x = c THEN new ELSE children[p][x]
  <2>1. children[p] \in Kids
    BY AtType
  <2>2. children[p] \in [DOMAIN children[p] -> Child]
    BY <2>1, TableType DEF Kids
  <2> QED
    BY <2>2
<1>5. OnceAt(kids, asleep[p], lines[p], given')
  <2>1. OnceAt(children[p], {}, lines[p], given)
    BY <1>2, OnceParts
  <2>2. \A x \in DOMAIN children[p] : kids[x].line = children[p][x].line
    BY <1>1, <1>4
  <2> HIDE DEF kids
  <2> QED
    BY <1>1, <1>2, <1>4, <2>1, <2>2, OnceResumed
<1> HIDE DEF kids
<1>6. Extends(lines[p], lines[p])
  BY ExtendsSelf
<1>7. Named'
  <2>1. \A d \in DOMAIN kids : Owns(lines[p], kids[d])
    <3>1. \A d \in DOMAIN children[p] : Owns(lines[p], children[p][d])
      BY DEF Named
    <3>2. Owns(lines[p], new)
      BY <1>1, <3>1 DEF Owns
    <3> QED
      BY <1>4, <3>1, <3>2
  <2>2. \A j \in DOMAIN restarts' : \E q \in Started : restarts'[j].line \in DOMAIN lines[q]
    BY <1>1 DEF Named
  <2>3. given' \subseteq Started' /\ DOMAIN kids \subseteq Started'
    BY <1>1, <1>3, <1>4 DEF Named
  <2> QED
    BY <1>1, <1>2, <1>6, <2>1, <2>2, <2>3, NamedKept
<1>8. SupervisedOnce'
  BY <1>1, <1>5, OnceKept
<1>9. Tracked'
  <2>1. \A d \in DOMAIN children[p] : Remembers(children[p][d], restarts, now)
    BY DEF Tracked
  <2>2. Remembers(new, restarts, now)
    <3>1. Remembers(child, restarts, now)
      BY <2>1
    <3> HIDE DEF child
    <3> QED
      BY <1>1, <1>3, <3>1, RemembersResumed DEF TypeInv
  <2>3. \A d \in DOMAIN kids : Remembers(kids[d], restarts', now)
    BY <1>1, <1>4, <2>1, <2>2
  <2> QED
    BY <1>1, <1>2, <2>3, TrackedKept
<1>10. RestartBudget'
  <2>1. \A i \in DOMAIN restarts' : BudgetAt(i)'
    BY <1>1, <1>6, BudgetKept
  <2> QED
    BY <2>1 DEF RestartBudget, BudgetAt
<1> QED
  BY <1>1, <1>7, <1>8, <1>9, <1>10

\* The end of a sleep keeps the invariant.
LEMMA WakeStep ==
    ASSUME IInv, NEW p \in Started, Wake(p)
    PROVE  IInv'
<1> USE DEF IInv
<1>1. PICK sl \in asleep[p] : Becomes(p, Put(children[p], NewId, sl.child), {}, lines[p])
  BY WakeEffect
<1> DEFINE kids == Put(children[p], NewId, sl.child)
<1>2. /\ TypeInv' /\ Becomes(p, kids, {}, lines[p])
      /\ Started' = Started \cup {NewId} /\ NewId \notin Started /\ NewId \in Nat
      /\ now' = now /\ restarts' = restarts /\ given' = given
  BY <1>1, WakeEffect
<1>3. /\ children[p] \in Kids /\ IsFiniteSet(DOMAIN children[p])
      /\ DOMAIN children[p] \subseteq Started /\ sl \in Sleep
  BY AtType, FiniteKids
<1>4. asleep[p] = {sl} /\ Owns(lines[p], sl.child) /\ Remembers(sl.child, restarts, now)
  BY DEF Named, Tracked
<1>5. /\ DOMAIN kids = DOMAIN children[p] \cup {NewId} /\ kids[NewId] = sl.child
      /\ \A x \in DOMAIN children[p] : kids[x] = children[p][x]
  BY <1>2, <1>3 DEF Put
<1>6. OnceAt(kids, {}, lines[p], given')
  <2>1. OnceAt(children[p], {sl}, lines[p], given)
    BY <1>4, OnceParts
  <2> QED
    BY <1>2, <1>3, <2>1, OnceBack
<1> HIDE DEF kids
<1>7. Extends(lines[p], lines[p])
  BY ExtendsSelf
<1>8. Named'
  <2>1. \A d \in DOMAIN kids : Owns(lines[p], kids[d])
    BY <1>4, <1>5 DEF Named
  <2>2. \A j \in DOMAIN restarts' : \E q \in Started : restarts'[j].line \in DOMAIN lines[q]
    BY <1>2 DEF Named
  <2>3. given' \subseteq Started' /\ DOMAIN kids \subseteq Started'
    BY <1>2, <1>3, <1>5 DEF Named
  <2> QED
    BY <1>2, <1>7, <2>1, <2>2, <2>3, NamedKept
<1>9. SupervisedOnce'
  BY <1>2, <1>6, OnceKept
<1>10. Tracked'
  <2>1. \A d \in DOMAIN kids : Remembers(kids[d], restarts', now)
    BY <1>2, <1>4, <1>5 DEF Tracked
  <2> QED
    BY <1>2, <2>1, TrackedKept
<1>11. RestartBudget'
  <2>1. \A i \in DOMAIN restarts' : BudgetAt(i)'
    BY <1>2, <1>7, BudgetKept
  <2> QED
    BY <2>1 DEF RestartBudget, BudgetAt
<1> QED
  BY <1>2, <1>8, <1>9, <1>10, <1>11

\* What the trackers of p remember after a restart of child c.
LEMMA RestartMemory ==
    ASSUME IInv, NEW p \in Started, NEW c \in DOMAIN children[p]
    PROVE  LET child == children[p][c]
               e == [line |-> child.line, at |-> now]
           IN /\ e \in Event /\ e.line \in DOMAIN lines[p]
              /\ Restarted(child) \in Child /\ Restarted(child).line = child.line
              /\ Owns(lines[p], Restarted(child))
              /\ Remembers(Restarted(child), Append(restarts, e), now)
              /\ \A d \in DOMAIN children[p] \ {c} :
                    Remembers(children[p][d], Append(restarts, e), now)
<1> DEFINE child == children[p][c]
           e == [line |-> child.line, at |-> now]
<1> USE DEF IInv
<1>1. /\ child \in Child /\ now \in Nat /\ restarts \in Seq(Event)
      /\ \A d \in DOMAIN children[p] : children[p][d] \in Child
  BY AtType DEF TypeInv
<1>2. e \in Event /\ e.line = child.line
  BY <1>1 DEF Event, Child
<1>3. /\ Restarted(child) \in Child /\ Restarted(child).line = child.line
      /\ Restarted(child).config = child.config
  BY <1>1, RestartedType
<1>4. Owns(lines[p], child) /\ Remembers(child, restarts, now)
  BY DEF Named, Tracked
<1>5. Owns(lines[p], Restarted(child))
  BY <1>3, <1>4 DEF Owns
<1>6. Remembers(Restarted(child), Append(restarts, e), now)
  <2> HIDE DEF child
  <2> QED
    BY <1>1, <1>4, RemembersRestarted
<1>7. \A d \in DOMAIN children[p] \ {c} : children[p][d].line # child.line
  <2>1. OnceAt(children[p], asleep[p], lines[p], given)
    BY OnceParts
  <2> QED
    BY <2>1 DEF OnceAt
<1>8. \A d \in DOMAIN children[p] : Remembers(children[p][d], restarts, now)
  BY DEF Tracked
<1>9. \A d \in DOMAIN children[p] \ {c} :
          Remembers(children[p][d], Append(restarts, e), now)
  <2> HIDE DEF e, child
  <2> QED
    BY <1>1, <1>2, <1>7, <1>8, RemembersOther
<1>10. e.line \in DOMAIN lines[p]
  BY <1>2, <1>4 DEF Owns
<1> QED
  BY <1>2, <1>3, <1>5, <1>6, <1>9, <1>10

\* The history grows by a restart of a known line, within the budget.
LEMMA RestartHistory ==
    ASSUME IInv, NEW p \in Started, NEW c \in DOMAIN children[p], NEW kids, NEW pending,
           Becomes(p, kids, pending, lines[p]),
           Decision(children[p][c]) \in {"Restart", "RestartAfter"},
           restarts' = Append(restarts, [line |-> children[p][c].line, at |-> now])
    PROVE  /\ RestartBudget'
           /\ \A j \in DOMAIN restarts' : \E q \in Started : restarts'[j].line \in DOMAIN lines[q]
<1> DEFINE e == [line |-> children[p][c].line, at |-> now]
<1> USE DEF IInv
<1>1. e \in Event /\ e.line \in DOMAIN lines[p]
  BY RestartMemory
<1>2. restarts \in Seq(Event) /\ restarts' = Append(restarts, e)
  BY DEF TypeInv
<1>3. Extends(lines[p], lines[p])
  BY ExtendsSelf
<1> HIDE DEF e
<1>4. /\ DOMAIN restarts' = DOMAIN restarts \cup {Len(restarts) + 1}
      /\ restarts'[Len(restarts) + 1] = e
      /\ \A j \in DOMAIN restarts : restarts'[j] = restarts[j]
  BY <1>1, <1>2
<1>5. \A i \in DOMAIN restarts : BudgetAt(i)'
  BY <1>3, <1>4, BudgetKept
<1>6. \A n : n = Len(restarts) + 1 => BudgetAt(n)'
  BY BudgetNew
<1>7. \A i \in DOMAIN restarts' : BudgetAt(i)'
  BY <1>4, <1>5, <1>6
<1>8. RestartBudget'
  BY <1>7 DEF RestartBudget, BudgetAt
<1>9. \A j \in DOMAIN restarts' : \E q \in Started : restarts'[j].line \in DOMAIN lines[q]
  BY <1>1, <1>4 DEF Named
<1> QED
  BY <1>8, <1>9

\* Restart keeps the invariant.
LEMMA RestartStep ==
    ASSUME IInv, NEW p \in Started, Acts(p), mailbox[p] # <<>>, now' = now,
           NEW c \in DOMAIN children[p], Decision(children[p][c]) = "Restart",
           Restart(p, c, children[p][c])
    PROVE  IInv'
<1> DEFINE child == children[p][c]
           e == [line |-> child.line, at |-> now]
           next == Restarted(child)
           kids == Put(Without(c, children[p]), NewId, next)
<1> USE DEF IInv
<1>1. /\ TypeInv' /\ Becomes(p, kids, asleep[p], lines[p])
      /\ Started' = Started \cup {NewId} /\ NewId \notin Started /\ NewId \in Nat
      /\ restarts' = Append(restarts, e) /\ given' = given
  BY RestartEffect
<1>2. /\ e \in Event /\ e.line \in DOMAIN lines[p]
      /\ next \in Child /\ next.line = child.line
      /\ Owns(lines[p], next)
      /\ Remembers(next, Append(restarts, e), now)
      /\ \A d \in DOMAIN children[p] \ {c} : Remembers(children[p][d], Append(restarts, e), now)
  BY RestartMemory
<1>3. /\ RestartBudget'
      /\ \A j \in DOMAIN restarts' : \E q \in Started : restarts'[j].line \in DOMAIN lines[q]
  BY <1>1, RestartHistory
<1>4. asleep[p] = {}
  BY DEF Acts
<1>5. children[p] \in Kids /\ IsFiniteSet(DOMAIN children[p]) /\ DOMAIN children[p] \subseteq Started
  BY AtType, FiniteKids
<1> HIDE DEF next
<1>6. /\ DOMAIN kids = (DOMAIN children[p] \ {c}) \cup {NewId} /\ kids[NewId] = next
      /\ \A x \in DOMAIN children[p] \ {c} : kids[x] = children[p][x]
  BY <1>1, <1>5 DEF Put, Without, Restrict
<1>7. OnceAt(kids, asleep[p], lines[p], given')
  <2>1. OnceAt(children[p], {}, lines[p], given)
    BY <1>4, OnceParts
  <2>2. NewId \notin DOMAIN children[p]
    BY <1>1, <1>5
  <2> QED
    BY <1>1, <1>2, <1>4, <1>5, <2>1, <2>2, OnceReplaced
<1> HIDE DEF kids, e
<1>8. Named'
  <2>1. \A d \in DOMAIN kids : Owns(lines[p], kids[d])
    BY <1>2, <1>6 DEF Named
  <2>2. given' \subseteq Started' /\ DOMAIN kids \subseteq Started'
    BY <1>1, <1>5, <1>6 DEF Named
  <2>3. Extends(lines[p], lines[p])
    BY ExtendsSelf
  <2> QED
    BY <1>1, <1>3, <1>4, <2>1, <2>2, <2>3, NamedKept
<1>9. SupervisedOnce'
  BY <1>1, <1>7, OnceKept
<1>10. Tracked'
  <2>1. \A d \in DOMAIN kids : Remembers(kids[d], restarts', now)
    BY <1>1, <1>2, <1>6
  <2> QED
    BY <1>1, <1>2, <1>4, <2>1, TrackedKept
<1> QED
  BY <1>1, <1>3, <1>8, <1>9, <1>10

\* RestartAfter keeps the invariant.
LEMMA PutOffStep ==
    ASSUME IInv, NEW p \in Started, Acts(p), mailbox[p] # <<>>, now' = now,
           NEW c \in DOMAIN children[p], Decision(children[p][c]) = "RestartAfter",
           RestartAfter(p, c, children[p][c])
    PROVE  IInv'
<1> DEFINE child == children[p][c]
           e == [line |-> child.line, at |-> now]
           sl == BeginSleep(child)
           kids == Without(c, children[p])
<1> USE DEF IInv
<1>1. /\ TypeInv' /\ sl \in Sleep /\ Becomes(p, kids, {sl}, lines[p]) /\ Started' = Started
      /\ restarts' = Append(restarts, e) /\ given' = given
  BY PutOffEffect
<1>2. /\ e \in Event /\ e.line \in DOMAIN lines[p]
      /\ Restarted(child).line = child.line /\ Owns(lines[p], Restarted(child))
      /\ Remembers(Restarted(child), Append(restarts, e), now)
      /\ \A d \in DOMAIN children[p] \ {c} : Remembers(children[p][d], Append(restarts, e), now)
  BY RestartMemory
<1>3. /\ RestartBudget'
      /\ \A j \in DOMAIN restarts' : \E q \in Started : restarts'[j].line \in DOMAIN lines[q]
  BY <1>1, RestartHistory
<1>4. asleep[p] = {}
  BY DEF Acts
<1>5. children[p] \in Kids /\ IsFiniteSet(DOMAIN children[p]) /\ DOMAIN children[p] \subseteq Started
  BY AtType, FiniteKids
<1>6. sl.child = Restarted(child)
  BY DEF BeginSleep
<1> HIDE DEF sl
<1>7. /\ DOMAIN kids = DOMAIN children[p] \ {c}
      /\ \A x \in DOMAIN children[p] \ {c} : kids[x] = children[p][x]
  BY DEF Without, Restrict
<1>8. OnceAt(kids, {sl}, lines[p], given')
  <2>1. OnceAt(children[p], {}, lines[p], given)
    BY <1>4, OnceParts
  <2>2. sl.child.line = children[p][c].line
    BY <1>2, <1>6
  <2> QED
    BY <1>1, <1>5, <2>1, <2>2, OncePutOff
<1> HIDE DEF kids, e
<1>9. Named'
  <2>1. \A d \in DOMAIN kids : Owns(lines[p], kids[d])
    BY <1>7 DEF Named
  <2>2. given' \subseteq Started' /\ DOMAIN kids \subseteq Started'
    BY <1>1, <1>5, <1>7 DEF Named
  <2>3. Extends(lines[p], lines[p])
    BY ExtendsSelf
  <2>4. \A s \in {sl} : Owns(lines[p], s.child) /\ {sl} = {s}
    BY <1>2, <1>6
  <2> QED
    BY <1>1, <1>3, <2>1, <2>2, <2>3, <2>4, NamedKept
<1>10. SupervisedOnce'
  BY <1>1, <1>8, OnceKept
<1>11. Tracked'
  <2>1. \A d \in DOMAIN kids : Remembers(kids[d], restarts', now)
    BY <1>1, <1>2, <1>7
  <2>2. \A s \in {sl} : Remembers(s.child, restarts', now)
    BY <1>1, <1>2, <1>6
  <2> QED
    BY <1>1, <1>2, <2>1, <2>2, TrackedKept
<1> QED
  BY <1>1, <1>3, <1>9, <1>10, <1>11

\* The steps that leave supervision alone keep the invariant.
LEMMA QuietStep ==
    ASSUME IInv, TypeInv', Unaffected, now' \in Nat, now <= now'
    PROVE  IInv'
<1> USE DEF IInv
<1>1. Started' = Started
  BY DEF Unaffected, Started
<1>2. Named' /\ SupervisedOnce' /\ RestartBudget'
  <2>1. UNCHANGED <<actors, children, asleep, lines, restarts, given>>
    BY DEF Unaffected
  <2>2. Named'
    BY <1>1, <2>1 DEF Named
  <2>3. SupervisedOnce'
    <3>1. \A p \in Started : OnceAt(children[p], asleep[p], lines[p], given)
      BY OnceParts
    <3>2. \A p \in Started' : OnceAt(children'[p], asleep'[p], lines'[p], given')
      BY <1>1, <2>1, <3>1
    <3> QED
      BY <3>2 DEF SupervisedOnce, OnceAt
  <2>4. RestartBudget'
    <3>1. \A i \in DOMAIN restarts : BudgetAt(i)
      BY BudgetParts
    <3>2. \A i \in DOMAIN restarts' : BudgetAt(i)'
      BY <2>1, <3>1 DEF BudgetAt
    <3> QED
      BY <3>2 DEF RestartBudget, BudgetAt
  <2> QED
    BY <2>2, <2>3, <2>4
<1>3. Tracked'
  <2>0. restarts \in Seq(Event) /\ now \in Nat /\ restarts' = restarts
    BY DEF TypeInv, Unaffected
  <2>1. ASSUME NEW p \in Started, NEW c \in DOMAIN children[p]
        PROVE  Remembers(children[p][c], restarts, now')
    <3>1. children[p][c] \in Child /\ Remembers(children[p][c], restarts, now)
      BY AtType DEF Tracked
    <3> QED
      BY <2>0, <3>1, RemembersLater
  <2>2. ASSUME NEW p \in Started, NEW sl \in asleep[p]
        PROVE  Remembers(sl.child, restarts, now')
    <3>1. sl \in Sleep /\ Remembers(sl.child, restarts, now)
      BY AtType DEF Tracked
    <3>2. sl.child \in Child
      BY <3>1 DEF Sleep
    <3> QED
      BY <2>0, <3>1, <3>2, RemembersLater
  <2> QED
    BY <1>1, <2>0, <2>1, <2>2 DEF Unaffected, Tracked
<1> QED
  BY <1>2, <1>3

LEMMA Inductive == Spec => []IInv
<1>1. Init => IInv
  <2> SUFFICES ASSUME Init PROVE IInv
    OBVIOUS
  <2>1. /\ Started = {1} /\ children[1] = <<>> /\ asleep[1] = {} /\ lines[1] = <<>>
        /\ restarts = <<>> /\ given = {} /\ DOMAIN <<>> = {}
    BY DEF Init, Started
  <2>2. TypeInv
    <3>1. <<>> \in Kids /\ <<>> \in Owned
      BY EmptyTable DEF Kids, Owned
    <3>2. <<>> \in Box /\ {} \in Pending /\ [level |-> 0, parent |-> 0] \in Actor
      BY DEF Box, Pending, Actor
    <3> QED
      BY <2>1, <3>1, <3>2 DEF TypeInv, Init, Root
  <2>3. Named
    BY <2>1 DEF Named
  <2>4. SupervisedOnce
    BY <2>1, OnceParts, OnceEmpty
  <2>5. Tracked /\ RestartBudget
    BY <2>1 DEF Tracked, RestartBudget
  <2> QED
    BY <2>2, <2>3, <2>4, <2>5 DEF IInv
<1>2. IInv /\ [Next]_vars => IInv'
  <2> SUFFICES ASSUME IInv, [Next]_vars PROVE IInv'
    OBVIOUS
  <2>0. TypeInv /\ now \in Nat
    BY DEF IInv, TypeInv
  <2>1. CASE UNCHANGED vars
    <3>1. Unaffected /\ now' = now
      BY <2>1 DEF vars, Unaffected
    <3>2. TypeInv'
      BY <2>0, <2>1 DEF vars, TypeInv, Started
    <3> QED
      BY <2>0, <3>1, <3>2, QuietStep
  <2>2. ASSUME NEW p \in Started, NEW cfg \in Configs, SpawnSupervised(p, cfg) PROVE IInv'
    BY <2>2, StartStep
  <2>3. ASSUME NEW p \in Started, Report(p) \/ Exit(p) \/ Tick PROVE IInv'
    BY <2>0, <2>3, QuietEffect, QuietStep
  <2>4. ASSUME NEW p \in Started, HandleFailure(p) PROVE IInv'
    <3> DEFINE c == Head(mailbox[p])
    <3>1. Acts(p) /\ mailbox[p] # <<>> /\ now' = now
      BY <2>4 DEF HandleFailure
    <3>2. CASE Unknown(p, c)
      BY <2>0, <3>1, <3>2, QuietEffect, QuietStep
    <3>3. CASE c \in DOMAIN children[p] /\ ~Unknown(p, c)
      <4>1. \/ Stop(p, c, children[p][c]) \/ Escalate(p, c, children[p][c])
            \/ Decision(children[p][c]) = "Restart" /\ Restart(p, c, children[p][c])
            \/ Decision(children[p][c]) = "RestartAfter" /\ RestartAfter(p, c, children[p][c])
            \/ Resume(p, c, children[p][c])
        BY <2>4, <3>3 DEF HandleFailure
      <4> HIDE DEF c
      <4> QED
        BY <3>1, <3>3, <4>1, GivenUpStep, RestartStep, PutOffStep, ResumeStep
    <3> QED
      BY <2>4, <3>2, <3>3 DEF HandleFailure
  <2>5. ASSUME NEW p \in Started, Wake(p) PROVE IInv'
    BY <2>5, WakeStep
  <2>6. CASE Tick
    <3>1. Unaffected /\ now' \in Nat /\ now <= now'
      BY <2>0, <2>6 DEF Tick, Unaffected
    <3>2. TypeInv'
      BY <2>0, <2>6 DEF Tick, TypeInv, Started
    <3> QED
      BY <3>1, <3>2, QuietStep
  <2> QED
    BY <2>1, <2>2, <2>3, <2>4, <2>5, <2>6 DEF Next
<1> QED
  BY <1>1, <1>2, PTL DEF Spec

\* The variables keep their types.
THEOREM TypeCorrect == Spec => []TypeInv
<1>1. IInv => TypeInv
  BY DEF IInv
<1> QED
  BY <1>1, Inductive, PTL

\* No child is restarted more than max_restarts times in a window.
THEOREM BudgetCorrect == Spec => []RestartBudget
<1>1. IInv => RestartBudget
  BY DEF IInv
<1> QED
  BY <1>1, Inductive, PTL

\* Each line an actor started is supervised once, waits for its restart, or
\* was given up; and there are never more than max_children.
THEOREM OnceCorrect == Spec => []SupervisedOnce
<1>1. IInv => SupervisedOnce
  BY DEF IInv
<1> QED
  BY <1>1, Inductive, PTL

=============================================================================
