------------------------- MODULE StoreEngineProofs -------------------------
(***************************************************************************)
(* Proofs about StoreEngine, for any number of objects and any values:     *)
(* type correctness; that the engine implements DurableStore as long as    *)
(* its log is never compacted, whatever crashes come between its steps,    *)
(* and as long as it never crashes, whatever compactions come; and that in *)
(* both cases all() lists what get finds.                                  *)
(***************************************************************************)
EXTENDS StoreEngine, FiniteSetTheorems, WellFoundedInduction, TLAPS

(***************************************************************************)
(* Least and greatest numbers.                                             *)
(***************************************************************************)

\* A nonempty set of naturals has a least member.
LEMMA LeastExists ==
    ASSUME NEW T \in SUBSET Nat, T # {}
    PROVE  \E m \in T : \A k \in T : m <= k
<1>1. PICK m \in T : \A k \in T : ~(<<k, m>> \in OpToRel(<, Nat))
  BY NatLessThanWellFounded, WFMin, Zenon
<1>2. \A k \in T : ~(k < m)
  BY <1>1 DEF OpToRel
<1> QED
  BY <1>2

\* A nonempty set of positions has a last one.
LEMMA LastFacts ==
    ASSUME NEW n \in Nat, NEW ks \in SUBSET (1..n), ks # {}
    PROVE  /\ Last(ks) \in ks
           /\ \A j \in ks : j <= Last(ks)
<1> DEFINE T == {n - k : k \in ks}
<1>1. T \in SUBSET Nat /\ T # {}
  <2>1. \A k \in ks : k \in 1..n /\ n - k \in Nat
    OBVIOUS
  <2>2. PICK k \in ks : TRUE
    OBVIOUS
  <2>3. n - k \in T
    OBVIOUS
  <2> QED
    BY <2>1, <2>3
<1>2. PICK m \in T : \A t \in T : m <= t
  BY <1>1, LeastExists
<1>3. PICK k \in ks : m = n - k
  OBVIOUS
<1>4. \A j \in ks : j <= k
  <2> SUFFICES ASSUME NEW j \in ks PROVE j <= k
    OBVIOUS
  <2>1. n - j \in T
    OBVIOUS
  <2> QED
    BY <1>2, <1>3, <2>1
<1> QED
  BY <1>4 DEF Last

(***************************************************************************)
(* What replay makes of a log, and of a log that grew by one entry.        *)
(***************************************************************************)
AllOps == {"Insert", "Update", "Delete"}

\* The positions of object i from its last Insert on, and those of them that
\* give its value.
From(w, i) == {k \in At(w, i, AllOps) : k >= Last(At(w, i, {"Insert"}))}
Giving(w, i) == {k \in From(w, i) : w[k].op # "Delete"}

LEMMA RebuiltAs ==
    ASSUME NEW w, NEW i
    PROVE  Rebuilt(w, i) =
             IF At(w, i, {"Insert"}) = {} THEN NoObject
             ELSE [val |-> w[Last(Giving(w, i))].val,
                   st  |-> IF \E k \in From(w, i) : w[k].op = "Delete" THEN "gone" ELSE "live"]
BY DEF Rebuilt, From, Giving, AllOps

LEMMA AtFacts ==
    ASSUME NEW w \in Seq(LogEntry), NEW i, At(w, i, {"Insert"}) # {}
    PROVE  /\ Last(At(w, i, {"Insert"})) \in At(w, i, {"Insert"})
           /\ Last(At(w, i, {"Insert"})) \in 1..Len(w)
           /\ Last(At(w, i, {"Insert"})) \in Giving(w, i)
           /\ From(w, i) \in SUBSET (1..Len(w)) /\ Giving(w, i) \in SUBSET (1..Len(w))
           /\ Last(Giving(w, i)) \in Giving(w, i)
           /\ \A k \in Giving(w, i) : k <= Last(Giving(w, i))
<1>1. Len(w) \in Nat /\ At(w, i, {"Insert"}) \in SUBSET (1..Len(w))
  BY DEF At
<1>2. Last(At(w, i, {"Insert"})) \in At(w, i, {"Insert"})
  BY <1>1, LastFacts
<1>3. From(w, i) \in SUBSET (1..Len(w)) /\ Giving(w, i) \in SUBSET (1..Len(w))
  BY DEF From, Giving, At
<1>4. Last(At(w, i, {"Insert"})) \in Giving(w, i)
  BY <1>1, <1>2 DEF From, Giving, At, AllOps
<1>5. Last(Giving(w, i)) \in Giving(w, i) /\ \A k \in Giving(w, i) : k <= Last(Giving(w, i))
  BY <1>1, <1>3, <1>4, LastFacts
<1> QED
  BY <1>1, <1>2, <1>3, <1>4, <1>5

\* An object is rebuilt exactly when the log has its Insert.
LEMMA RebuiltType ==
    ASSUME NEW w \in Seq(LogEntry), NEW i
    PROVE  /\ Rebuilt(w, i) \in Objects \cup {NoObject}
           /\ Rebuilt(w, i) = NoObject <=> At(w, i, {"Insert"}) = {}
<1>1. CASE At(w, i, {"Insert"}) = {}
  BY <1>1, RebuiltAs
<1>2. CASE At(w, i, {"Insert"}) # {}
  <2>1. Last(Giving(w, i)) \in 1..Len(w)
    BY <1>2, AtFacts
  <2>2. w[Last(Giving(w, i))] \in LogEntry
    BY <2>1
  <2>3. w[Last(Giving(w, i))].val \in Vals
    BY <2>2 DEF LogEntry
  <2>4. Rebuilt(w, i) \in Objects
    BY <1>2, <2>3, RebuiltAs DEF Objects
  <2> QED
    BY <1>2, <2>4, StoreAssumption
<1> QED
  BY <1>1, <1>2

\* The positions of a longer log.
LEMMA AtAppend ==
    ASSUME NEW w \in Seq(LogEntry), NEW e \in LogEntry, NEW i, NEW ops
    PROVE  /\ Len(Append(w, e)) = Len(w) + 1
           /\ Append(w, e)[Len(w) + 1] = e
           /\ \A k \in 1..Len(w) : Append(w, e)[k] = w[k]
           /\ e.i = i /\ e.op \in ops => At(Append(w, e), i, ops) = At(w, i, ops) \cup {Len(w) + 1}
           /\ ~(e.i = i /\ e.op \in ops) => At(Append(w, e), i, ops) = At(w, i, ops)
<1>1. /\ Len(w) \in Nat
      /\ Len(Append(w, e)) = Len(w) + 1
      /\ Append(w, e)[Len(w) + 1] = e
      /\ \A k \in 1..Len(w) : Append(w, e)[k] = w[k]
  OBVIOUS
<1> QED
  BY <1>1 DEF At

\* The last position of a set that ends with n.
LEMMA LastIs ==
    ASSUME NEW n \in Nat, NEW ks \in SUBSET (1..n), n \in ks
    PROVE  Last(ks) = n
<1>1. Last(ks) \in ks /\ n <= Last(ks)
  BY LastFacts
<1>2. Last(ks) \in 1..n
  BY <1>1
<1> QED
  BY <1>1, <1>2

\* The entries of the other objects do not matter.
LEMMA RebuiltOther ==
    ASSUME NEW w \in Seq(LogEntry), NEW e \in LogEntry, NEW i, e.i # i
    PROVE  Rebuilt(Append(w, e), i) = Rebuilt(w, i)
<1> DEFINE w2 == Append(w, e)
<1>1. At(w2, i, {"Insert"}) = At(w, i, {"Insert"}) /\ At(w2, i, AllOps) = At(w, i, AllOps)
  BY AtAppend
<1>2. From(w2, i) = From(w, i)
  BY <1>1 DEF From
<1>3. CASE At(w, i, {"Insert"}) = {}
  BY <1>1, <1>3, RebuiltAs
<1>4. CASE At(w, i, {"Insert"}) # {}
  <2>1. \A k \in From(w, i) : w2[k] = w[k]
    BY <1>4, AtFacts, AtAppend
  <2>2. Giving(w2, i) = Giving(w, i)
    BY <1>2, <2>1 DEF Giving
  <2>3. Last(Giving(w, i)) \in From(w, i)
    BY <1>4, AtFacts DEF Giving
  <2>4. w2[Last(Giving(w2, i))].val = w[Last(Giving(w, i))].val
    BY <2>1, <2>2, <2>3
  <2>5. (\E k \in From(w2, i) : w2[k].op = "Delete") <=> (\E k \in From(w, i) : w[k].op = "Delete")
    BY <1>2, <2>1
  <2> HIDE DEF w2
  <2>6. Rebuilt(w2, i) = Rebuilt(w, i)
    BY <1>1, <1>4, <2>4, <2>5, RebuiltAs
  <2> QED
    BY <2>6 DEF w2
<1> QED
  BY <1>3, <1>4

\* An Insert starts the object anew.
LEMMA RebuiltInsert ==
    ASSUME NEW w \in Seq(LogEntry), NEW e \in LogEntry, e.op = "Insert"
    PROVE  Rebuilt(Append(w, e), e.i) = [val |-> e.val, st |-> "live"]
<1> DEFINE w2 == Append(w, e)
           n == Len(w) + 1
<1>1. /\ n \in Nat /\ n \in 1..n /\ Len(w2) = n /\ w2[n] = e
      /\ At(w2, e.i, {"Insert"}) = At(w, e.i, {"Insert"}) \cup {n}
      /\ At(w2, e.i, AllOps) = At(w, e.i, AllOps) \cup {n}
  <2>1. n \in Nat /\ n \in 1..n
    OBVIOUS
  <2>2. e.op \in {"Insert"} /\ e.op \in AllOps
    BY DEF AllOps
  <2>3. Len(w2) = n /\ w2[n] = e
    BY AtAppend
  <2>4. At(w2, e.i, {"Insert"}) = At(w, e.i, {"Insert"}) \cup {n}
    BY <2>2, AtAppend
  <2>5. At(w2, e.i, AllOps) = At(w, e.i, AllOps) \cup {n}
    BY <2>2, AtAppend
  <2> QED
    BY <2>1, <2>3, <2>4, <2>5
<1> HIDE DEF n, w2
<1>2. At(w2, e.i, {"Insert"}) \in SUBSET (1..n) /\ At(w2, e.i, AllOps) \in SUBSET (1..n)
  <2>1. \A ops : At(w2, e.i, ops) \in SUBSET (1..Len(w2))
    BY DEF At
  <2> QED
    BY <1>1, <2>1
<1>3. Last(At(w2, e.i, {"Insert"})) = n
  BY <1>1, <1>2, LastIs
<1>4. From(w2, e.i) = {n}
  BY <1>1, <1>2, <1>3 DEF From
<1>5. Giving(w2, e.i) = {n}
  BY <1>1, <1>4 DEF Giving
<1>6. Last(Giving(w2, e.i)) = n
  BY <1>1, <1>5, LastIs
<1>7. ~(\E k \in From(w2, e.i) : w2[k].op = "Delete")
  BY <1>1, <1>4
<1>8. At(w2, e.i, {"Insert"}) # {}
  BY <1>1
<1>9. Rebuilt(w2, e.i) = [val |-> e.val, st |-> "live"]
  BY <1>1, <1>6, <1>7, <1>8, RebuiltAs
<1> QED
  BY <1>9 DEF w2

\* An Update or a Delete of an object the log has inserted.
LEMMA RebuiltChange ==
    ASSUME NEW w \in Seq(LogEntry), NEW e \in LogEntry, e.op \in {"Update", "Delete"},
           Rebuilt(w, e.i) # NoObject
    PROVE  Rebuilt(Append(w, e), e.i) =
             [val |-> IF e.op = "Update" THEN e.val ELSE Rebuilt(w, e.i).val,
              st  |-> IF e.op = "Update" THEN Rebuilt(w, e.i).st ELSE "gone"]
<1> DEFINE w2 == Append(w, e)
           n == Len(w) + 1
           first == Last(At(w, e.i, {"Insert"}))
<1>1. /\ n \in Nat /\ Len(w2) = n /\ w2[n] = e
      /\ \A k \in 1..Len(w) : w2[k] = w[k]
      /\ At(w2, e.i, {"Insert"}) = At(w, e.i, {"Insert"})
      /\ At(w2, e.i, AllOps) = At(w, e.i, AllOps) \cup {n}
  BY AtAppend, SMTT(30) DEF AllOps
<1>2. At(w, e.i, {"Insert"}) # {}
  BY RebuiltType
<1>3. /\ first \in 1..Len(w)
      /\ From(w, e.i) \in SUBSET (1..Len(w)) /\ Giving(w, e.i) \in SUBSET (1..Len(w))
      /\ Last(Giving(w, e.i)) \in Giving(w, e.i)
  BY <1>2, AtFacts
<1>4. n \notin 1..Len(w) /\ first <= n /\ 1..Len(w) \subseteq 1..n /\ n \in 1..n
  BY <1>3
<1> HIDE DEF n, w2
<1>5. From(w2, e.i) = From(w, e.i) \cup {n}
  BY <1>1, <1>4 DEF From
<1>6. \A k \in From(w, e.i) : w2[k] = w[k]
  BY <1>1, <1>3
<1>7. Rebuilt(w, e.i) = [val |-> w[Last(Giving(w, e.i))].val,
                         st  |-> IF \E k \in From(w, e.i) : w[k].op = "Delete" THEN "gone" ELSE "live"]
  BY <1>2, RebuiltAs
<1>8. CASE e.op = "Update"
  <2>1. Giving(w2, e.i) = Giving(w, e.i) \cup {n}
    BY <1>1, <1>5, <1>6, <1>8 DEF Giving
  <2>2. Last(Giving(w2, e.i)) = n
    BY <1>1, <1>3, <1>4, <2>1, LastIs
  <2>3. (\E k \in From(w2, e.i) : w2[k].op = "Delete") <=> (\E k \in From(w, e.i) : w[k].op = "Delete")
    BY <1>1, <1>5, <1>6, <1>8
  <2>4. Rebuilt(w2, e.i) = [val |-> e.val, st |-> Rebuilt(w, e.i).st]
    BY <1>1, <1>2, <1>7, <2>2, <2>3, RebuiltAs
  <2> QED
    BY <1>8, <2>4 DEF w2
<1>9. CASE e.op = "Delete"
  <2>1. Giving(w2, e.i) = Giving(w, e.i)
    BY <1>1, <1>5, <1>6, <1>9 DEF Giving
  <2>2. w2[Last(Giving(w2, e.i))].val = w[Last(Giving(w, e.i))].val
    BY <1>3, <1>6, <2>1 DEF Giving
  <2>3. \E k \in From(w2, e.i) : w2[k].op = "Delete"
    BY <1>1, <1>5, <1>9
  <2>4. Rebuilt(w2, e.i) = [val |-> Rebuilt(w, e.i).val, st |-> "gone"]
    BY <1>1, <1>2, <1>7, <2>2, <2>3, RebuiltAs
  <2> QED
    BY <1>9, <2>4 DEF w2
<1> QED
  BY <1>8, <1>9

(***************************************************************************)
(* The next free index, and the log that compaction writes.                *)
(***************************************************************************)

\* Sets of indexes are finite and no larger than MaxIndex.
LEMMA IndexSets ==
    ASSUME NEW S \in SUBSET Indexes
    PROVE  /\ IsFiniteSet(S) /\ Cardinality(S) \in Nat
           /\ Cardinality(S) <= MaxIndex
<1>1. MaxIndex \in Nat
  BY StoreAssumption
<1>2. IsFiniteSet(1..MaxIndex) /\ Cardinality(1..MaxIndex) = IF 1 > MaxIndex THEN 0 ELSE MaxIndex - 1 + 1
  BY <1>1, FS_Interval
<1>3. IsFiniteSet(S) /\ Cardinality(S) <= Cardinality(1..MaxIndex)
  BY <1>2, FS_Subset DEF Indexes
<1>4. Cardinality(S) \in Nat
  BY <1>3, FS_CardinalityType
<1> QED
  BY <1>1, <1>2, <1>3, <1>4

\* next_index is beyond every Insert of the log.
LEMMA NextFreeFacts ==
    ASSUME NEW w \in Seq(LogEntry), NEW entries
    PROVE  /\ NextFree(w, entries) \in 1..(MaxIndex + 1)
           /\ \A i \in Indexes : At(w, i, {"Insert"}) # {} => i < NextFree(w, entries)
<1> DEFINE used == {i \in Indexes : entries[i] # NoEntry}
<1>1. MaxIndex \in Nat
  BY StoreAssumption
<1>2. Cardinality(used) \in Nat /\ Cardinality(used) <= MaxIndex
  BY IndexSets
<1>3. MaxIndex + 1 \in Beyond(w, entries)
  BY <1>1, <1>2 DEF Beyond, Indexes
<1>4. Beyond(w, entries) \in SUBSET Nat /\ Beyond(w, entries) # {}
  <2>1. Beyond(w, entries) \in SUBSET Nat
    BY <1>1 DEF Beyond
  <2> QED
    BY <1>3, <2>1
<1>5. \E n \in Beyond(w, entries) : \A m \in Beyond(w, entries) : n <= m
  BY <1>4, LeastExists
<1>6. NextFree(w, entries) \in Beyond(w, entries)
  BY <1>5 DEF NextFree
<1>7. NextFree(w, entries) \in 1..(MaxIndex + 1)
  BY <1>6 DEF Beyond
<1>8. ASSUME NEW i \in Indexes, At(w, i, {"Insert"}) # {} PROVE i < NextFree(w, entries)
  BY <1>1, <1>6, <1>7, <1>8 DEF Beyond, Indexes
<1> QED
  BY <1>7, <1>8

\* A finite set of naturals has a member of every rank.
LEMMA Ranks ==
    ASSUME NEW S \in SUBSET Indexes, NEW n \in 1..Cardinality(S)
    PROVE  \E s \in S : Cardinality({r \in S : r <= s}) = n
<1> DEFINE upto(s) == {r \in S : r <= s}
           T == {m \in 1..Cardinality(S) : \A s \in S : Cardinality(upto(s)) # m}
<1>1. /\ S \in SUBSET Nat /\ Cardinality(S) \in Nat /\ IsFiniteSet(S)
      /\ \A r \in S : r \in Nat
  BY IndexSets, StoreAssumption DEF Indexes
<1>2. \A s \in S : upto(s) \in SUBSET Indexes
  OBVIOUS
<1>3. SUFFICES ASSUME T # {} PROVE FALSE
  OBVIOUS
<1>4. PICK m \in T : \A k \in T : m <= k
  <2>1. T \in SUBSET Nat
    BY <1>1
  <2> HIDE DEF T
  <2> QED
    BY <1>3, <2>1, LeastExists
<1>5. m \in 1..Cardinality(S) /\ \A s \in S : Cardinality(upto(s)) # m
  OBVIOUS
<1>6. CASE m = 1
  <2>1. S # {}
    BY <1>1, <1>5, FS_EmptySet
  <2>2. PICK s \in S : \A r \in S : s <= r
    BY <1>1, <2>1, LeastExists
  <2>3. upto(s) = {s}
    <3>1. \A r \in S : r <= s <=> r = s
      BY <1>1, <2>2
    <3> QED
      BY <3>1
  <2>4. Cardinality(upto(s)) = 1
    BY <2>3, FS_Singleton
  <2> QED
    BY <1>5, <1>6, <2>4
<1>7. CASE m # 1
  <2>1. m - 1 \in 1..Cardinality(S) /\ ~(m <= m - 1)
    BY <1>1, <1>5, <1>7
  <2>2. m - 1 \notin T
    BY <1>4, <2>1
  <2>3. PICK s \in S : Cardinality(upto(s)) = m - 1
    BY <2>1, <2>2
  <2> DEFINE more == {r \in S : r > s}
  <2>4. more # {}
    <3> SUFFICES ASSUME more = {} PROVE FALSE
      OBVIOUS
    <3>1. \A r \in S : r <= s
      BY <1>1
    <3>2. upto(s) = S
      BY <3>1
    <3> QED
      BY <1>1, <1>5, <2>3, <3>2
  <2>5. more \in SUBSET Nat
    BY <1>1
  <2>6. PICK t \in more : \A r \in more : t <= r
    BY <2>4, <2>5, LeastExists
  <2>7. upto(t) = upto(s) \cup {t} /\ t \notin upto(s)
    <3>1. t \in S /\ t > s /\ \A r \in S : r > s => t <= r
      BY <2>6
    <3>2. ~(t <= s) /\ \A r \in S : r <= t <=> (r <= s \/ r = t)
      BY <1>1, <3>1
    <3> QED
      BY <3>1, <3>2
  <2>8. IsFiniteSet(upto(s))
    BY <1>2, IndexSets
  <2>9. Cardinality(upto(t)) = m - 1 + 1
    <3> HIDE DEF upto
    <3>1. Cardinality(upto(s) \cup {t}) = Cardinality(upto(s)) + 1
      BY <2>7, <2>8, FS_AddElement
    <3> QED
      BY <2>3, <2>7, <3>1
  <2> QED
    BY <1>1, <1>5, <2>6, <2>9
<1> QED
  BY <1>6, <1>7

\* LSNs are naturals.
LEMMA LsnType ==
    ASSUME NEW w \in Seq(LogEntry)
    PROVE  Len(w) \in Nat /\ \A k \in 1..Len(w) : w[k].lsn \in Nat
<1>1. Len(w) \in Nat /\ \A k \in 1..Len(w) : w[k] \in LogEntry
  OBVIOUS
<1>2. \A e \in LogEntry : e.lsn \in Nat
  BY DEF LogEntry
<1> QED
  BY <1>1, <1>2

\* LSNs of a log are bounded.
LEMMA LsnBound ==
    ASSUME NEW w \in Seq(LogEntry)
    PROVE  \E b \in Nat : \A k \in 1..Len(w) : w[k].lsn <= b
<1> DEFINE Bounded(m) == \E b \in Nat : \A k \in 1..m : w[k].lsn <= b
           T == {m \in 0..Len(w) : ~Bounded(m)}
<1>1. Len(w) \in Nat /\ \A k \in 1..Len(w) : w[k].lsn \in Nat
  BY LsnType
<1>2. SUFFICES ASSUME T # {} PROVE FALSE
  <2>1. SUFFICES Bounded(Len(w))
    OBVIOUS
  <2> HIDE DEF Bounded
  <2>2. Len(w) \in 0..Len(w)
    BY <1>1
  <2> QED
    BY <2>2
<1> HIDE DEF Bounded
<1>3. T \in SUBSET Nat
  BY <1>1
<1>4. PICK m \in T : \A k \in T : m <= k
  BY <1>2, <1>3, LeastExists
<1>5. m \in 0..Len(w) /\ ~Bounded(m)
  OBVIOUS
<1>6. m # 0
  <2>1. Bounded(0)
    <3>1. 0 \in Nat /\ 1..0 = {}
      OBVIOUS
    <3> QED
      BY <3>1 DEF Bounded
  <2> QED
    BY <1>5, <2>1
<1>7. m - 1 \in 0..Len(w) /\ ~(m <= m - 1) /\ m \in 1..Len(w)
  BY <1>1, <1>5, <1>6
<1>8. m - 1 \notin T
  BY <1>4, <1>7
<1>9. PICK b \in Nat : \A k \in 1..(m - 1) : w[k].lsn <= b
  <2>1. Bounded(m - 1)
    BY <1>7, <1>8
  <2> QED
    BY <2>1 DEF Bounded
<1> HIDE DEF T
<1>10. w[m].lsn \in Nat /\ b + w[m].lsn \in Nat
  <2>1. w[m].lsn \in Nat
    BY <1>1, <1>7
  <2> QED
    BY <2>1
<1>11. PICK k \in 1..m : ~(w[k].lsn <= b + w[m].lsn)
  BY <1>5, <1>10 DEF Bounded
<1>12. k \in 1..Len(w) /\ (k = m \/ k \in 1..(m - 1))
  BY <1>1, <1>7
<1>13. w[k].lsn \in Nat
  BY <1>1, <1>12
<1>14. CASE k = m
  BY <1>10, <1>11, <1>14
<1>15. CASE k \in 1..(m - 1)
  <2>1. w[k].lsn <= b
    BY <1>9, <1>15
  <2> QED
    BY <1>10, <1>11, <1>13, <2>1
<1> QED
  BY <1>12, <1>14, <1>15

\* Among the entries it may keep, one has the highest LSN.
LEMMA LatestExists ==
    ASSUME NEW w \in Seq(LogEntry), NEW i, Candidates(w, i) # {}
    PROVE  \E k \in Candidates(w, i) : \A j \in Candidates(w, i) :
               w[j].lsn < w[k].lsn \/ (w[j].lsn = w[k].lsn /\ k <= j)
<1> DEFINE C == Candidates(w, i)
<1>1. C \in SUBSET (1..Len(w)) /\ Len(w) \in Nat /\ \A k \in 1..Len(w) : w[k].lsn \in Nat
  BY LsnType DEF Candidates, At
<1>2. PICK b \in Nat : \A k \in 1..Len(w) : w[k].lsn <= b
  BY LsnBound
<1> HIDE DEF C
<1> DEFINE D == {b - w[k].lsn : k \in C}
<1>3. D \in SUBSET Nat
  BY <1>1, <1>2
<1>4. D # {}
  <2>1. PICK k \in C : TRUE
    BY DEF C
  <2>2. b - w[k].lsn \in D
    OBVIOUS
  <2> QED
    BY <2>2
<1>5. PICK d \in D : \A x \in D : d <= x
  BY <1>3, <1>4, LeastExists
<1>6. PICK top \in C : d = b - w[top].lsn
  OBVIOUS
<1>7. \A k \in C : w[k].lsn <= w[top].lsn
  <2> SUFFICES ASSUME NEW k \in C PROVE w[k].lsn <= w[top].lsn
    OBVIOUS
  <2>1. b - w[k].lsn \in D
    OBVIOUS
  <2>2. w[k].lsn \in Nat /\ w[top].lsn \in Nat
    BY <1>1
  <2>3. b - w[top].lsn <= b - w[k].lsn
    BY <1>5, <1>6, <2>1
  <2> QED
    BY <2>2, <2>3
<1> DEFINE F == {k \in C : w[k].lsn = w[top].lsn}
<1>8. F \in SUBSET Nat /\ F # {}
  <2>1. F \in SUBSET C /\ C \in SUBSET Nat
    BY <1>1
  <2>2. top \in F
    BY <1>6
  <2> QED
    BY <2>1, <2>2
<1>9. PICK f \in F : \A k \in F : f <= k
  BY <1>8, LeastExists
<1>10. f \in C /\ \A j \in C : w[j].lsn < w[f].lsn \/ (w[j].lsn = w[f].lsn /\ f <= j)
  <2> SUFFICES ASSUME NEW j \in C
               PROVE  w[j].lsn < w[f].lsn \/ (w[j].lsn = w[f].lsn /\ f <= j)
    OBVIOUS
  <2>1. w[j].lsn \in Nat /\ w[top].lsn \in Nat
    BY <1>1
  <2>2. CASE w[j].lsn = w[top].lsn
    BY <1>9, <2>2
  <2>3. CASE w[j].lsn # w[top].lsn
    BY <1>7, <2>1, <2>3
  <2> QED
    BY <2>2, <2>3
<1> QED
  BY <1>10 DEF C

\* compact_wal finds the entry it keeps.
LEMMA LatestFound ==
    ASSUME NEW w \in Seq(LogEntry), NEW i, Candidates(w, i) # {}
    PROVE  Latest(w, i) \in Candidates(w, i)
BY LatestExists DEF Latest

\* Compaction writes a log.
LEMMA CompactedType ==
    ASSUME NEW w \in Seq(LogEntry)
    PROVE  Compacted(w) \in Seq(LogEntry)
<1> DEFINE S == Survivors(w)
           nth(n) == CHOOSE s \in S : Cardinality({r \in S : r <= s}) = n
           entry(n) == [w[Latest(w, nth(n))] EXCEPT !.lsn = n]
<1>1. S \in SUBSET Indexes /\ Cardinality(S) \in Nat
  <2>1. S \in SUBSET Indexes
    BY DEF Survivors
  <2> QED
    BY <2>1, IndexSets
<1>2. ASSUME NEW n \in 1..Cardinality(S) PROVE entry(n) \in LogEntry
  <2>1. nth(n) \in S
    BY <1>1, Ranks
  <2>2. Candidates(w, nth(n)) # {}
    BY <2>1 DEF Survivors
  <2>3. Latest(w, nth(n)) \in 1..Len(w)
    BY <2>2, LatestFound DEF Candidates, At
  <2>4. w[Latest(w, nth(n))] \in LogEntry
    BY <2>3
  <2>5. n \in Nat
    BY <1>1
  <2> QED
    BY <2>4, <2>5 DEF LogEntry
<1>3. Compacted(w) = [n \in 1..Cardinality(S) |-> entry(n)]
  BY DEF Compacted
<1> HIDE DEF S, entry
<1> QED
  BY <1>1, <1>2, <1>3

(***************************************************************************)
(* Type correctness.  What makes TypeOK inductive: a dirty object is in    *)
(* the cache, and so is the object that an Update or a Delete is about.    *)
(***************************************************************************)
WriteUnderWay ==
    /\ job # NoJob <=> pc = "logged"
    /\ pc = "logged" /\ job.op # "Insert" => cache[job.i] # NoObject

TypeInv ==
    /\ TypeOK
    /\ WriteUnderWay
    /\ \A i \in dirty : cache[i] # NoObject

\* A cached object stays cached when another is loaded.
LEMMA LoadFacts ==
    ASSUME TypeOK, NEW i \in Indexes, Found(i) \in Objects, Load(i)
    PROVE  /\ cache' \in [Indexes -> Objects \cup {NoObject}]
           /\ cache'[i] = Found(i) /\ cache'[i] # NoObject
           /\ \A j \in Indexes : j # i => cache'[j] = cache[j]
           /\ \A j \in Indexes : cache[j] # NoObject => cache'[j] = cache[j]
<1>1. cache' = [cache EXCEPT ![i] = Found(i)]
  BY StoreAssumption DEF Load
<1>2. Found(i) # NoObject
  BY StoreAssumption
<1>3. cache[i] # NoObject => Found(i) = cache[i]
  BY DEF Found
<1> QED
  BY <1>1, <1>2, <1>3 DEF TypeOK

\* The log entry of a write.
LEMMA LogFacts ==
    ASSUME TypeInv, NEW w \in Writes, Log(w)
    PROVE  /\ wal' \in Seq(LogEntry)
           /\ wal' = Append(wal, [op |-> w.op, i |-> w.i, val |-> w.val, lsn |-> lsn])
           /\ [op |-> w.op, i |-> w.i, val |-> w.val, lsn |-> lsn] \in LogEntry
           /\ lsn' \in Nat \ {0} /\ pc = "up" /\ pc' = "logged" /\ job' = w /\ job' # NoJob
           /\ UNCHANGED <<header, file, index, changed, dirty, task, kept>>
<1>1. [op |-> w.op, i |-> w.i, val |-> w.val, lsn |-> lsn] \in LogEntry
  BY DEF Writes, LogEntry, TypeInv, TypeOK
<1>2. wal' \in Seq(LogEntry)
  BY <1>1 DEF Log, TypeInv, TypeOK
<1>3. w # NoJob
  BY StoreAssumption
<1>4. lsn' \in Nat \ {0}
  BY DEF Log, TypeInv, TypeOK
<1> QED
  BY <1>1, <1>2, <1>3, <1>4 DEF Log

\* What an operation makes of an object is an object.
LEMMA OutcomeIsObject ==
    ASSUME TypeOK, NEW w \in Writes, w.op # "Insert" => cache[w.i] # NoObject
    PROVE  Outcome(w) \in Objects
<1>1. w.i \in Indexes /\ w.val \in Vals /\ w.op \in AllOps
  BY DEF Writes, AllOps
<1>2. w.op # "Insert" => cache[w.i] \in Objects
  BY <1>1 DEF TypeOK
<1>3. w.op # "Insert" => cache[w.i].val \in Vals /\ cache[w.i].st \in {"live", "gone"}
  BY <1>2 DEF Objects
<1> QED
  BY <1>1, <1>3 DEF Outcome, Objects, AllOps

LEMMA OutcomeType ==
    ASSUME TypeInv, pc = "logged"
    PROVE  job \in Writes /\ job.i \in Indexes /\ Outcome(job) \in Objects
<1>1. job \in Writes /\ (job.op # "Insert" => cache[job.i] # NoObject) /\ TypeOK
  BY DEF TypeInv, TypeOK, WriteUnderWay
<1>2. job.i \in Indexes
  BY <1>1 DEF Writes
<1> QED
  BY <1>1, <1>2, OutcomeIsObject

\* persist_object leaves an index entry.
LEMMA PersistedType ==
    ASSUME NEW e \in Entries \cup {NoEntry}, NEW o \in Objects
    PROVE  Persisted(e, o) \in Entries /\ Persisted(e, o) # NoEntry
<1>1. e # NoEntry => e.flag \in {"Active", "Deleted"}
  BY DEF Entries
<1>2. Persisted(e, o) \in Entries
  BY <1>1 DEF Persisted, Entries
<1> QED
  BY <1>2, StoreAssumption

\* Every step keeps TypeInv.
LEMMA TypeStep == TypeInv /\ [Next]_vars => TypeInv'
<1> SUFFICES ASSUME TypeInv, [Next]_vars PROVE TypeInv'
  OBVIOUS
<1>0. TypeOK /\ WriteUnderWay /\ \A i \in dirty : cache[i] # NoObject
  BY DEF TypeInv
<1>1. CASE UNCHANGED vars
  BY <1>1 DEF vars, TypeInv, TypeOK, WriteUnderWay
<1>2. CASE Open
  <2>1. cache' \in [Indexes -> Objects \cup {NoObject}]
    <3>1. \A i \in Indexes : Rebuilt(wal, i) \in Objects \cup {NoObject}
      BY <1>0, RebuiltType DEF TypeOK
    <3> QED
      BY <1>2, <3>1 DEF Open
  <2>2. next' \in 1..(MaxIndex + 1)
    BY <1>0, <1>2, NextFreeFacts DEF Open, TypeOK
  <2>3. lsn' \in Nat \ {0}
    BY <1>0, <1>2 DEF Open, TypeOK
  <2>4. TypeOK'
    BY <1>0, <1>2, <2>1, <2>2, <2>3 DEF Open, TypeOK, log, file
  <2> QED
    BY <1>0, <1>2, <2>4 DEF Open, TypeInv, WriteUnderWay
<1>3. CASE OpenFails
  BY <1>0, <1>3 DEF OpenFails, TypeInv, TypeOK, WriteUnderWay, log, file, memory
<1>4. ASSUME Forgotten, pc' = "down", UNCHANGED <<log, file>> PROVE TypeInv'
  <2>1. next' \in 1..(MaxIndex + 1) /\ lsn' \in Nat \ {0}
    BY <1>4, StoreAssumption DEF Forgotten
  <2>2. TypeOK'
    BY <1>0, <1>4, <2>1 DEF Forgotten, TypeOK, NoEntries, NoCache, log, file
  <2> QED
    BY <1>4, <2>2 DEF Forgotten, TypeInv, WriteUnderWay
<1>5. CASE Crash
  BY <1>4, <1>5 DEF Crash
<1>6. ASSUME NEW v \in Vals, Create(v) PROVE TypeInv'
  <2> DEFINE w == [op |-> "Insert", i |-> next, val |-> v]
  <2>1. next \in Indexes /\ next + 1 \in 1..(MaxIndex + 1)
    BY <1>0, <1>6, StoreAssumption DEF Create, TypeOK, Indexes
  <2>2. w \in Writes /\ Log(w) /\ w.op = "Insert"
    BY <1>6, <2>1 DEF Create, Writes
  <2> HIDE DEF w
  <2>3. /\ wal' \in Seq(LogEntry) /\ lsn' \in Nat \ {0} /\ pc' = "logged" /\ job' = w
        /\ job' # NoJob /\ UNCHANGED <<header, file, index, changed, dirty, task, kept>>
    BY <2>2, LogFacts
  <2>4. TypeOK'
    BY <1>0, <1>6, <2>1, <2>2, <2>3 DEF Create, TypeOK, file
  <2> QED
    BY <1>0, <1>6, <2>2, <2>3, <2>4 DEF Create, TypeInv, WriteUnderWay
<1>7. ASSUME NEW i \in Indexes, NEW w \in Writes, w.i = i, Log(w), Found(i) \in Objects, Load(i),
             UNCHANGED next
      PROVE  TypeInv'
  <2>1. /\ wal' \in Seq(LogEntry) /\ lsn' \in Nat \ {0} /\ pc' = "logged" /\ job' = w
        /\ job' # NoJob /\ UNCHANGED <<header, file, index, changed, dirty, task, kept>>
    BY <1>7, LogFacts
  <2>2. /\ cache' \in [Indexes -> Objects \cup {NoObject}] /\ cache'[i] # NoObject
        /\ \A j \in Indexes : cache[j] # NoObject => cache'[j] = cache[j]
    BY <1>0, <1>7, LoadFacts
  <2>3. TypeOK'
    BY <1>0, <1>7, <2>1, <2>2 DEF TypeOK, file
  <2>4. \A j \in dirty' : cache'[j] # NoObject
    BY <1>0, <2>1, <2>2 DEF TypeOK
  <2> QED
    BY <1>7, <2>1, <2>2, <2>3, <2>4 DEF TypeInv, WriteUnderWay
<1>8. ASSUME NEW v \in Vals, NEW i \in Indexes, Update(i, v) PROVE TypeInv'
  <2>1. [op |-> "Update", i |-> i, val |-> v] \in Writes
    BY DEF Writes
  <2> QED
    BY <1>7, <1>8, <2>1 DEF Update
<1>9. ASSUME NEW i \in Indexes, Delete(i) PROVE TypeInv'
  <2>1. Found(i).val \in Vals
    BY <1>9 DEF Delete, Objects
  <2>2. [op |-> "Delete", i |-> i, val |-> Found(i).val] \in Writes
    BY <2>1 DEF Writes
  <2> QED
    BY <1>7, <1>9, <2>2 DEF Delete
<1>10. ASSUME NEW i \in Indexes, Get(i) PROVE TypeInv'
  <2>1. /\ cache' \in [Indexes -> Objects \cup {NoObject}]
        /\ \A j \in Indexes : cache[j] # NoObject => cache'[j] = cache[j]
    BY <1>0, <1>10, LoadFacts DEF Get
  <2>2. TypeOK'
    BY <1>0, <1>10, <2>1 DEF Get, TypeOK, log, file
  <2>3. \A j \in dirty' : cache'[j] # NoObject
    BY <1>0, <1>10, <2>1 DEF Get, TypeOK
  <2> QED
    BY <1>0, <1>10, <2>2, <2>3 DEF Get, TypeInv, WriteUnderWay
<1>11. CASE Apply
  <2>1. pc = "logged" /\ job.i \in Indexes /\ Outcome(job) \in Objects
    BY <1>11, OutcomeType DEF Apply
  <2>2. /\ cache' \in [Indexes -> Objects \cup {NoObject}] /\ cache'[job.i] # NoObject
        /\ \A j \in Indexes : j # job.i => cache'[j] = cache[j]
    BY <1>0, <1>11, <2>1, StoreAssumption DEF Apply, TypeOK
  <2>3. index' \in [Indexes -> Entries \cup {NoEntry}] /\ changed' \in {"yes", "no"}
    <3>1. Persisted(index[job.i], Outcome(job)) \in Entries
      BY <1>0, <2>1, PersistedType DEF TypeOK
    <3>2. CASE AutoPersist
      BY <1>0, <1>11, <2>1, <3>1, <3>2 DEF Apply, TypeOK
    <3>3. CASE ~AutoPersist
      BY <1>0, <1>11, <3>3 DEF Apply, TypeOK
    <3> QED
      BY <3>2, <3>3
  <2>4. dirty' \in SUBSET (dirty \cup {job.i})
    BY <1>11 DEF Apply
  <2>5. TypeOK'
    BY <1>0, <1>11, <2>1, <2>2, <2>3, <2>4 DEF Apply, TypeOK, log, file
  <2>6. \A j \in dirty' : cache'[j] # NoObject
    BY <1>0, <2>1, <2>2, <2>4 DEF TypeOK
  <2> QED
    BY <1>11, <2>5, <2>6 DEF Apply, TypeInv, WriteUnderWay
<1>12. CASE ApplyDelete
  <2>1. pc = "logged" /\ job.i \in Indexes /\ Outcome(job) \in Objects
    BY <1>12, OutcomeType DEF ApplyDelete
  <2>2. /\ cache' \in [Indexes -> Objects \cup {NoObject}] /\ cache'[job.i] # NoObject
        /\ \A j \in Indexes : j # job.i => cache'[j] = cache[j]
    BY <1>0, <1>12, <2>1, StoreAssumption DEF ApplyDelete, TypeOK
  <2>3. index' \in [Indexes -> Entries \cup {NoEntry}] /\ changed' \in {"yes", "no"}
    <3>1. [rec |-> Broken, flag |-> "Deleted"] \in Entries
      BY DEF Entries
    <3>2. CASE index[job.i] = NoEntry
      BY <1>0, <1>12, <3>2 DEF ApplyDelete, TypeOK
    <3>3. CASE index[job.i] # NoEntry
      BY <1>0, <1>12, <2>1, <3>1, <3>3 DEF ApplyDelete, TypeOK
    <3> QED
      BY <3>2, <3>3
  <2>4. dirty' = dirty \cup {job.i}
    BY <1>12 DEF ApplyDelete
  <2>5. TypeOK'
    BY <1>0, <1>12, <2>1, <2>2, <2>3, <2>4 DEF ApplyDelete, TypeOK, log, file
  <2>6. \A j \in dirty' : cache'[j] # NoObject
    BY <1>0, <2>1, <2>2, <2>4 DEF TypeOK
  <2> QED
    BY <1>12, <2>5, <2>6 DEF ApplyDelete, TypeInv, WriteUnderWay
<1>13. ASSUME NEW s \in Saves, Save(s) PROVE TypeInv'
  <2>1. Flushed \in [Indexes -> Entries \cup {NoEntry}]
    <3> SUFFICES ASSUME NEW i \in Indexes
                 PROVE  (IF i \in dirty THEN Persisted(index[i], cache[i]) ELSE index[i])
                          \in Entries \cup {NoEntry}
      BY DEF Flushed
    <3>1. i \in dirty => cache[i] \in Objects
      BY <1>0 DEF TypeOK
    <3>2. i \in dirty => Persisted(index[i], cache[i]) \in Entries
      BY <1>0, <3>1, PersistedType DEF TypeOK
    <3> QED
      BY <1>0, <3>2 DEF TypeOK
  <2>2. changed' \in {"yes", "no"}
    BY <1>0, <1>13 DEF Save, TypeOK
  <2>3. saved' \in [Indexes -> Entries \cup {NoEntry}] /\ readable' \in {"yes", "no"}
        /\ pc' \in {"truncated", "indexed"}
    BY <1>0, <1>13 DEF Save, TypeOK, NoEntries, file
  <2>4. TypeOK'
    BY <1>0, <1>13, <2>1, <2>2, <2>3 DEF Save, TypeOK, log
  <2> QED
    BY <1>0, <1>13, <2>3, <2>4 DEF Save, TypeInv, WriteUnderWay
<1>14. CASE WriteIndex
  BY <1>0, <1>14 DEF WriteIndex, TypeInv, TypeOK, WriteUnderWay, log
<1>15. CASE CommitLog
  BY <1>0, <1>15 DEF CommitLog, TypeInv, TypeOK, WriteUnderWay, log, file
<1>16. CASE UpdateHeader
  <2>1. header' \in Nat /\ lsn' \in Nat \ {0}
    BY <1>0, <1>16 DEF UpdateHeader, TypeOK
  <2>2. pc' \in {"compacting", "closing", "up"}
    BY <1>16 DEF UpdateHeader
  <2>3. TypeOK'
    BY <1>0, <1>16, <2>1, <2>2 DEF UpdateHeader, TypeOK, file
  <2> QED
    BY <1>0, <1>16, <2>2, <2>3 DEF UpdateHeader, TypeInv, WriteUnderWay
<1>17. CASE Close
  BY <1>4, <1>17 DEF Close
<1>18. CASE RemoveLog
  <2>1. kept' \in Seq(LogEntry) /\ wal' \in Seq(LogEntry)
    BY <1>0, <1>18, CompactedType DEF RemoveLog, TypeOK
  <2>2. TypeOK'
    BY <1>0, <1>18, <2>1 DEF RemoveLog, TypeOK, file, memory
  <2> QED
    BY <1>0, <1>18, <2>2 DEF RemoveLog, TypeInv, WriteUnderWay, memory
<1>19. CASE RewriteLog
  <2>1. lsn' \in Nat \ {0} /\ kept' \in Seq(LogEntry)
    BY <1>0, <1>19 DEF RewriteLog, TypeOK
  <2>2. TypeOK'
    BY <1>0, <1>19, <2>1 DEF RewriteLog, TypeOK, file
  <2> QED
    BY <1>0, <1>19, <2>2 DEF RewriteLog, TypeInv, WriteUnderWay
<1> QED
  BY <1>1, <1>2, <1>3, <1>5, <1>6, <1>8, <1>9, <1>10, <1>11, <1>12, <1>13, <1>14, <1>15,
     <1>16, <1>17, <1>18, <1>19 DEF Next

\* The empty store has its types.
LEMMA TypeInit == Init => TypeInv
<1> SUFFICES ASSUME Init PROVE TypeInv
  OBVIOUS
<1>1. next \in 1..(MaxIndex + 1) /\ lsn \in Nat \ {0}
  BY StoreAssumption DEF Init
<1>2. TypeOK
  BY <1>1 DEF Init, TypeOK, NoEntries, NoCache
<1> QED
  BY <1>2 DEF Init, TypeInv, WriteUnderWay

(***************************************************************************)
(* The store keeps its types, compaction and crashes included: replay and  *)
(* compaction of a log yield objects and a log, and next_index stays in    *)
(* the bounds.                                                             *)
(***************************************************************************)
THEOREM TypeCorrect == Spec => []TypeOK
<1>1. TypeInv => TypeOK
  BY DEF TypeInv
<1> QED
  BY <1>1, TypeInit, TypeStep, PTL DEF Spec

(***************************************************************************)
(* A store whose log is never compacted.  The log then holds the Insert of *)
(* every object, so that replay alone rebuilds what the cache holds: the   *)
(* index and the record files add nothing, and a crash inside save, which  *)
(* loses them, loses no object.                                            *)
(***************************************************************************)
NeverCompacting == task # "compact" /\ pc \notin {"compacting", "removed"}

\* Index entries belong to logged objects, and next_index is fresh.
LogIsComplete ==
    /\ \A i \in Indexes : saved[i] # NoEntry => Rebuilt(wal, i) # NoObject
    /\ Running => \A i \in Indexes :
          /\ index[i] # NoEntry => cache[i] # NoObject
          /\ Rebuilt(wal, i) # NoObject => i < next

\* The cache is what replay would make of the log; a write that is logged
\* and not yet applied is the only difference.
CacheMirrorsLog ==
    /\ Running /\ pc # "logged" => \A i \in Indexes : cache[i] = Rebuilt(wal, i)
    /\ pc = "logged" =>
          /\ \A i \in Indexes : i # job.i => cache[i] = Rebuilt(wal, i)
          /\ Rebuilt(wal, job.i) = Outcome(job)
          /\ job.op = "Insert" => cache[job.i] = NoObject

DurableInv ==
    /\ TypeInv
    /\ NeverCompacting
    /\ LogIsComplete
    /\ CacheMirrorsLog

\* What the store holds: the cache of a running engine, or else the log.
View == [i \in Indexes |-> IF Running THEN cache[i] ELSE Rebuilt(wal, i)]

LEMMA ViewIsContents ==
    ASSUME DurableInv
    PROVE  Contents = View
<1> SUFFICES ASSUME NEW i \in Indexes
             PROVE  (IF Running THEN Found(i) ELSE Recovered(i))
                      = (IF Running THEN cache[i] ELSE Rebuilt(wal, i))
  BY DEF View, Contents
<1>1. CASE Running
  BY <1>1 DEF Found, DurableInv, LogIsComplete
<1>2. CASE ~Running
  BY <1>2 DEF Recovered, DurableInv, LogIsComplete
<1> QED
  BY <1>1, <1>2

\* The same after a step.
LEMMA ViewIsContentsNext ==
    ASSUME DurableInv'
    PROVE  Contents' = View'
<1> SUFFICES ASSUME NEW i \in Indexes
             PROVE  (IF Running THEN Found(i) ELSE Recovered(i))'
                      = (IF Running THEN cache[i] ELSE Rebuilt(wal, i))'
  BY DEF View, Contents
<1>1. CASE Running'
  BY <1>1 DEF Found, DurableInv, LogIsComplete
<1>2. CASE ~Running'
  BY <1>2 DEF Recovered, DurableInv, LogIsComplete
<1> QED
  BY <1>1, <1>2

\* The write that Create, Update or Delete logs.
LEMMA DurableLog ==
    ASSUME DurableInv, NEW w \in Writes, Log(w), TypeInv', UNCHANGED cache,
           w.op = "Insert" <=> cache[w.i] = NoObject,
           next' \in 1..(MaxIndex + 1), next <= next', w.i < next'
    PROVE  DurableInv'
<1> DEFINE e == [op |-> w.op, i |-> w.i, val |-> w.val, lsn |-> lsn]
<1>1. /\ wal' = Append(wal, e) /\ e \in LogEntry
      /\ pc = "up" /\ pc' = "logged" /\ job' = w
      /\ UNCHANGED <<saved, index, task>>
  BY LogFacts DEF DurableInv, file
<1>2. wal \in Seq(LogEntry) /\ w.i \in Indexes /\ w.op \in AllOps /\ next \in Nat
      /\ Indexes \subseteq Nat
  BY StoreAssumption DEF DurableInv, TypeInv, TypeOK, Writes, AllOps, Indexes
<1>3. e.i = w.i /\ e.op = w.op /\ e.val = w.val
  OBVIOUS
<1> HIDE DEF e
<1>4. Running /\ Running' /\ \A i \in Indexes : cache[i] = Rebuilt(wal, i)
  BY <1>1 DEF DurableInv, CacheMirrorsLog, Running
<1>5. \A i \in Indexes : i # w.i => Rebuilt(wal', i) = Rebuilt(wal, i)
  BY <1>1, <1>2, <1>3, RebuiltOther
<1>6. Rebuilt(wal', w.i) = Outcome(w)
  <2>1. CASE w.op = "Insert"
    <3>1. Rebuilt(wal', w.i) = [val |-> w.val, st |-> "live"]
      BY <1>1, <1>2, <1>3, <2>1, RebuiltInsert
    <3> QED
      BY <2>1, <3>1 DEF Outcome
  <2>2. CASE w.op # "Insert"
    <3>1. w.op \in {"Update", "Delete"} /\ Rebuilt(wal, w.i) # NoObject /\ Rebuilt(wal, w.i) = cache[w.i]
      BY <1>2, <1>4, <2>2 DEF AllOps
    <3>2. Rebuilt(wal', w.i) =
             [val |-> IF w.op = "Update" THEN w.val ELSE cache[w.i].val,
              st  |-> IF w.op = "Update" THEN cache[w.i].st ELSE "gone"]
      BY <1>1, <1>2, <1>3, <3>1, RebuiltChange
    <3> QED
      BY <3>1, <3>2 DEF Outcome
  <2> QED
    BY <2>1, <2>2
<1>7. Outcome(w)' = Outcome(w) /\ Rebuilt(wal', w.i) # NoObject
  <2>1. Outcome(w)' = Outcome(w)
    BY DEF Outcome
  <2>2. Outcome(w) \in Objects
    BY OutcomeIsObject DEF DurableInv, TypeInv
  <2> QED
    BY <1>6, <2>1, <2>2, StoreAssumption
<1>8. NeverCompacting'
  BY <1>1 DEF DurableInv, NeverCompacting
<1>9. LogIsComplete'
  <2>1. \A i \in Indexes : saved'[i] # NoEntry => Rebuilt(wal', i) # NoObject
    BY <1>1, <1>5, <1>7 DEF DurableInv, LogIsComplete
  <2>2. \A i \in Indexes : index'[i] # NoEntry => cache'[i] # NoObject
    BY <1>1, <1>4 DEF DurableInv, LogIsComplete
  <2>3. ASSUME NEW i \in Indexes, Rebuilt(wal', i) # NoObject PROVE i < next'
    <3>1. CASE i = w.i
      BY <3>1
    <3>2. CASE i # w.i
      <4>1. i < next
        BY <1>4, <1>5, <2>3, <3>2 DEF DurableInv, LogIsComplete
      <4> QED
        BY <1>2, <4>1
    <3> QED
      BY <3>1, <3>2
  <2> QED
    BY <2>1, <2>2, <2>3 DEF LogIsComplete
<1>10. CacheMirrorsLog'
  BY <1>1, <1>4, <1>5, <1>6, <1>7 DEF CacheMirrorsLog
<1> QED
  BY <1>8, <1>9, <1>10 DEF DurableInv

\* The steps that end a write.
LEMMA DurableApply ==
    ASSUME DurableInv, TypeInv', pc = "logged", pc' = "up",
           cache' = [cache EXCEPT ![job.i] = Outcome(job)],
           \A i \in Indexes : i # job.i => index'[i] = index[i],
           UNCHANGED <<wal, saved, next, task>>
    PROVE  DurableInv'
<1>1. job.i \in Indexes /\ Outcome(job) \in Objects /\ cache \in [Indexes -> Objects \cup {NoObject}]
  BY OutcomeType DEF DurableInv, TypeInv, TypeOK
<1>2. \A i \in Indexes : cache'[i] = Rebuilt(wal, i)
  BY <1>1 DEF DurableInv, CacheMirrorsLog
<1>3. \A i \in Indexes : Rebuilt(wal', i) = Rebuilt(wal, i)
  OBVIOUS
<1>4. Running /\ Running' /\ cache'[job.i] # NoObject /\ \A i \in Indexes : i # job.i => cache'[i] = cache[i]
  BY <1>1, StoreAssumption DEF Running
<1>5. LogIsComplete'
  BY <1>1, <1>3, <1>4 DEF DurableInv, LogIsComplete
<1> QED
  BY <1>2, <1>3, <1>5 DEF DurableInv, NeverCompacting, CacheMirrorsLog

\* Every step keeps DurableInv when compact_wal is never called.
LEMMA DurableStep ==
    ASSUME "compact" \notin Ops, DurableInv, [Next]_vars
    PROVE  DurableInv'
<1>0. /\ TypeInv /\ TypeInv' /\ TypeOK /\ NeverCompacting /\ LogIsComplete /\ CacheMirrorsLog
      /\ wal \in Seq(LogEntry)
  BY TypeStep DEF DurableInv, TypeInv, TypeOK
<1>1. ASSUME UNCHANGED <<wal, saved, index, cache, next, task, pc, job>> PROVE DurableInv'
  <2>1. LogIsComplete'
    BY <1>0, <1>1 DEF LogIsComplete, Running
  <2>2. CacheMirrorsLog'
    BY <1>0, <1>1 DEF CacheMirrorsLog, Running, Outcome
  <2> QED
    BY <1>0, <1>1, <2>1, <2>2 DEF DurableInv, NeverCompacting
<1>2. CASE UNCHANGED vars
  BY <1>1, <1>2 DEF vars
<1>3. CASE Open
  <2>1. \A i \in Indexes : cache'[i] = Rebuilt(wal, i)
    BY <1>3 DEF Open
  <2>2. \A i \in Indexes : Rebuilt(wal, i) # NoObject => i < next'
    BY <1>0, <1>3, RebuiltType, NextFreeFacts DEF Open
  <2>3. LogIsComplete'
    BY <1>0, <1>3, <2>1, <2>2 DEF Open, LogIsComplete, log, file
  <2>4. CacheMirrorsLog'
    BY <1>3, <2>1 DEF Open, CacheMirrorsLog, log
  <2> QED
    BY <1>0, <1>3, <2>3, <2>4 DEF Open, DurableInv, NeverCompacting
<1>4. ASSUME pc' \in {"down", "refused"}, task' # "compact", UNCHANGED <<log, file>> PROVE DurableInv'
  <2>1. ~Running' /\ pc' # "logged"
    BY <1>4 DEF Running
  <2>2. LogIsComplete'
    BY <1>0, <1>4, <2>1 DEF LogIsComplete, log, file
  <2>3. CacheMirrorsLog'
    BY <2>1 DEF CacheMirrorsLog
  <2> QED
    BY <1>0, <1>4, <2>2, <2>3 DEF DurableInv, NeverCompacting
<1>5. CASE OpenFails
  BY <1>0, <1>4, <1>5 DEF OpenFails, NeverCompacting
<1>6. CASE Crash
  BY <1>4, <1>6 DEF Crash, Forgotten
<1>7. CASE Close
  BY <1>4, <1>7 DEF Close, Forgotten
<1>8. \A i \in Indexes : Running => Found(i) = cache[i]
  BY <1>0 DEF LogIsComplete, Found
<1>9. ASSUME NEW i \in Indexes, pc = "up", Found(i) \in Objects, Load(i)
      PROVE  cache' = cache /\ cache[i] \in Objects /\ i < next
  <2>1. Running /\ Found(i) = cache[i]
    BY <1>8, <1>9 DEF Running
  <2>2. cache' = cache
    BY <1>0, <1>9, <2>1, StoreAssumption DEF Load, TypeOK
  <2>3. i < next
    BY <1>0, <1>9, <2>1, StoreAssumption DEF LogIsComplete, CacheMirrorsLog
  <2> QED
    BY <1>9, <2>1, <2>2, <2>3
<1>10. ASSUME NEW v \in Vals, Create(v) PROVE DurableInv'
  <2> DEFINE w == [op |-> "Insert", i |-> next, val |-> v]
  <2>1. next \in Indexes /\ next + 1 \in 1..(MaxIndex + 1) /\ next < next + 1 /\ next <= next + 1
        /\ ~(next < next)
    BY <1>0, <1>10, StoreAssumption DEF Create, TypeOK, Indexes
  <2>2. w \in Writes /\ w.op = "Insert" /\ w.i = next /\ Log(w) /\ next' = next + 1 /\ cache' = cache
    BY <1>10, <2>1 DEF Create, Writes
  <2>3. pc = "up"
    BY <2>2 DEF Log
  <2>4. cache[next] = NoObject
    BY <1>0, <2>1, <2>3 DEF LogIsComplete, CacheMirrorsLog, Running
  <2> HIDE DEF w
  <2> QED
    BY <1>0, <2>1, <2>2, <2>4, DurableLog
<1>11. ASSUME NEW i \in Indexes, NEW w \in Writes, w.i = i, w.op # "Insert", Log(w),
              Found(i) \in Objects, Load(i), UNCHANGED next
       PROVE  DurableInv'
  <2>1. pc = "up"
    BY <1>11 DEF Log
  <2>2. cache' = cache /\ cache[i] # NoObject /\ i < next'
    BY <1>9, <1>11, <2>1, StoreAssumption
  <2>3. next' \in 1..(MaxIndex + 1) /\ next <= next'
    BY <1>0, <1>11, StoreAssumption DEF TypeOK
  <2> QED
    BY <1>0, <1>11, <2>2, <2>3, DurableLog
<1>12. ASSUME NEW v \in Vals, NEW i \in Indexes, Update(i, v) PROVE DurableInv'
  <2>1. [op |-> "Update", i |-> i, val |-> v] \in Writes
    BY DEF Writes
  <2> QED
    BY <1>11, <1>12, <2>1 DEF Update
<1>13. ASSUME NEW i \in Indexes, Delete(i) PROVE DurableInv'
  <2>1. Found(i).val \in Vals
    BY <1>13 DEF Delete, Objects
  <2>2. [op |-> "Delete", i |-> i, val |-> Found(i).val] \in Writes
    BY <2>1 DEF Writes
  <2> QED
    BY <1>11, <1>13, <2>2 DEF Delete
<1>14. ASSUME NEW i \in Indexes, Get(i) PROVE DurableInv'
  <2>1. cache' = cache
    BY <1>9, <1>14 DEF Get
  <2> QED
    BY <1>1, <1>14, <2>1 DEF Get, log, file
<1>15. CASE Apply
  <2>1. job.i \in Indexes
    BY <1>0, <1>15, OutcomeType DEF Apply
  <2>2. \A i \in Indexes : i # job.i => index'[i] = index[i]
    <3>1. CASE AutoPersist
      BY <1>0, <1>15, <2>1, <3>1 DEF Apply, TypeOK
    <3>2. CASE ~AutoPersist
      BY <1>15, <3>2 DEF Apply
    <3> QED
      BY <3>1, <3>2
  <2> QED
    BY <1>0, <1>15, <2>2, DurableApply DEF Apply, log, file
<1>16. CASE ApplyDelete
  <2>1. job.i \in Indexes
    BY <1>0, <1>16, OutcomeType DEF ApplyDelete
  <2>2. \A i \in Indexes : i # job.i => index'[i] = index[i]
    <3>1. CASE index[job.i] = NoEntry
      BY <1>16, <3>1 DEF ApplyDelete
    <3>2. CASE index[job.i] # NoEntry
      BY <1>0, <1>16, <2>1, <3>2 DEF ApplyDelete, TypeOK
    <3> QED
      BY <3>1, <3>2
  <2> QED
    BY <1>0, <1>16, <2>2, DurableApply DEF ApplyDelete, log, file
<1>17. ASSUME NEW s \in Saves, Save(s) PROVE DurableInv'
  <2>1. /\ s # "compact" /\ task' = s /\ pc = "up" /\ pc' \in {"truncated", "indexed"}
        /\ index' = Flushed /\ UNCHANGED <<wal, cache, next>>
        /\ \A i \in Indexes : saved'[i] = NoEntry \/ saved'[i] = saved[i]
    BY <1>17 DEF Save, log, file, NoEntries
  <2>2. Running /\ Running' /\ pc' # "logged" /\ pc # "logged"
    BY <2>1 DEF Running
  <2>3. \A i \in Indexes : index'[i] # NoEntry => cache[i] # NoObject
    BY <1>0, <2>1, <2>2 DEF Flushed, LogIsComplete, TypeInv
  <2>4. LogIsComplete'
    BY <1>0, <2>1, <2>2, <2>3 DEF LogIsComplete
  <2>5. CacheMirrorsLog'
    BY <1>0, <2>1, <2>2 DEF CacheMirrorsLog
  <2> QED
    BY <1>0, <2>1, <2>4, <2>5 DEF DurableInv, NeverCompacting
<1>18. CASE WriteIndex
  <2>1. /\ Running /\ Running' /\ pc' = "indexed" /\ pc = "truncated" /\ saved' = index
        /\ UNCHANGED <<wal, index, cache, next, task>>
    BY <1>18 DEF WriteIndex, Running, log
  <2>2. LogIsComplete'
    BY <1>0, <2>1 DEF LogIsComplete, CacheMirrorsLog
  <2>3. CacheMirrorsLog'
    BY <1>0, <2>1 DEF CacheMirrorsLog
  <2> QED
    BY <1>0, <2>1, <2>2, <2>3 DEF DurableInv, NeverCompacting
<1>19. ASSUME pc \in {"indexed", "committed"}, pc' \in {"committed", "closing", "up"},
              task' # "compact", UNCHANGED <<wal, saved, index, cache, next>>
       PROVE  DurableInv'
  <2>1. Running /\ Running' /\ pc' # "logged" /\ pc # "logged"
    BY <1>19 DEF Running
  <2>2. LogIsComplete'
    BY <1>0, <1>19, <2>1 DEF LogIsComplete
  <2>3. CacheMirrorsLog'
    BY <1>0, <1>19, <2>1 DEF CacheMirrorsLog
  <2> QED
    BY <1>0, <1>19, <2>2, <2>3 DEF DurableInv, NeverCompacting
<1>20. CASE CommitLog
  BY <1>0, <1>19, <1>20 DEF CommitLog, NeverCompacting, log, file
<1>21. CASE UpdateHeader
  BY <1>0, <1>19, <1>21 DEF UpdateHeader, NeverCompacting, file
<1>22. CASE RemoveLog
  BY <1>0, <1>22 DEF RemoveLog, NeverCompacting
<1>23. CASE RewriteLog
  BY <1>0, <1>23 DEF RewriteLog, NeverCompacting
<1> QED
  BY <1>2, <1>3, <1>5, <1>6, <1>7, <1>10, <1>12, <1>13, <1>14, <1>15, <1>16, <1>17, <1>18,
     <1>20, <1>21, <1>22, <1>23 DEF Next

\* A step that leaves the view alone.
LEMMA Stutters ==
    ASSUME Contents = View, Contents' = View', Running' <=> Running,
           UNCHANGED <<wal, cache, job>>
    PROVE  UNCHANGED Durable!store
<1>1. Contents' = Contents
  BY DEF View
<1>2. Status' = Status
  BY DEF Status
<1> QED
  BY <1>1, <1>2 DEF Durable!store

\* A logged write begins a write of DurableStore.
LEMMA Begins ==
    ASSUME DurableInv, Contents = View, Contents' = View', NEW w \in Writes, Log(w),
           UNCHANGED cache, w.op = "Insert" <=> cache[w.i] = NoObject,
           w.op = "Delete" => cache[w.i].st = "live"
    PROVE  Durable!Next
<1>1. w.i \in Indexes /\ pc = "up" /\ pc' = "logged" /\ job' = w
  BY DEF Log, Writes
<1>2. Running /\ Running' /\ job = NoJob
  BY <1>1 DEF Running, DurableInv, TypeInv, WriteUnderWay
<1>3. Contents' = Contents /\ Status' = Status /\ Status = "open" /\ Contents[w.i] = cache[w.i]
  BY <1>1, <1>2 DEF View, Status
<1>4. Durable!Begin(w)
  BY <1>1, <1>2, <1>3 DEF Durable!Begin
<1>5. w \in Durable!Write
  BY DEF Durable!Write, Writes
<1> QED
  BY <1>4, <1>5 DEF Durable!Next

\* What the rest of a write does is what DurableStore says it does.
LEMMA ResultIsOutcome ==
    ASSUME DurableInv, pc = "logged", Contents = View
    PROVE  /\ job # NoJob
           /\ Durable!Written(job) = [cache EXCEPT ![job.i] = Outcome(job)]
<1>1. job \in Writes /\ job.i \in Indexes /\ job # NoJob
  BY OutcomeType DEF DurableInv, TypeInv, WriteUnderWay
<1>2. job.op \in AllOps
  BY <1>1 DEF Writes, AllOps
<1>3. cache \in [Indexes -> Objects \cup {NoObject}]
  BY DEF DurableInv, TypeInv, TypeOK
<1>4. Contents = cache
  BY <1>3 DEF View, Running
<1>5. Durable!Result(cache[job.i], job) = Outcome(job)
  BY <1>2 DEF Durable!Result, Outcome, AllOps
<1> QED
  BY <1>1, <1>4, <1>5 DEF Durable!Written

\* Each step of the engine is a step of DurableStore or none.
LEMMA DurableSimulation ==
    ASSUME "compact" \notin Ops, DurableInv, [Next]_vars
    PROVE  [Durable!Next]_(Durable!store)
<1>0. /\ DurableInv' /\ TypeOK /\ NeverCompacting /\ CacheMirrorsLog
      /\ Contents = View /\ Contents' = View'
      /\ \A i \in Indexes : Running => Found(i) = cache[i]
  <2>1. DurableInv'
    BY DurableStep
  <2>2. Contents = View /\ Contents' = View'
    BY <2>1, ViewIsContents, ViewIsContentsNext
  <2>3. \A i \in Indexes : Running => Found(i) = cache[i]
    BY DEF DurableInv, LogIsComplete, Found
  <2> QED
    BY <2>1, <2>2, <2>3 DEF DurableInv, TypeInv
<1>1. CASE UNCHANGED vars
  <2>1. Running' <=> Running
    BY <1>1 DEF vars, Running
  <2> QED
    BY <1>0, <1>1, <2>1, Stutters DEF vars
<1>2. CASE Open
  <2>1. ~Running /\ Running' /\ wal' = wal /\ job' = job
    BY <1>2 DEF Open, Running, log
  <2>2. View' = View
    BY <1>2, <2>1 DEF Open, View
  <2>3. Durable!Open
    BY <1>0, <2>1, <2>2 DEF Durable!Open, Status
  <2> QED
    BY <2>3 DEF Durable!Next
<1>3. CASE OpenFails
  <2>1. ~Running /\ ~Running' /\ UNCHANGED <<wal, cache, job>>
    BY <1>3 DEF OpenFails, Running, log, memory
  <2> QED
    BY <1>0, <2>1, Stutters
<1>4. ASSUME Running, ~Running', job' = NoJob, wal' = wal PROVE Durable!Next
  <2>1. View' = [i \in Indexes |-> Rebuilt(wal, i)]
    BY <1>4 DEF View
  <2>2. CASE pc # "logged"
    <3>1. View' = View
      BY <1>0, <1>4, <2>1, <2>2 DEF View, CacheMirrorsLog
    <3> QED
      BY <1>0, <1>4, <3>1 DEF Durable!Next, Durable!Stop, Status
  <2>3. CASE pc = "logged"
    <3>1. job # NoJob /\ Durable!Written(job) = [cache EXCEPT ![job.i] = Outcome(job)]
      BY <1>0, <2>3, ResultIsOutcome
    <3>2. cache \in [Indexes -> Objects \cup {NoObject}]
      BY <1>0 DEF TypeOK
    <3>3. View' = [cache EXCEPT ![job.i] = Outcome(job)]
      BY <1>0, <2>1, <2>3, <3>2 DEF CacheMirrorsLog
    <3> QED
      BY <1>0, <1>4, <3>1, <3>3 DEF Durable!Next, Durable!Stop, Status
  <2> QED
    BY <2>2, <2>3
<1>5. CASE Crash
  BY <1>4, <1>5 DEF Crash, Forgotten, Running, log
<1>6. CASE Close
  BY <1>4, <1>6 DEF Close, Forgotten, Running, log
<1>7. ASSUME NEW i \in Indexes, pc = "up", Found(i) \in Objects, Load(i)
      PROVE  cache' = cache /\ cache[i] \in Objects /\ Found(i) = cache[i]
  <2>1. Found(i) = cache[i]
    BY <1>0, <1>7 DEF Running
  <2> QED
    BY <1>0, <1>7, <2>1, StoreAssumption DEF Load, TypeOK
<1>8. ASSUME NEW v \in Vals, Create(v) PROVE Durable!Next
  <2> DEFINE w == [op |-> "Insert", i |-> next, val |-> v]
  <2>1. next \in Indexes /\ ~(next < next)
    BY <1>0, <1>8, StoreAssumption DEF Create, TypeOK, Indexes
  <2>2. w \in Writes /\ w.op = "Insert" /\ w.i = next /\ Log(w) /\ cache' = cache /\ pc = "up"
    BY <1>8, <2>1 DEF Create, Writes, Log
  <2>3. cache[next] = NoObject
    BY <1>0, <2>1, <2>2 DEF DurableInv, LogIsComplete, CacheMirrorsLog, Running
  <2> HIDE DEF w
  <2> QED
    BY <1>0, <2>2, <2>3, Begins
<1>9. ASSUME NEW v \in Vals, NEW i \in Indexes, Update(i, v) PROVE Durable!Next
  <2> DEFINE w == [op |-> "Update", i |-> i, val |-> v]
  <2>1. w \in Writes /\ w.op = "Update" /\ w.i = i /\ Log(w) /\ pc = "up"
    BY <1>9 DEF Update, Writes, Log
  <2>2. cache' = cache /\ cache[i] # NoObject
    BY <1>7, <1>9, <2>1, StoreAssumption DEF Update
  <2> HIDE DEF w
  <2> QED
    BY <1>0, <2>1, <2>2, Begins
<1>10. ASSUME NEW i \in Indexes, Delete(i) PROVE Durable!Next
  <2> DEFINE w == [op |-> "Delete", i |-> i, val |-> Found(i).val]
  <2>1. Found(i).val \in Vals
    BY <1>10 DEF Delete, Objects
  <2>2. w \in Writes /\ w.op = "Delete" /\ w.i = i /\ Log(w) /\ pc = "up"
    BY <1>10, <2>1 DEF Delete, Writes, Log
  <2>3. cache' = cache /\ cache[i] # NoObject /\ cache[i].st = "live"
    BY <1>7, <1>10, <2>2, StoreAssumption DEF Delete
  <2> HIDE DEF w
  <2> QED
    BY <1>0, <2>2, <2>3, Begins
<1>11. ASSUME NEW i \in Indexes, Get(i) PROVE UNCHANGED Durable!store
  <2>1. cache' = cache /\ (Running' <=> Running)
    BY <1>7, <1>11 DEF Get, Running
  <2> QED
    BY <1>0, <1>11, <2>1, Stutters DEF Get, log
<1>12. ASSUME pc = "logged", pc' = "up", job' = NoJob, cache' = [cache EXCEPT ![job.i] = Outcome(job)]
       PROVE  Durable!Next
  <2>1. job # NoJob /\ Durable!Written(job) = cache'
    BY <1>0, <1>12, ResultIsOutcome
  <2>2. Running /\ Running'
    BY <1>12 DEF Running
  <2>3. cache' \in [Indexes -> Objects \cup {NoObject}]
    BY <1>0 DEF DurableInv, TypeInv, TypeOK
  <2>4. Contents' = cache'
    BY <1>0, <2>2, <2>3 DEF View
  <2> QED
    BY <1>12, <2>1, <2>2, <2>4 DEF Durable!Next, Durable!End, Status
<1>13. CASE Apply
  BY <1>12, <1>13 DEF Apply
<1>14. CASE ApplyDelete
  BY <1>12, <1>14 DEF ApplyDelete
<1>15. ASSUME NEW s \in Saves, Save(s) PROVE UNCHANGED Durable!store
  <2>1. Running /\ Running'
    BY <1>15 DEF Save, Running
  <2> QED
    BY <1>0, <1>15, <2>1, Stutters DEF Save, log
<1>16. CASE WriteIndex
  <2>1. Running /\ Running'
    BY <1>16 DEF WriteIndex, Running
  <2> QED
    BY <1>0, <1>16, <2>1, Stutters DEF WriteIndex, log
<1>17. CASE CommitLog
  <2>1. Running /\ Running'
    BY <1>17 DEF CommitLog, Running
  <2> QED
    BY <1>0, <1>17, <2>1, Stutters DEF CommitLog, log
<1>18. CASE UpdateHeader
  <2>1. Running /\ Running'
    BY <1>18 DEF UpdateHeader, Running
  <2> QED
    BY <1>0, <1>18, <2>1, Stutters DEF UpdateHeader
<1>19. CASE RemoveLog
  BY <1>0, <1>19 DEF RemoveLog, NeverCompacting
<1>20. CASE RewriteLog
  BY <1>0, <1>20 DEF RewriteLog, NeverCompacting
<1> QED
  BY <1>1, <1>2, <1>3, <1>5, <1>6, <1>8, <1>9, <1>10, <1>11, <1>13, <1>14, <1>15, <1>16, <1>17,
     <1>18, <1>19, <1>20 DEF Next

\* The empty store satisfies the invariant and maps to the empty store.
LEMMA DurableInit == Init => DurableInv /\ Durable!Init
<1> SUFFICES ASSUME Init PROVE DurableInv /\ Durable!Init
  OBVIOUS
<1>1. ~Running /\ pc = "down"
  BY DEF Init, Running
<1>2. \A i \in Indexes : At(wal, i, {"Insert"}) = {}
  BY DEF Init, At
<1>3. wal \in Seq(LogEntry)
  BY DEF Init
<1>4. \A i \in Indexes : Rebuilt(wal, i) = NoObject
  BY <1>2, <1>3, RebuiltType
<1>5. LogIsComplete
  BY <1>1 DEF Init, LogIsComplete, NoEntries
<1>6. DurableInv
  BY <1>1, <1>5, TypeInit DEF Init, DurableInv, NeverCompacting, CacheMirrorsLog
<1>7. Contents = [i \in Indexes |-> NoObject]
  BY <1>1, <1>4, <1>6, ViewIsContents DEF View
<1> QED
  BY <1>1, <1>6, <1>7 DEF Init, Durable!Init, Status

(***************************************************************************)
(* A store whose log is never compacted implements DurableStore: whatever  *)
(* crash comes between whatever steps of create, update, delete, save,     *)
(* checkpoint and close, the next open brings back what was written, and   *)
(* of a write under way all or nothing.                                    *)
(***************************************************************************)
THEOREM DurableWithoutCompaction ==
    ASSUME "compact" \notin Ops
    PROVE  Spec => ImplementsDurable
<1>1. DurableInv /\ [Next]_vars => DurableInv' /\ [Durable!Next]_(Durable!store)
  BY DurableStep, DurableSimulation
<1> QED
  BY <1>1, DurableInit, PTL DEF Spec, ImplementsDurable, Durable!Spec

(***************************************************************************)
(* Without compaction what get answers now is what it would answer after a *)
(* restart: of the operations of the engine only compact_wal can break it. *)
(***************************************************************************)
THEOREM RestartWithoutCompaction ==
    ASSUME "compact" \notin Ops
    PROVE  Spec => []RestartBringsBack
<1>1. DurableInv => RestartBringsBack
  <2> SUFFICES ASSUME DurableInv, pc = "up", NEW i \in Indexes PROVE Recovered(i) = Found(i)
    BY DEF RestartBringsBack
  <2>1. Running /\ cache[i] = Rebuilt(wal, i)
    BY DEF Running, DurableInv, CacheMirrorsLog
  <2>2. Found(i) = cache[i]
    BY <2>1 DEF DurableInv, LogIsComplete, Found
  <2>3. Recovered(i) = Rebuilt(wal, i)
    BY DEF DurableInv, LogIsComplete, Recovered
  <2> QED
    BY <2>1, <2>2, <2>3
<1>2. DurableInv /\ [Next]_vars => DurableInv'
  BY DurableStep
<1> QED
  BY <1>1, <1>2, DurableInit, PTL DEF Spec

(***************************************************************************)
(* A store whose log is never compacted lists what get finds: its objects  *)
(* are all in the cache, so that the flags of the index are never read.    *)
(***************************************************************************)
THEOREM ListingWithoutCompaction ==
    ASSUME "compact" \notin Ops
    PROVE  Spec => []ListingExact
<1>1. DurableInv => ListingExact
  <2> SUFFICES ASSUME DurableInv, pc = "up", NEW i \in Indexes
               PROVE  Listed(i) <=> Found(i) \in Objects /\ Found(i).st = "live"
    BY DEF ListingExact
  <2>1. index[i] # NoEntry => cache[i] # NoObject
    BY DEF DurableInv, LogIsComplete, Running
  <2>2. Found(i) = cache[i] /\ cache[i] \in Objects \cup {NoObject}
    BY <2>1 DEF Found, DurableInv, TypeInv, TypeOK
  <2> QED
    BY <2>1, <2>2, StoreAssumption DEF Listed
<1>2. DurableInv /\ [Next]_vars => DurableInv'
  BY DurableStep
<1> QED
  BY <1>1, <1>2, DurableInit, PTL DEF Spec

(***************************************************************************)
(* A store that is compacted and never crashes.  The log no longer tells   *)
(* the whole story: what it rebuilds is right, but what it no longer       *)
(* rebuilds is in the saved index.                                         *)
(***************************************************************************)

\* LSNs grow along the log and stay below b.
Ordered(w, b) ==
    /\ \A k \in 1..Len(w) : w[k].lsn < b
    /\ \A j, k \in 1..Len(w) : j < k => w[j].lsn < w[k].lsn

\* A log whose last entry for object i is an Insert rebuilds what it inserted.
LEMMA RebuiltAtInsert ==
    ASSUME NEW w \in Seq(LogEntry), NEW i, NEW n \in 1..Len(w), w[n].i = i, w[n].op = "Insert",
           \A k \in 1..Len(w) : w[k].i = i => k <= n
    PROVE  Rebuilt(w, i) = [val |-> w[n].val, st |-> "live"]
<1>1. /\ At(w, i, {"Insert"}) \in SUBSET (1..n) /\ n \in At(w, i, {"Insert"})
      /\ At(w, i, AllOps) \in SUBSET (1..n) /\ n \in At(w, i, AllOps) /\ n \in Nat
  BY DEF At, AllOps
<1>2. Last(At(w, i, {"Insert"})) = n
  BY <1>1, LastIs
<1>3. From(w, i) = {n} /\ Giving(w, i) = {n}
  <2>1. From(w, i) = {n}
    BY <1>1, <1>2 DEF From
  <2> QED
    BY <2>1 DEF Giving
<1>4. Last(Giving(w, i)) = n
  BY <1>1, <1>3, LastIs
<1> QED
  BY <1>1, <1>3, <1>4, RebuiltAs

\* The entries of the log that compaction writes: one for each survivor.
LEMMA CompactedEntry ==
    ASSUME NEW w \in Seq(LogEntry), NEW n \in 1..Len(Compacted(w))
    PROVE  LET c == Compacted(w) IN
           /\ c[n].i \in Survivors(w) /\ Latest(w, c[n].i) \in Candidates(w, c[n].i)
           /\ c[n].op = w[Latest(w, c[n].i)].op /\ c[n].val = w[Latest(w, c[n].i)].val
           /\ c[n].lsn = n
           /\ n = Cardinality({r \in Survivors(w) : r <= c[n].i})
<1> DEFINE S == Survivors(w)
           nth(m) == CHOOSE s \in S : Cardinality({r \in S : r <= s}) = m
           entry(m) == [w[Latest(w, nth(m))] EXCEPT !.lsn = m]
<1>1. S \in SUBSET Indexes /\ Cardinality(S) \in Nat
  <2>1. S \in SUBSET Indexes
    BY DEF Survivors
  <2> QED
    BY <2>1, IndexSets
<1>2. Compacted(w) = [m \in 1..Cardinality(S) |-> entry(m)]
  BY DEF Compacted
<1>3. Len(Compacted(w)) = Cardinality(S)
  <2> HIDE DEF S, entry
  <2> QED
    BY <1>1, <1>2
<1>4. Compacted(w)[n] = entry(n) /\ n \in 1..Cardinality(S)
  <2> HIDE DEF S, entry
  <2> QED
    BY <1>2, <1>3
<1>5. nth(n) \in S /\ Cardinality({r \in S : r <= nth(n)}) = n
  BY <1>1, <1>4, Ranks
<1>6. Candidates(w, nth(n)) # {}
  BY <1>5 DEF Survivors
<1>7. Latest(w, nth(n)) \in Candidates(w, nth(n))
  BY <1>6, LatestFound
<1>8. w[Latest(w, nth(n))] \in LogEntry /\ w[Latest(w, nth(n))].i = nth(n)
  BY <1>7 DEF Candidates, At
<1>9. entry(n).i = nth(n) /\ entry(n).op = w[Latest(w, nth(n))].op
      /\ entry(n).val = w[Latest(w, nth(n))].val /\ entry(n).lsn = n
  <2> HIDE DEF nth
  <2> QED
    BY <1>8 DEF LogEntry
<1> HIDE DEF nth, entry
<1>10. Compacted(w)[n].i = nth(n)
  BY <1>4, <1>9
<1> QED
  BY <1>4, <1>5, <1>7, <1>9, <1>10

\* What a compacted log rebuilds, the log rebuilt.
LEMMA CompactedRebuilds ==
    ASSUME NEW w \in Seq(LogEntry), NEW b, Ordered(w, b), NEW i \in Indexes,
           Rebuilt(Compacted(w), i) # NoObject
    PROVE  Rebuilt(Compacted(w), i) = Rebuilt(w, i)
<1> DEFINE c == Compacted(w)
           l == Latest(w, i)
<1>1. c \in Seq(LogEntry)
  BY CompactedType
<1>2. PICK n \in 1..Len(c) : c[n].i = i /\ c[n].op = "Insert"
  <2>1. At(c, i, {"Insert"}) # {}
    BY <1>1, RebuiltType
  <2> QED
    BY <2>1 DEF At
<1>3. /\ i \in Survivors(w) /\ l \in Candidates(w, i)
      /\ w[l].op = "Insert" /\ c[n].val = w[l].val
  BY <1>2, CompactedEntry
<1>4. \A k \in 1..Len(c) : c[k].i = i => k = n
  <2> SUFFICES ASSUME NEW k \in 1..Len(c), c[k].i = i PROVE k = n
    OBVIOUS
  <2>1. k = Cardinality({r \in Survivors(w) : r <= i}) /\ n = Cardinality({r \in Survivors(w) : r <= i})
    BY <1>2, CompactedEntry
  <2> QED
    BY <2>1
<1>5. Rebuilt(c, i) = [val |-> c[n].val, st |-> "live"]
  <2>1. \A k \in 1..Len(c) : c[k].i = i => k <= n
    BY <1>4
  <2> HIDE DEF c
  <2> QED
    BY <1>1, <1>2, <2>1, RebuiltAtInsert
<1>6. /\ l \in 1..Len(w) /\ w[l].i = i
      /\ \A j \in Candidates(w, i) : w[j].lsn < w[l].lsn \/ (w[j].lsn = w[l].lsn /\ l <= j)
      /\ \A j \in At(w, i, {"Delete"}) : j <= l
  <2>1. \E k \in Candidates(w, i) : \A j \in Candidates(w, i) :
             w[j].lsn < w[k].lsn \/ (w[j].lsn = w[k].lsn /\ k <= j)
    BY <1>3, LatestExists
  <2>2. \A j \in Candidates(w, i) : w[j].lsn < w[l].lsn \/ (w[j].lsn = w[l].lsn /\ l <= j)
    BY <2>1 DEF Latest
  <2> QED
    BY <1>3, <2>2 DEF Candidates, At
<1>7. \A k \in 1..Len(w) : w[k].i = i => k <= l
  <2> SUFFICES ASSUME NEW k \in 1..Len(w), w[k].i = i, ~(k <= l) PROVE FALSE
    OBVIOUS
  <2>1. k > l /\ w[k].lsn \in Nat /\ w[l].lsn \in Nat /\ w[l].lsn < w[k].lsn
    BY <1>6, LsnType DEF Ordered
  <2>2. w[k] \in LogEntry
    OBVIOUS
  <2>3. w[k].op \in {"Insert", "Update", "Delete"}
    BY <2>2 DEF LogEntry
  <2>4. \A j \in At(w, i, {"Delete"}) : j <= k
    BY <1>6, <2>1 DEF At
  <2>5. k \in Candidates(w, i)
    BY <2>3, <2>4 DEF Candidates, At
  <2> QED
    BY <1>6, <2>1, <2>5
<1>8. Rebuilt(w, i) = [val |-> w[l].val, st |-> "live"]
  <2> HIDE DEF l
  <2> QED
    BY <1>3, <1>6, <1>7, RebuiltAtInsert
<1> QED
  BY <1>3, <1>5, <1>8

(***************************************************************************)
(* The entries of the primary index, in memory or on disk, and what get    *)
(* finds for an object.                                                    *)
(***************************************************************************)
Directory == IF Running THEN index ELSE saved

\* Object i is being created.
Coming(i) == pc = "logged" /\ job.op = "Insert" /\ i = job.i

\* The saved index is that of the memory unless it changed since.
IndexSaved ==
    /\ Running /\ changed = "no" => saved = index
    /\ pc \in {"indexed", "committed", "closing", "compacting", "removed"} => changed = "no"
    /\ pc \in {"truncated", "indexed", "committed", "closing", "compacting", "removed"} => dirty = {}

\* Objects were numbered without gaps, and each is dirty or has its entry.
Numbered ==
    /\ Running => \A i \in Indexes :
          index[i] # NoEntry \/ i \in dirty <=> i < next /\ ~Coming(i)
    /\ pc = "logged" /\ job.op = "Insert" => job.i + 1 = next
    /\ ~Running => \E n \in 1..(MaxIndex + 1) : \A i \in Indexes : saved[i] # NoEntry <=> i < n

\* A cached object is dirty or the record of its entry is up to date.
CacheIsIndexed ==
    Running => \A i \in Indexes :
        cache[i] # NoObject => i \in dirty \/ (index[i] # NoEntry /\ index[i].rec = cache[i])

\* What log w rebuilds of object i is what get finds.
Agrees(w, i) ==
    Rebuilt(w, i) # NoObject =>
        /\ Running => Rebuilt(w, i) = Found(i)
        /\ ~Running => saved[i] # NoEntry /\ Rebuilt(w, i) = saved[i].rec

LogAgrees ==
    /\ \A i \in Indexes : (pc = "logged" => i # job.i) => Agrees(wal, i)
    /\ pc = "logged" /\ Rebuilt(wal, job.i) # NoObject => Rebuilt(wal, job.i) = Outcome(job)
    /\ pc = "removed" => \A i \in Indexes : Agrees(kept, i)

\* LSNs of the log are those used so far; the header has the last one.
LsnsUsed ==
    /\ pc \notin {"down", "refused", "closing"} => Ordered(wal, lsn)
    /\ pc \in {"down", "refused", "closing"} => Ordered(wal, header + 1)
    /\ pc = "removed" => Ordered(kept, Len(kept) + 1)

CleanInv ==
    /\ TypeInv
    /\ IndexSaved
    /\ Numbered
    /\ CacheIsIndexed
    /\ LogAgrees
    /\ LsnsUsed

\* The empty store satisfies CleanInv.
LEMMA CleanInit == Init => CleanInv
<1> SUFFICES ASSUME Init PROVE CleanInv
  OBVIOUS
<1>1. ~Running /\ pc = "down" /\ TypeInv /\ wal = <<>> /\ \A i \in Indexes : saved[i] = NoEntry
  BY TypeInit DEF Init, Running, NoEntries
<1>2. IndexSaved /\ CacheIsIndexed
  BY <1>1 DEF IndexSaved, CacheIsIndexed
<1>3. Numbered
  <2>1. 1 \in 1..(MaxIndex + 1) /\ \A i \in Indexes : ~(i < 1)
    BY StoreAssumption DEF Indexes
  <2> QED
    BY <1>1, <2>1 DEF Numbered
<1>4. \A i \in Indexes : Rebuilt(wal, i) = NoObject
  <2>1. \A i \in Indexes : At(wal, i, {"Insert"}) = {}
    BY <1>1 DEF At
  <2>2. wal \in Seq(LogEntry)
    BY <1>1
  <2> QED
    BY <2>1, <2>2, RebuiltType
<1>5. LogAgrees
  BY <1>1, <1>4 DEF LogAgrees, Agrees
<1>6. LsnsUsed
  BY <1>1 DEF LsnsUsed, Ordered
<1> QED
  BY <1>1, <1>2, <1>3, <1>5, <1>6 DEF CleanInv

\* Open numbers the next object after the last.
LEMMA NextFreeNumbered ==
    ASSUME NEW w \in Seq(LogEntry), NEW entries, NEW n \in 1..(MaxIndex + 1),
           \A i \in Indexes : entries[i] # NoEntry <=> i < n,
           \A i \in Indexes : At(w, i, {"Insert"}) # {} => i < n
    PROVE  NextFree(w, entries) = n
<1> DEFINE used == {i \in Indexes : entries[i] # NoEntry}
<1>1. MaxIndex \in Nat /\ n \in Nat /\ n - 1 \in Nat
  BY StoreAssumption
<1>2. used = 1..(n - 1)
  BY <1>1 DEF Indexes
<1>3. Cardinality(used) = n - 1
  <2>1. Cardinality(1..(n - 1)) = IF 1 > n - 1 THEN 0 ELSE (n - 1) - 1 + 1
    BY <1>1, FS_Interval
  <2>2. Cardinality(1..(n - 1)) = n - 1
    BY <1>1, <2>1
  <2> HIDE DEF used
  <2> QED
    BY <1>2, <2>2
<1>4. n \in Beyond(w, entries)
  <2>1. n > Cardinality(used)
    BY <1>1, <1>3
  <2>2. \A i \in Indexes : At(w, i, {"Insert"}) # {} => n > i
    BY <1>1 DEF Indexes
  <2> QED
    BY <2>1, <2>2 DEF Beyond
<1>5. \A m \in Beyond(w, entries) : n <= m
  <2> SUFFICES ASSUME NEW m \in Beyond(w, entries) PROVE n <= m
    OBVIOUS
  <2>1. m \in 1..(MaxIndex + 1) /\ m > Cardinality(used)
    BY DEF Beyond
  <2> QED
    BY <1>1, <1>3, <2>1
<1>6. \A m \in Beyond(w, entries) : m \in Nat
  BY <1>1 DEF Beyond
<1>7. NextFree(w, entries) \in Beyond(w, entries) /\ \A m \in Beyond(w, entries) : NextFree(w, entries) <= m
  BY <1>4, <1>5 DEF NextFree
<1>8. NextFree(w, entries) <= n /\ n <= NextFree(w, entries) /\ NextFree(w, entries) \in Nat
  BY <1>4, <1>5, <1>6, <1>7
<1> QED
  BY <1>1, <1>8

\* The log of an engine that runs grows by one entry with the current LSN.
LEMMA OrderedAppend ==
    ASSUME NEW w \in Seq(LogEntry), NEW e \in LogEntry, Ordered(w, e.lsn)
    PROVE  Ordered(Append(w, e), e.lsn + 1)
<1>1. /\ Len(w) \in Nat /\ e.lsn \in Nat /\ Len(Append(w, e)) = Len(w) + 1 /\ Append(w, e)[Len(w) + 1] = e
      /\ \A k \in 1..Len(w) : Append(w, e)[k] = w[k] /\ w[k].lsn \in Nat
  BY AtAppend, LsnType DEF LogEntry
<1> QED
  BY <1>1 DEF Ordered

\* The write that Create, Update or Delete logs.
LEMMA CleanLog ==
    ASSUME CleanInv, NEW w \in Writes, Log(w), TypeInv',
           w.op = "Insert" => w.i = next /\ next' = next + 1 /\ cache' = cache,
           w.op # "Insert" => Found(w.i) \in Objects /\ Load(w.i) /\ next' = next
    PROVE  /\ CleanInv' /\ Running /\ Running'
           /\ \A i \in Indexes : Found(i)' = Found(i)
           /\ w.op = "Insert" => Found(w.i) = NoObject
<1> DEFINE e == [op |-> w.op, i |-> w.i, val |-> w.val, lsn |-> lsn]
<1>0. /\ TypeOK /\ TypeInv /\ IndexSaved /\ Numbered /\ CacheIsIndexed /\ LogAgrees /\ LsnsUsed
      /\ wal \in Seq(LogEntry) /\ next \in Nat /\ Indexes \subseteq Nat /\ lsn \in Nat
  BY StoreAssumption DEF CleanInv, TypeInv, TypeOK, Indexes
<1>1. /\ wal' = Append(wal, e) /\ e \in LogEntry /\ lsn' = lsn + 1
      /\ pc = "up" /\ pc' = "logged" /\ job' = w
      /\ UNCHANGED <<saved, header, index, changed, dirty, task, kept>>
  BY <1>0, LogFacts DEF Log, file
<1>2. e.i = w.i /\ e.op = w.op /\ e.val = w.val /\ e.lsn = lsn /\ w.i \in Indexes /\ w.op \in AllOps
  BY DEF Writes, AllOps
<1> HIDE DEF e
<1>3. Running /\ Running'
  BY <1>1 DEF Running
<1>4. /\ \A i \in Indexes : Found(i)' = Found(i)
      /\ \A i \in Indexes : cache'[i] # NoObject =>
             cache'[i] = cache[i] \/ (cache[i] = NoObject /\ index[i] # NoEntry /\ cache'[i] = index[i].rec)
      /\ w.op # "Insert" => cache'[w.i] = Found(w.i)
  <2>1. CASE w.op = "Insert"
    BY <1>1, <2>1 DEF Found
  <2>2. CASE w.op # "Insert"
    <3>1. /\ cache'[w.i] = Found(w.i) /\ cache'[w.i] # NoObject
          /\ \A j \in Indexes : j # w.i => cache'[j] = cache[j]
      BY <1>0, <1>2, <2>2, LoadFacts
    <3>2. Found(w.i) # NoObject
      BY <3>1
    <3>3. cache[w.i] # NoObject \/ (index[w.i] # NoEntry /\ Found(w.i) = index[w.i].rec)
      BY <3>2 DEF Found
    <3>4. Found(w.i)' = Found(w.i)
      BY <3>1 DEF Found
    <3>5. \A j \in Indexes : j # w.i => Found(j)' = Found(j)
      BY <1>1, <3>1 DEF Found
    <3>6. cache[w.i] # NoObject => Found(w.i) = cache[w.i]
      BY DEF Found
    <3> QED
      BY <3>1, <3>3, <3>4, <3>5, <3>6
  <2> QED
    BY <2>1, <2>2
<1>5. w.op = "Insert" => Found(w.i) = NoObject
  <2> SUFFICES ASSUME w.op = "Insert" PROVE Found(w.i) = NoObject
    OBVIOUS
  <2>1. ~(w.i < next)
    BY <1>0
  <2>2. index[w.i] = NoEntry /\ w.i \notin dirty
    BY <1>0, <1>2, <1>3, <2>1 DEF Numbered
  <2>3. cache[w.i] = NoObject
    BY <1>0, <1>2, <1>3, <2>2 DEF CacheIsIndexed
  <2> QED
    BY <2>2, <2>3 DEF Found
<1>6. IndexSaved'
  BY <1>0, <1>1, <1>3 DEF IndexSaved
<1>7. Numbered'
  <2>1. CASE w.op = "Insert"
    <3>1. \A i \in Indexes : i < next + 1 /\ i # next <=> i < next
      BY <1>0
    <3>2. \A i \in Indexes : Coming(i)' <=> i = next
      BY <1>1, <2>1 DEF Coming
    <3>3. \A i \in Indexes : index'[i] # NoEntry \/ i \in dirty' <=> i < next
      BY <1>0, <1>1, <1>3 DEF Numbered, Coming
    <3> QED
      BY <1>1, <1>3, <2>1, <3>1, <3>2, <3>3 DEF Numbered
  <2>2. CASE w.op # "Insert"
    BY <1>0, <1>1, <1>3, <2>2 DEF Numbered, Coming
  <2> QED
    BY <2>1, <2>2
<1>8. CacheIsIndexed'
  BY <1>0, <1>1, <1>3, <1>4 DEF CacheIsIndexed
<1>9. LogAgrees'
  <2>1. ASSUME NEW i \in Indexes, i # w.i PROVE Agrees(wal, i)'
    <3>1. Rebuilt(wal', i) = Rebuilt(wal, i)
      BY <1>0, <1>1, <1>2, <2>1, RebuiltOther
    <3>2. Agrees(wal, i)
      BY <1>0, <1>1 DEF LogAgrees
    <3> QED
      BY <1>3, <1>4, <3>1, <3>2 DEF Agrees
  <2>2. Rebuilt(wal', w.i) # NoObject => Rebuilt(wal', w.i) = Outcome(w)'
    <3>1. CASE w.op = "Insert"
      <4>1. Rebuilt(wal', w.i) = [val |-> w.val, st |-> "live"]
        BY <1>0, <1>1, <1>2, <3>1, RebuiltInsert
      <4> QED
        BY <3>1, <4>1 DEF Outcome
    <3>2. CASE w.op # "Insert"
      <4> SUFFICES ASSUME Rebuilt(wal', w.i) # NoObject PROVE Rebuilt(wal', w.i) = Outcome(w)'
        OBVIOUS
      <4>1. w.op \in {"Update", "Delete"}
        BY <1>2, <3>2 DEF AllOps
      <4>2. At(wal', w.i, {"Insert"}) = At(wal, w.i, {"Insert"})
        BY <1>0, <1>1, <1>2, <3>2, AtAppend
      <4>3. wal' \in Seq(LogEntry)
        BY DEF TypeInv, TypeOK
      <4>4. Rebuilt(wal, w.i) # NoObject
        BY <1>0, <4>2, <4>3, RebuiltType
      <4>5. Rebuilt(wal, w.i) = cache'[w.i]
        BY <1>0, <1>1, <1>2, <1>3, <1>4, <3>2, <4>4 DEF LogAgrees, Agrees
      <4>6. Rebuilt(wal', w.i) =
               [val |-> IF w.op = "Update" THEN w.val ELSE cache'[w.i].val,
                st  |-> IF w.op = "Update" THEN cache'[w.i].st ELSE "gone"]
        BY <1>0, <1>1, <1>2, <4>1, <4>4, <4>5, RebuiltChange
      <4> QED
        BY <4>1, <4>6 DEF Outcome
    <3> QED
      BY <3>1, <3>2
  <2> QED
    BY <1>1, <2>1, <2>2 DEF LogAgrees
<1>10. LsnsUsed'
  <2>1. Ordered(wal, e.lsn)
    BY <1>0, <1>1, <1>2 DEF LsnsUsed
  <2>2. Ordered(wal', lsn')
    BY <1>0, <1>1, <1>2, <2>1, OrderedAppend
  <2> QED
    BY <1>1, <2>2 DEF LsnsUsed
<1> QED
  BY <1>3, <1>4, <1>5, <1>6, <1>7, <1>8, <1>9, <1>10 DEF CleanInv

\* The steps that end a write.
LEMMA CleanApply ==
    ASSUME CleanInv, TypeInv', pc = "logged", pc' = "up",
           cache' = [cache EXCEPT ![job.i] = Outcome(job)],
           \A i \in Indexes : i # job.i => index'[i] = index[i] /\ (i \in dirty' <=> i \in dirty),
           job.i \in dirty' \/ (index'[job.i] # NoEntry /\ index'[job.i].rec = Outcome(job)),
           changed' = "yes" \/ (index' = index /\ changed' = changed),
           UNCHANGED <<wal, header, saved, next, lsn, kept>>
    PROVE  /\ CleanInv' /\ Running /\ Running'
           /\ \A i \in Indexes : Found(i)' = IF i = job.i THEN Outcome(job) ELSE Found(i)
<1>t. TypeOK /\ TypeInv /\ IndexSaved /\ Numbered /\ CacheIsIndexed /\ LogAgrees /\ LsnsUsed
  BY DEF CleanInv, TypeInv
<1>0. /\ TypeOK /\ TypeInv /\ IndexSaved /\ Numbered /\ CacheIsIndexed /\ LogAgrees /\ LsnsUsed
      /\ next \in Nat /\ Indexes \subseteq Nat
  BY <1>t, StoreAssumption DEF TypeOK, Indexes
<1>1. /\ job.i \in Indexes /\ Outcome(job) \in Objects /\ Outcome(job) # NoObject /\ job \in Writes
      /\ cache'[job.i] = Outcome(job)
      /\ \A i \in Indexes : i # job.i => cache'[i] = cache[i]
  BY <1>0, OutcomeType, StoreAssumption DEF TypeOK
<1>2. Running /\ Running' /\ \A i \in Indexes : ~Coming(i)'
  BY DEF Running, Coming
<1>3. \A i \in Indexes : Found(i)' = IF i = job.i THEN Outcome(job) ELSE Found(i)
  BY <1>1 DEF Found
<1>4. IndexSaved'
  BY <1>0, <1>2 DEF IndexSaved
<1>5. job.i < next
  <2>1. CASE job.op = "Insert"
    BY <1>0, <1>1, <2>1 DEF Numbered
  <2>2. CASE job.op # "Insert"
    <3>1. cache[job.i] # NoObject
      BY <1>0, <2>2 DEF TypeInv, WriteUnderWay
    <3>2. index[job.i] # NoEntry \/ job.i \in dirty
      BY <1>0, <1>1, <1>2, <3>1 DEF CacheIsIndexed
    <3> QED
      BY <1>0, <1>1, <1>2, <3>2 DEF Numbered
  <2> QED
    BY <2>1, <2>2
<1>6. Numbered'
  <2>1. ASSUME NEW i \in Indexes PROVE index'[i] # NoEntry \/ i \in dirty' <=> i < next
    <3>1. CASE i = job.i
      BY <1>5, <3>1
    <3>2. CASE i # job.i
      BY <1>0, <1>2, <3>2 DEF Numbered, Coming
    <3> QED
      BY <3>1, <3>2
  <2> QED
    BY <1>2, <2>1 DEF Numbered
<1>7. CacheIsIndexed'
  BY <1>0, <1>1, <1>2 DEF CacheIsIndexed
<1>8. LogAgrees'
  <2>1. ASSUME NEW i \in Indexes PROVE Agrees(wal, i)'
    <3>1. CASE i = job.i
      BY <1>0, <1>2, <1>3, <3>1 DEF LogAgrees, Agrees
    <3>2. CASE i # job.i
      BY <1>0, <1>2, <1>3, <3>2 DEF LogAgrees, Agrees
    <3> QED
      BY <3>1, <3>2
  <2> QED
    BY <2>1 DEF LogAgrees
<1>9. LsnsUsed'
  BY <1>0 DEF LsnsUsed
<1> QED
  BY <1>2, <1>3, <1>4, <1>6, <1>7, <1>8, <1>9 DEF CleanInv

\* A step of a running engine, outside any write, that leaves log, index and
\* cache as they are.
LEMMA CleanQuiet ==
    ASSUME CleanInv, Running, Running', pc # "logged", pc' \notin {"logged", "removed"},
           UNCHANGED <<wal, index, cache, dirty, next>>
    PROVE  Numbered' /\ CacheIsIndexed' /\ LogAgrees' /\ \A i \in Indexes : Found(i)' = Found(i)
<1>0. Numbered /\ CacheIsIndexed /\ LogAgrees
  BY DEF CleanInv
<1>1. \A i \in Indexes : Found(i)' = Found(i)
  BY DEF Found
<1>2. Numbered'
  BY <1>0 DEF Numbered, Coming
<1>3. CacheIsIndexed'
  BY <1>0 DEF CacheIsIndexed
<1>4. LogAgrees'
  BY <1>0, <1>1 DEF LogAgrees, Agrees
<1> QED
  BY <1>1, <1>2, <1>3, <1>4

\* Save keeps what get finds.
LEMMA CleanSave ==
    ASSUME CleanInv, NEW s \in Saves, Save(s), TypeInv'
    PROVE  CleanInv' /\ Running /\ Running' /\ \A i \in Indexes : Found(i)' = Found(i)
<1>0. TypeOK /\ TypeInv /\ IndexSaved /\ Numbered /\ CacheIsIndexed /\ LogAgrees /\ LsnsUsed
  BY DEF CleanInv, TypeInv
<1>1. /\ pc = "up" /\ pc' \in {"truncated", "indexed"} /\ index' = Flushed /\ dirty' = {}
      /\ UNCHANGED <<wal, header, cache, next, lsn, job, kept>>
      /\ changed' = (IF dirty # {} THEN "yes" ELSE changed)
      /\ changed' = "yes" => pc' = "truncated"
      /\ changed' # "yes" => pc' = "indexed" /\ saved' = saved
  BY DEF Save, log, file
<1>2. Running /\ Running'
  BY <1>1 DEF Running
<1>3. ASSUME NEW i \in Indexes
      PROVE  /\ i \in dirty => index'[i] # NoEntry /\ index'[i].rec = cache[i]
             /\ i \notin dirty => index'[i] = index[i]
  <2>1. i \in dirty => cache[i] \in Objects
    BY <1>0 DEF TypeInv, TypeOK
  <2>2. i \in dirty => Persisted(index[i], cache[i]) # NoEntry /\ Persisted(index[i], cache[i]).rec = cache[i]
    BY <1>0, <2>1, PersistedType DEF Persisted, TypeOK
  <2> QED
    BY <1>1, <2>2 DEF Flushed
<1>4. \A i \in Indexes : Found(i)' = Found(i)
  <2> SUFFICES ASSUME NEW i \in Indexes PROVE Found(i)' = Found(i)
    OBVIOUS
  <2>1. cache'[i] = cache[i] /\ (cache[i] = NoObject => index'[i] = index[i])
    BY <1>0, <1>1, <1>3 DEF TypeInv
  <2> QED
    BY <2>1 DEF Found
<1>5. IndexSaved'
  <2>1. CASE changed' = "yes"
    BY <1>1, <2>1 DEF IndexSaved
  <2>2. CASE changed' # "yes"
    <3>1. dirty = {} /\ changed = "no" /\ changed' = "no" /\ pc' = "indexed" /\ saved' = saved
      BY <1>0, <1>1, <2>2 DEF TypeOK
    <3>2. index' = index
      BY <1>0, <1>1, <3>1 DEF Flushed, TypeOK
    <3> QED
      BY <1>0, <1>1, <1>2, <3>1, <3>2 DEF IndexSaved
  <2> QED
    BY <2>1, <2>2
<1>6. Numbered'
  BY <1>0, <1>1, <1>2, <1>3 DEF Numbered, Coming
<1>7. CacheIsIndexed'
  BY <1>0, <1>1, <1>2, <1>3 DEF CacheIsIndexed
<1>8. LogAgrees'
  <2>1. pc' \notin {"logged", "removed"} /\ pc # "logged"
    BY <1>1
  <2> QED
    BY <1>0, <1>1, <1>2, <1>4, <2>1 DEF LogAgrees, Agrees
<1>9. LsnsUsed'
  BY <1>0, <1>1 DEF LsnsUsed
<1> QED
  BY <1>2, <1>4, <1>5, <1>6, <1>7, <1>8, <1>9 DEF CleanInv

\* Opening a store that was closed.
LEMMA CleanOpen ==
    ASSUME CleanInv, Open, TypeInv'
    PROVE  CleanInv'
<1>0. TypeOK /\ TypeInv /\ IndexSaved /\ Numbered /\ CacheIsIndexed /\ LogAgrees /\ LsnsUsed
  BY DEF CleanInv, TypeInv
<1>w. wal \in Seq(LogEntry) /\ header \in Nat
  BY <1>0 DEF TypeOK
<1>1. /\ ~Running /\ Running' /\ pc = "down" /\ pc' = "up" /\ wal' = wal /\ saved' = saved /\ index' = saved
      /\ dirty' = {} /\ next' = NextFree(wal, saved) /\ lsn' = header + 1
      /\ \A i \in Indexes : cache'[i] = Rebuilt(wal, i)
  BY DEF Open, Running, log, file
<1>2. \A i \in Indexes : Rebuilt(wal, i) # NoObject => saved[i] # NoEntry /\ Rebuilt(wal, i) = saved[i].rec
  BY <1>0, <1>1 DEF LogAgrees, Agrees
<1>3. PICK n \in 1..(MaxIndex + 1) : \A i \in Indexes : saved[i] # NoEntry <=> i < n
  BY <1>0, <1>1 DEF Numbered
<1>4. next' = n
  <2>1. \A i \in Indexes : At(wal, i, {"Insert"}) # {} => i < n
    BY <1>w, <1>2, <1>3, RebuiltType
  <2> QED
    BY <1>w, <1>1, <1>3, <2>1, NextFreeNumbered
<1>5. IndexSaved'
  BY <1>1 DEF IndexSaved
<1>6. Numbered'
  BY <1>1, <1>3, <1>4 DEF Numbered, Coming
<1>7. CacheIsIndexed'
  BY <1>1, <1>2 DEF CacheIsIndexed
<1>8. LogAgrees'
  <2>1. \A i \in Indexes : Rebuilt(wal, i) # NoObject => Found(i)' = Rebuilt(wal, i)
    BY <1>1 DEF Found
  <2> QED
    BY <1>1, <2>1 DEF LogAgrees, Agrees
<1>9. LsnsUsed'
  BY <1>0, <1>1 DEF LsnsUsed
<1> QED
  BY <1>5, <1>6, <1>7, <1>8, <1>9 DEF CleanInv

\* Closing leaves on disk what get finds.
LEMMA CleanClose ==
    ASSUME CleanInv, Close, TypeInv'
    PROVE  /\ CleanInv' /\ Running /\ ~Running'
           /\ \A i \in Indexes : Recovered(i) = Found(i)
           /\ UNCHANGED <<wal, saved>>
<1>0. TypeOK /\ TypeInv /\ IndexSaved /\ Numbered /\ CacheIsIndexed /\ LogAgrees /\ LsnsUsed
  BY DEF CleanInv, TypeInv
<1>1. /\ pc = "closing" /\ pc' = "down" /\ Running /\ ~Running' /\ UNCHANGED <<wal, header, saved>>
      /\ dirty = {} /\ saved = index
  BY <1>0 DEF Close, Running, log, file, IndexSaved
<1>2. \A i \in Indexes : cache[i] # NoObject => saved[i] # NoEntry /\ saved[i].rec = cache[i]
  BY <1>0, <1>1 DEF CacheIsIndexed
<1>3. \A i \in Indexes : Found(i) = IF saved[i] # NoEntry THEN saved[i].rec ELSE NoObject
  BY <1>1, <1>2 DEF Found
<1>4. \A i \in Indexes : Rebuilt(wal, i) # NoObject => saved[i] # NoEntry /\ Rebuilt(wal, i) = saved[i].rec
  BY <1>0, <1>1, <1>3 DEF LogAgrees, Agrees
<1>5. IndexSaved' /\ CacheIsIndexed'
  BY <1>1 DEF IndexSaved, CacheIsIndexed
<1>6. Numbered'
  <2>1. next \in 1..(MaxIndex + 1)
    BY <1>0 DEF TypeOK
  <2>2. \A i \in Indexes : saved'[i] # NoEntry <=> i < next
    BY <1>0, <1>1 DEF Numbered, Coming
  <2> QED
    BY <1>1, <2>1, <2>2 DEF Numbered
<1>7. LogAgrees'
  BY <1>1, <1>4 DEF LogAgrees, Agrees
<1>8. LsnsUsed'
  BY <1>0, <1>1 DEF LsnsUsed
<1>9. \A i \in Indexes : Recovered(i) = Found(i)
  BY <1>3, <1>4 DEF Recovered
<1> QED
  BY <1>1, <1>5, <1>6, <1>7, <1>8, <1>9 DEF CleanInv

\* compact_wal.
LEMMA CleanCompaction ==
    ASSUME CleanInv, RemoveLog \/ RewriteLog, TypeInv'
    PROVE  CleanInv' /\ Running /\ Running' /\ UNCHANGED <<index, cache, job>>
<1>0. TypeOK /\ TypeInv /\ IndexSaved /\ Numbered /\ CacheIsIndexed /\ LogAgrees /\ LsnsUsed
  BY DEF CleanInv, TypeInv
<1>w. wal \in Seq(LogEntry) /\ kept \in Seq(LogEntry)
  BY <1>0 DEF TypeOK
<1>1. /\ Running /\ Running' /\ pc \in {"compacting", "removed"} /\ pc' \in {"removed", "committed"}
      /\ UNCHANGED <<saved, index, changed, cache, dirty, next, job>>
  BY DEF RemoveLog, RewriteLog, Running, file, memory
<1>2. \A i \in Indexes : Found(i)' = Found(i)
  BY <1>1 DEF Found
<1>3. IndexSaved'
  BY <1>0, <1>1 DEF IndexSaved
<1>4. Numbered'
  BY <1>0, <1>1 DEF Numbered, Coming
<1>5. CacheIsIndexed'
  BY <1>0, <1>1 DEF CacheIsIndexed
<1>6. CASE RemoveLog
  <2>1. /\ pc = "compacting" /\ pc' = "removed" /\ wal' = <<>> /\ kept' = Compacted(wal) /\ lsn' = lsn
    BY <1>6 DEF RemoveLog, memory
  <2>2. \A i \in Indexes : Rebuilt(wal', i) = NoObject
    <3>1. \A i \in Indexes : At(wal', i, {"Insert"}) = {}
      BY <2>1 DEF At
    <3>2. wal' \in Seq(LogEntry)
      BY <2>1
    <3> QED
      BY <3>1, <3>2, RebuiltType
  <2>3. Ordered(wal, lsn)
    BY <1>0, <2>1 DEF LsnsUsed
  <2>4. \A i \in Indexes : Rebuilt(kept', i) # NoObject => Rebuilt(kept', i) = Rebuilt(wal, i)
    BY <1>w, <2>1, <2>3, CompactedRebuilds
  <2>5. \A i \in Indexes : Rebuilt(kept', i) # NoObject => Rebuilt(kept', i) = Found(i)
    BY <1>0, <1>1, <2>1, <2>4 DEF LogAgrees, Agrees
  <2>6. LogAgrees'
    BY <1>1, <1>2, <2>1, <2>2, <2>5 DEF LogAgrees, Agrees
  <2>7. Ordered(kept', Len(kept') + 1)
    <3>1. \A n \in 1..Len(kept') : kept'[n].lsn = n
      BY <1>w, <2>1, CompactedEntry
    <3>2. Len(kept') \in Nat
      BY DEF TypeInv, TypeOK
    <3> QED
      BY <3>1, <3>2 DEF Ordered
  <2>8. LsnsUsed'
    BY <2>1, <2>7 DEF LsnsUsed, Ordered
  <2> QED
    BY <1>1, <1>3, <1>4, <1>5, <2>6, <2>8 DEF CleanInv
<1>7. CASE RewriteLog
  <2>1. pc = "removed" /\ pc' = "committed" /\ wal' = kept /\ lsn' = Len(kept) + 2
    BY <1>7 DEF RewriteLog
  <2>2. LogAgrees'
    BY <1>0, <1>1, <1>2, <2>1 DEF LogAgrees, Agrees
  <2>3. Ordered(kept, Len(kept) + 1) /\ Len(kept) \in Nat /\ \A k \in 1..Len(kept) : kept[k].lsn \in Nat
    BY <1>0, <1>w, <2>1, LsnType DEF LsnsUsed
  <2>4. Ordered(kept, Len(kept) + 2)
    BY <2>3 DEF Ordered
  <2>5. LsnsUsed'
    BY <2>1, <2>4 DEF LsnsUsed
  <2> QED
    BY <1>1, <1>3, <1>4, <1>5, <2>2, <2>5 DEF CleanInv
<1> QED
  BY <1>1, <1>6, <1>7

\* A running engine in which get finds the same: no step of DurableStore.
LEMMA SameFound ==
    ASSUME Running, Running', \A i \in Indexes : Found(i)' = Found(i)
    PROVE  Contents' = Contents /\ Status' = Status /\ Status = "open"
<1>1. Contents' = Contents
  BY DEF Contents
<1> QED
  BY <1>1 DEF Status

\* A logged write begins a write of DurableStore.
LEMMA CleanBegins ==
    ASSUME CleanInv, NEW w \in Writes, Log(w), TypeInv',
           w.op = "Insert" => w.i = next /\ next' = next + 1 /\ cache' = cache,
           w.op # "Insert" => Found(w.i) \in Objects /\ Load(w.i) /\ next' = next,
           w.op = "Delete" => Found(w.i).st = "live"
    PROVE  CleanInv' /\ Durable!Next
<1>1. /\ CleanInv' /\ Running /\ Running'
      /\ \A i \in Indexes : Found(i)' = Found(i)
      /\ w.op = "Insert" => Found(w.i) = NoObject
  BY CleanLog
<1>2. w.i \in Indexes /\ job' = w /\ pc = "up" /\ w \in Durable!Write
  BY DEF Log, Writes, Durable!Write
<1>3. job = NoJob
  BY <1>2 DEF CleanInv, TypeInv, WriteUnderWay
<1>4. Contents' = Contents /\ Status' = Status /\ Status = "open"
  BY <1>1, SameFound
<1>5. Contents[w.i] = Found(w.i)
  BY <1>1, <1>2 DEF Contents
<1>6. w.op = "Insert" <=> Contents[w.i] = NoObject
  BY <1>1, <1>5, StoreAssumption
<1>7. Durable!Begin(w)
  BY <1>2, <1>3, <1>4, <1>5, <1>6 DEF Durable!Begin
<1> QED
  BY <1>1, <1>2, <1>7 DEF Durable!Next

\* The rest of a write ends it.
LEMMA CleanEnds ==
    ASSUME CleanInv, pc = "logged", job' = NoJob, Running, Running',
           \A i \in Indexes : Found(i)' = IF i = job.i THEN Outcome(job) ELSE Found(i)
    PROVE  Durable!Next
<1>1. TypeInv
  BY DEF CleanInv
<1>2. /\ job \in Writes /\ job.i \in Indexes /\ job # NoJob
      /\ job.op # "Insert" => cache[job.i] # NoObject
  BY <1>1, OutcomeType DEF TypeInv, WriteUnderWay
<1>3. job.op \in AllOps
  BY <1>2 DEF Writes, AllOps
<1>4. job.op # "Insert" => Found(job.i) = cache[job.i]
  BY <1>2 DEF Found
<1>5. Durable!Result(Found(job.i), job) = Outcome(job)
  BY <1>3, <1>4 DEF Durable!Result, Outcome, AllOps
<1>6. Contents = [i \in Indexes |-> Found(i)] /\ Contents' = [i \in Indexes |-> Found(i)']
  BY DEF Contents
<1>7. Contents' = [i \in Indexes |-> IF i = job.i THEN Outcome(job) ELSE Found(i)]
  BY <1>6
<1>8. Durable!Written(job) = Contents'
  BY <1>2, <1>5, <1>6, <1>7 DEF Durable!Written
<1> QED
  BY <1>2, <1>8 DEF Durable!Next, Durable!End, Status

\* Each step of an engine that does not crash keeps CleanInv, and is a step
\* of DurableStore or none.
LEMMA CleanSimulation ==
    ASSUME "crash" \notin Ops, CleanInv, [Next]_vars
    PROVE  CleanInv' /\ [Durable!Next]_(Durable!store)
<1>0. /\ TypeOK /\ TypeInv /\ TypeInv' /\ IndexSaved /\ Numbered /\ CacheIsIndexed /\ LogAgrees /\ LsnsUsed
  BY TypeStep DEF CleanInv, TypeInv
<1>t. lsn \in Nat \ {0} /\ wal \in Seq(LogEntry) /\ next \in 1..(MaxIndex + 1) /\ MaxIndex \in Nat
  BY <1>0, StoreAssumption DEF TypeOK
<1>1. CASE UNCHANGED vars
  <2>1. \A i \in Indexes : Found(i)' = Found(i) /\ Recovered(i)' = Recovered(i)
    BY <1>1 DEF vars, Found, Recovered
  <2>2. (Running' <=> Running) /\ job' = job
    BY <1>1 DEF vars, Running
  <2>3. UNCHANGED Durable!store
    BY <2>1, <2>2 DEF Durable!store, Contents, Status
  <2>4. Outcome(job)' = Outcome(job)
    BY <1>1 DEF vars, Outcome
  <2>5. IndexSaved' /\ CacheIsIndexed' /\ LsnsUsed'
    BY <1>0, <1>1, <2>2 DEF vars, IndexSaved, CacheIsIndexed, LsnsUsed
  <2>6. Numbered'
    BY <1>0, <1>1, <2>2 DEF vars, Numbered, Coming
  <2>7. LogAgrees'
    BY <1>0, <1>1, <2>1, <2>2, <2>4 DEF vars, LogAgrees, Agrees
  <2> QED
    BY <1>0, <2>3, <2>5, <2>6, <2>7 DEF CleanInv
<1>2. CASE Open
  <2>1. CleanInv'
    BY <1>0, <1>2, CleanOpen
  <2>2. /\ ~Running /\ Running' /\ job' = job /\ index' = saved
        /\ \A i \in Indexes : cache'[i] = Rebuilt(wal, i)
    BY <1>2 DEF Open, Running
  <2>3. \A i \in Indexes : Found(i)' = Recovered(i)
    BY <2>2 DEF Found, Recovered
  <2>4. Contents' = Contents
    BY <2>2, <2>3 DEF Contents
  <2> QED
    BY <2>1, <2>2, <2>4 DEF Durable!Next, Durable!Open, Status
<1>3. CASE OpenFails
  <2>1. /\ ~Running /\ ~Running' /\ pc = "down" /\ pc' = "refused"
        /\ UNCHANGED <<wal, header, saved, index, cache, job, dirty, next, lsn, kept, changed>>
    BY <1>3 DEF OpenFails, Running, log, file, memory
  <2>2. \A i \in Indexes : Recovered(i)' = Recovered(i)
    BY <2>1 DEF Recovered
  <2>3. UNCHANGED Durable!store
    BY <2>1, <2>2 DEF Durable!store, Contents, Status
  <2>4. IndexSaved' /\ CacheIsIndexed' /\ LsnsUsed'
    BY <1>0, <2>1 DEF IndexSaved, CacheIsIndexed, LsnsUsed
  <2>5. Numbered'
    BY <1>0, <2>1 DEF Numbered
  <2>6. LogAgrees'
    BY <1>0, <2>1 DEF LogAgrees, Agrees
  <2> QED
    BY <1>0, <2>3, <2>4, <2>5, <2>6 DEF CleanInv
<1>4. CASE Crash
  BY <1>4 DEF Crash
<1>5. CASE Close
  <2>1. /\ CleanInv' /\ Running /\ ~Running'
        /\ \A i \in Indexes : Recovered(i) = Found(i)
        /\ UNCHANGED <<wal, saved>>
    BY <1>0, <1>5, CleanClose
  <2>2. \A i \in Indexes : Recovered(i)' = Recovered(i)
    BY <2>1 DEF Recovered
  <2>3. Contents' = Contents
    BY <2>1, <2>2 DEF Contents
  <2>4. job' = NoJob
    BY <1>5 DEF Close, Forgotten
  <2> QED
    BY <2>1, <2>3, <2>4 DEF Durable!Next, Durable!Stop, Status
<1>6. ASSUME NEW v \in Vals, Create(v) PROVE CleanInv' /\ Durable!Next
  <2> DEFINE w == [op |-> "Insert", i |-> next, val |-> v]
  <2>1. next \in Indexes
    BY <1>t, <1>6 DEF Create, Indexes
  <2>2. w \in Writes /\ w.op = "Insert" /\ w.i = next /\ Log(w) /\ next' = next + 1 /\ cache' = cache
    BY <1>6, <2>1 DEF Create, Writes
  <2> HIDE DEF w
  <2> QED
    BY <1>0, <2>2, CleanBegins
<1>7. ASSUME NEW v \in Vals, NEW i \in Indexes, Update(i, v) PROVE CleanInv' /\ Durable!Next
  <2> DEFINE w == [op |-> "Update", i |-> i, val |-> v]
  <2>1. w \in Writes /\ w.op = "Update" /\ w.i = i /\ Log(w) /\ Found(i) \in Objects /\ Load(i) /\ next' = next
    BY <1>7 DEF Update, Writes
  <2> HIDE DEF w
  <2> QED
    BY <1>0, <2>1, CleanBegins
<1>8. ASSUME NEW i \in Indexes, Delete(i) PROVE CleanInv' /\ Durable!Next
  <2> DEFINE w == [op |-> "Delete", i |-> i, val |-> Found(i).val]
  <2>1. Found(i).val \in Vals
    BY <1>8 DEF Delete, Objects
  <2>2. /\ w \in Writes /\ w.op = "Delete" /\ w.i = i /\ Log(w)
        /\ Found(i) \in Objects /\ Load(i) /\ next' = next /\ Found(i).st = "live"
    BY <1>8, <2>1 DEF Delete, Writes
  <2> HIDE DEF w
  <2> QED
    BY <1>0, <2>2, CleanBegins
<1>9. ASSUME NEW i \in Indexes, Get(i) PROVE CleanInv' /\ UNCHANGED Durable!store
  <2>1. /\ pc = "up" /\ pc' = "up" /\ Running /\ Running' /\ cache[i] = NoObject
        /\ Found(i) \in Objects /\ Load(i)
        /\ UNCHANGED <<wal, header, saved, index, changed, dirty, next, lsn, job, kept>>
    BY <1>9 DEF Get, Running, log, file
  <2>2. cache'[i] = Found(i) /\ cache'[i] # NoObject /\ \A j \in Indexes : j # i => cache'[j] = cache[j]
    BY <1>0, <2>1, LoadFacts
  <2>3. index[i] # NoEntry /\ Found(i) = index[i].rec
    BY <2>1, <2>2 DEF Found
  <2>4. \A j \in Indexes : Found(j)' = Found(j)
    <3>1. Found(i)' = Found(i)
      BY <2>2 DEF Found
    <3>2. \A j \in Indexes : j # i => Found(j)' = Found(j)
      BY <2>1, <2>2 DEF Found
    <3> QED
      BY <3>1, <3>2
  <2>5. IndexSaved' /\ Numbered' /\ LsnsUsed'
    BY <1>0, <2>1 DEF IndexSaved, Numbered, Coming, LsnsUsed
  <2>6. CacheIsIndexed'
    BY <1>0, <2>1, <2>2, <2>3 DEF CacheIsIndexed
  <2>7. LogAgrees'
    BY <1>0, <2>1, <2>4 DEF LogAgrees, Agrees
  <2>8. UNCHANGED Durable!store
    BY <2>1, <2>4, SameFound DEF Durable!store
  <2> QED
    BY <1>0, <2>5, <2>6, <2>7, <2>8 DEF CleanInv
<1>10. CASE Apply
  <2>1. job.i \in Indexes /\ Outcome(job) \in Objects /\ index[job.i] \in Entries \cup {NoEntry}
    BY <1>0, <1>10, OutcomeType DEF Apply, TypeOK
  <2>2. Persisted(index[job.i], Outcome(job)) # NoEntry /\ Persisted(index[job.i], Outcome(job)).rec = Outcome(job)
    BY <2>1, PersistedType DEF Persisted
  <2>3. /\ \A i \in Indexes : i # job.i => index'[i] = index[i] /\ (i \in dirty' <=> i \in dirty)
        /\ job.i \in dirty' \/ (index'[job.i] # NoEntry /\ index'[job.i].rec = Outcome(job))
        /\ changed' = "yes" \/ (index' = index /\ changed' = changed)
    <3>1. CASE AutoPersist
      BY <1>0, <1>10, <2>1, <2>2, <3>1 DEF Apply, TypeOK
    <3>2. CASE ~AutoPersist
      BY <1>10, <3>2 DEF Apply
    <3> QED
      BY <3>1, <3>2
  <2>4. /\ pc = "logged" /\ pc' = "up" /\ job' = NoJob /\ cache' = [cache EXCEPT ![job.i] = Outcome(job)]
        /\ UNCHANGED <<wal, header, saved, next, lsn, kept>>
    BY <1>10 DEF Apply, log, file
  <2>5. /\ CleanInv' /\ Running /\ Running'
        /\ \A i \in Indexes : Found(i)' = IF i = job.i THEN Outcome(job) ELSE Found(i)
    BY <1>0, <2>3, <2>4, CleanApply
  <2> QED
    BY <2>4, <2>5, CleanEnds
<1>11. CASE ApplyDelete
  <2>1. job.i \in Indexes
    BY <1>0, <1>11, OutcomeType DEF ApplyDelete
  <2>2. \A i \in Indexes : i # job.i => index'[i] = index[i]
    <3>1. CASE index[job.i] = NoEntry
      BY <1>11, <3>1 DEF ApplyDelete
    <3>2. CASE index[job.i] # NoEntry
      BY <1>0, <1>11, <2>1, <3>2 DEF ApplyDelete, TypeOK
    <3> QED
      BY <3>1, <3>2
  <2>3. /\ pc = "logged" /\ pc' = "up" /\ job' = NoJob /\ cache' = [cache EXCEPT ![job.i] = Outcome(job)]
        /\ dirty' = dirty \cup {job.i}
        /\ changed' = "yes" \/ (index' = index /\ changed' = changed)
        /\ UNCHANGED <<wal, header, saved, next, lsn, kept>>
    BY <1>11 DEF ApplyDelete, log, file
  <2>4. /\ CleanInv' /\ Running /\ Running'
        /\ \A i \in Indexes : Found(i)' = IF i = job.i THEN Outcome(job) ELSE Found(i)
    BY <1>0, <2>2, <2>3, CleanApply
  <2> QED
    BY <2>3, <2>4, CleanEnds
<1>12. ASSUME NEW s \in Saves, Save(s) PROVE CleanInv' /\ UNCHANGED Durable!store
  <2>1. CleanInv' /\ Running /\ Running' /\ \A i \in Indexes : Found(i)' = Found(i)
    BY <1>0, <1>12, CleanSave
  <2>2. job' = job
    BY <1>12 DEF Save
  <2> QED
    BY <2>1, <2>2, SameFound DEF Durable!store
<1>13. CASE WriteIndex
  <2>1. /\ pc = "truncated" /\ pc' = "indexed" /\ saved' = index /\ changed' = "no"
        /\ UNCHANGED <<wal, header, index, cache, dirty, next, lsn, job, kept>>
    BY <1>13 DEF WriteIndex, log
  <2>2. Running /\ Running'
    BY <2>1 DEF Running
  <2>3. Numbered' /\ CacheIsIndexed' /\ LogAgrees' /\ \A i \in Indexes : Found(i)' = Found(i)
    BY <2>1, <2>2, CleanQuiet
  <2>4. IndexSaved' /\ LsnsUsed'
    BY <1>0, <2>1 DEF IndexSaved, LsnsUsed
  <2> QED
    BY <1>0, <2>1, <2>2, <2>3, <2>4, SameFound DEF CleanInv, Durable!store
<1>14. CASE CommitLog
  <2>1. /\ pc = "indexed" /\ pc' = "committed" /\ lsn' = lsn + 1
        /\ UNCHANGED <<wal, header, saved, changed, index, cache, dirty, next, job, kept>>
    BY <1>14 DEF CommitLog, log, file
  <2>2. Running /\ Running'
    BY <2>1 DEF Running
  <2>3. Numbered' /\ CacheIsIndexed' /\ LogAgrees' /\ \A i \in Indexes : Found(i)' = Found(i)
    BY <2>1, <2>2, CleanQuiet
  <2>4. IndexSaved'
    BY <1>0, <2>1, <2>2 DEF IndexSaved
  <2>5. Ordered(wal, lsn) /\ \A k \in 1..Len(wal) : wal[k].lsn \in Nat
    BY <1>0, <1>t, <2>1, LsnType DEF LsnsUsed
  <2>6. Ordered(wal, lsn + 1)
    BY <1>t, <2>5 DEF Ordered
  <2>7. LsnsUsed'
    BY <2>1, <2>6 DEF LsnsUsed
  <2> QED
    BY <1>0, <2>1, <2>2, <2>3, <2>4, <2>7, SameFound DEF CleanInv, Durable!store
<1>15. CASE UpdateHeader
  <2>1. /\ pc = "committed" /\ pc' \in {"compacting", "closing", "up"} /\ header' = lsn - 1
        /\ lsn' \in {lsn, lsn + 1}
        /\ UNCHANGED <<wal, saved, changed, index, cache, dirty, next, job, kept>>
    BY <1>15 DEF UpdateHeader, file
  <2>2. Running /\ Running' /\ pc # "logged" /\ pc' \notin {"logged", "removed"}
    BY <2>1 DEF Running
  <2>3. Numbered' /\ CacheIsIndexed' /\ LogAgrees' /\ \A i \in Indexes : Found(i)' = Found(i)
    BY <2>1, <2>2, CleanQuiet
  <2>4. IndexSaved'
    BY <1>0, <2>1, <2>2 DEF IndexSaved
  <2>5. Ordered(wal, lsn) /\ \A k \in 1..Len(wal) : wal[k].lsn \in Nat
    BY <1>0, <1>t, <2>1, LsnType DEF LsnsUsed
  <2>6. Ordered(wal, lsn + 1) /\ header' + 1 = lsn
    BY <1>t, <2>1, <2>5 DEF Ordered
  <2>7. Ordered(wal', lsn') /\ Ordered(wal', header' + 1)
    BY <2>1, <2>5, <2>6
  <2>8. LsnsUsed'
    BY <2>2, <2>7 DEF LsnsUsed
  <2> QED
    BY <1>0, <2>1, <2>2, <2>3, <2>4, <2>8, SameFound DEF CleanInv, Durable!store
<1>16. CASE RemoveLog \/ RewriteLog
  <2>1. CleanInv' /\ Running /\ Running' /\ UNCHANGED <<index, cache, job>>
    BY <1>0, <1>16, CleanCompaction
  <2>2. \A i \in Indexes : Found(i)' = Found(i)
    BY <2>1 DEF Found
  <2> QED
    BY <2>1, <2>2, SameFound DEF Durable!store
<1> QED
  BY <1>1, <1>2, <1>3, <1>4, <1>5, <1>6, <1>7, <1>8, <1>9, <1>10, <1>11, <1>12, <1>13, <1>14,
     <1>15, <1>16 DEF Next

(***************************************************************************)
(* A store that is always closed before its process ends implements        *)
(* DurableStore, compaction included: what compact_wal drops from the log  *)
(* the saved index brings back.                                            *)
(***************************************************************************)
THEOREM DurableWithoutCrash ==
    ASSUME "crash" \notin Ops
    PROVE  Spec => ImplementsDurable
<1>1. Init => CleanInv /\ Durable!Init
  BY CleanInit, DurableInit
<1>2. CleanInv /\ [Next]_vars => CleanInv' /\ [Durable!Next]_(Durable!store)
  BY CleanSimulation
<1> QED
  BY <1>1, <1>2, PTL DEF Spec, ImplementsDurable, Durable!Spec

(***************************************************************************)
(* With auto_persist every object gets its index entry while it is live,   *)
(* and delete marks it: the flag and the record of an entry, and the       *)
(* cached object, agree on whether the object is deleted.                  *)
(***************************************************************************)
Truthful(e) ==
    e # NoEntry =>
        /\ e.flag = "Active" => e.rec \in Objects /\ e.rec.st = "live"
        /\ e.flag = "Deleted" => e.rec = Broken \/ (e.rec \in Objects /\ e.rec.st = "gone")

FlagInv ==
    /\ \A i \in Indexes : Truthful(Directory[i])
    /\ Running => \A i \in Indexes :
          cache[i] # NoObject => index[i] # NoEntry /\ (cache[i].st = "live" <=> index[i].flag = "Active")

\* An object read from a truthful entry agrees with its flag.
LEMMA TruthfulRead ==
    ASSUME NEW e \in Entries \cup {NoEntry}, Truthful(e), e # NoEntry, e.rec \in Objects
    PROVE  e.rec.st = "live" <=> e.flag = "Active"
<1>1. e.flag \in {"Active", "Deleted"} /\ e.rec # Broken
  BY StoreAssumption DEF Entries
<1> QED
  BY <1>1 DEF Truthful

\* A record of an object with the right status keeps an entry truthful.
LEMMA TruthfulWritten ==
    ASSUME NEW e \in Entries \cup {NoEntry}, NEW o \in Objects,
           e = NoEntry => o.st = "live", e # NoEntry => (o.st = "live" <=> e.flag = "Active")
    PROVE  Truthful(Persisted(e, o)) /\ (o.st = "live" <=> Persisted(e, o).flag = "Active")
<1>1. o.st \in {"live", "gone"}
  BY DEF Objects
<1>2. e # NoEntry => e.flag \in {"Active", "Deleted"}
  BY DEF Entries
<1> QED
  BY <1>1, <1>2 DEF Persisted, Truthful

\* Every step that is not a crash keeps FlagInv.
LEMMA FlagStep ==
    ASSUME AutoPersist, "crash" \notin Ops, CleanInv, FlagInv, [Next]_vars
    PROVE  FlagInv'
<1>0. TypeOK /\ TypeInv /\ TypeInv' /\ IndexSaved /\ Numbered /\ CacheIsIndexed /\ LogAgrees
  BY TypeStep DEF CleanInv, TypeInv
<1>t. /\ \A i \in Indexes : index[i] \in Entries \cup {NoEntry} /\ saved[i] \in Entries \cup {NoEntry}
      /\ \A i \in Indexes : cache[i] \in Objects \cup {NoObject}
      /\ wal \in Seq(LogEntry)
  BY <1>0 DEF TypeOK
<1>r. Running => \A i \in Indexes :
        /\ Truthful(index[i])
        /\ cache[i] # NoObject => index[i] # NoEntry /\ (cache[i].st = "live" <=> index[i].flag = "Active")
  BY DEF FlagInv, Directory
<1>1. ASSUME Running, Running', UNCHANGED <<index, cache>> PROVE FlagInv'
  BY <1>1, <1>r DEF FlagInv, Directory
<1>2. CASE UNCHANGED vars
  <2>1. UNCHANGED <<pc, index, cache, saved>>
    BY <1>2 DEF vars
  <2> QED
    BY <2>1 DEF FlagInv, Directory, Running
<1>3. CASE Open
  <2>1. ~Running /\ Running' /\ index' = saved /\ \A i \in Indexes : cache'[i] = Rebuilt(wal, i)
    BY <1>3 DEF Open, Running
  <2>2. \A i \in Indexes : Truthful(saved[i])
    BY <2>1 DEF FlagInv, Directory
  <2>3. ASSUME NEW i \in Indexes, Rebuilt(wal, i) # NoObject
        PROVE  saved[i] # NoEntry /\ (Rebuilt(wal, i).st = "live" <=> saved[i].flag = "Active")
    <3>1. pc # "logged"
      BY <1>3 DEF Open
    <3>2. saved[i] # NoEntry /\ Rebuilt(wal, i) = saved[i].rec
      BY <1>0, <2>1, <2>3, <3>1 DEF LogAgrees, Agrees
    <3>3. Rebuilt(wal, i) \in Objects
      BY <1>t, <2>3, RebuiltType
    <3> QED
      BY <1>t, <2>2, <3>2, <3>3, TruthfulRead
  <2> QED
    BY <2>1, <2>2, <2>3 DEF FlagInv, Directory
<1>4. CASE OpenFails
  <2>1. ~Running /\ ~Running' /\ saved' = saved
    BY <1>4 DEF OpenFails, Running, file
  <2> QED
    BY <2>1 DEF FlagInv, Directory
<1>5. CASE Crash
  BY <1>5 DEF Crash
<1>6. CASE Close
  <2>1. Running /\ ~Running' /\ saved' = saved /\ saved = index
    BY <1>0, <1>6 DEF Close, Running, file, IndexSaved
  <2> QED
    BY <1>r, <2>1 DEF FlagInv, Directory
<1>7. ASSUME NEW v \in Vals, Create(v) PROVE FlagInv'
  BY <1>1, <1>7 DEF Create, Log, Running
<1>8. ASSUME NEW i \in Indexes, Running, Running', index' = index, Found(i) \in Objects, Load(i)
      PROVE  FlagInv'
  <2>1. cache'[i] = Found(i) /\ \A j \in Indexes : j # i => cache'[j] = cache[j]
    BY <1>0, <1>8, LoadFacts
  <2>2. index[i] # NoEntry /\ (Found(i).st = "live" <=> index[i].flag = "Active")
    <3>1. CASE cache[i] # NoObject
      <4>1. Found(i) = cache[i]
        BY <3>1 DEF Found
      <4> QED
        BY <1>8, <1>r, <3>1, <4>1
    <3>2. CASE cache[i] = NoObject
      <4>1. index[i] # NoEntry /\ Found(i) = index[i].rec
        BY <1>8, <3>2, StoreAssumption DEF Found
      <4> QED
        BY <1>8, <1>r, <1>t, <4>1, TruthfulRead
    <3> QED
      BY <3>1, <3>2
  <2> QED
    BY <1>8, <1>r, <2>1, <2>2 DEF FlagInv, Directory
<1>9. ASSUME NEW v \in Vals, NEW i \in Indexes, Update(i, v) PROVE FlagInv'
  BY <1>8, <1>9 DEF Update, Log, Running
<1>10. ASSUME NEW i \in Indexes, Delete(i) \/ Get(i) PROVE FlagInv'
  BY <1>8, <1>10 DEF Delete, Get, Log, Running
<1>11. CASE Apply \/ ApplyDelete
  <2>1. /\ Running /\ Running' /\ pc = "logged" /\ cache' = [cache EXCEPT ![job.i] = Outcome(job)]
    BY <1>11 DEF Apply, ApplyDelete, Running
  <2>2. /\ job.i \in Indexes /\ Outcome(job) \in Objects /\ job.op \in AllOps
        /\ job.op # "Insert" => cache[job.i] # NoObject
    BY <1>0, <2>1, OutcomeType DEF Writes, AllOps, TypeInv, WriteUnderWay
  <2>3. job.op = "Insert" => index[job.i] = NoEntry
    BY <1>0, <2>1, <2>2 DEF Numbered, Coming
  <2>4. job.op # "Insert" => index[job.i] # NoEntry /\ (cache[job.i].st = "live" <=> index[job.i].flag = "Active")
    BY <1>r, <2>1, <2>2
  <2>5. cache'[job.i] = Outcome(job) /\ \A i \in Indexes : i # job.i => cache'[i] = cache[i]
    BY <1>0, <2>1, <2>2 DEF TypeOK
  <2>6. /\ \A i \in Indexes : i # job.i => index'[i] = index[i]
        /\ index'[job.i] # NoEntry /\ Truthful(index'[job.i])
        /\ Outcome(job).st = "live" <=> index'[job.i].flag = "Active"
    <3>1. CASE Apply
      <4>1. index' = [index EXCEPT ![job.i] = Persisted(index[job.i], Outcome(job))] /\ job.op # "Delete"
        BY <3>1 DEF Apply
      <4>2. /\ index'[job.i] = Persisted(index[job.i], Outcome(job))
            /\ \A i \in Indexes : i # job.i => index'[i] = index[i]
        BY <1>0, <2>2, <4>1 DEF TypeOK
      <4>3. /\ index[job.i] = NoEntry => Outcome(job).st = "live"
            /\ index[job.i] # NoEntry => (Outcome(job).st = "live" <=> index[job.i].flag = "Active")
        BY <2>2, <2>3, <2>4, <4>1 DEF Outcome, AllOps
      <4>4. Persisted(index[job.i], Outcome(job)) # NoEntry
        BY <1>t, <2>2, PersistedType
      <4> QED
        BY <1>t, <2>2, <4>2, <4>3, <4>4, TruthfulWritten
    <3>2. CASE ApplyDelete
      <4>1. index' = [index EXCEPT ![job.i] = [rec |-> Broken, flag |-> "Deleted"]] /\ job.op = "Delete"
        BY <2>4, <3>2 DEF ApplyDelete
      <4>2. /\ index'[job.i] = [rec |-> Broken, flag |-> "Deleted"]
            /\ \A i \in Indexes : i # job.i => index'[i] = index[i]
        BY <1>0, <2>2, <4>1 DEF TypeOK
      <4>3. [rec |-> Broken, flag |-> "Deleted"] # NoEntry
        <5>1. [rec |-> Broken, flag |-> "Deleted"] \in Entries
          BY DEF Entries
        <5> QED
          BY <5>1, StoreAssumption
      <4>4. Outcome(job).st = "gone"
        BY <4>1 DEF Outcome
      <4> QED
        BY <4>2, <4>3, <4>4 DEF Truthful
    <3> QED
      BY <1>11, <3>1, <3>2
  <2>7. ASSUME NEW i \in Indexes
        PROVE  /\ Truthful(index'[i])
               /\ cache'[i] # NoObject => index'[i] # NoEntry /\ (cache'[i].st = "live" <=> index'[i].flag = "Active")
    <3>1. CASE i = job.i
      BY <2>5, <2>6, <3>1
    <3>2. CASE i # job.i
      BY <1>r, <2>1, <2>5, <2>6, <3>2
    <3> QED
      BY <3>1, <3>2
  <2>8. \A i \in Indexes : Truthful(Directory[i])'
    BY <2>1, <2>7 DEF Directory, Truthful
  <2> QED
    BY <2>1, <2>7, <2>8 DEF FlagInv
<1>12. ASSUME NEW s \in Saves, Save(s) PROVE FlagInv'
  <2>1. Running /\ Running' /\ index' = Flushed /\ cache' = cache
    BY <1>12 DEF Save, Running
  <2>2. ASSUME NEW i \in Indexes
        PROVE  /\ Truthful(Flushed[i])
               /\ cache[i] # NoObject => Flushed[i] # NoEntry /\ (cache[i].st = "live" <=> Flushed[i].flag = "Active")
    <3>1. CASE i \in dirty
      <4>1. cache[i] # NoObject /\ cache[i] \in Objects /\ Flushed[i] = Persisted(index[i], cache[i])
        BY <1>0, <1>t, <3>1 DEF TypeInv, Flushed
      <4>2. index[i] # NoEntry /\ (cache[i].st = "live" <=> index[i].flag = "Active")
        BY <1>r, <2>1, <4>1
      <4>3. Truthful(Flushed[i]) /\ (cache[i].st = "live" <=> Flushed[i].flag = "Active")
        BY <1>t, <4>1, <4>2, TruthfulWritten
      <4>4. Flushed[i] # NoEntry
        BY <1>t, <4>1, PersistedType
      <4> QED
        BY <4>3, <4>4
    <3>2. CASE i \notin dirty
      BY <1>r, <2>1, <3>2 DEF Flushed
    <3> QED
      BY <3>1, <3>2
  <2> QED
    BY <2>1, <2>2 DEF FlagInv, Directory
<1>13. CASE WriteIndex \/ CommitLog \/ UpdateHeader
  <2>1. Running /\ Running' /\ UNCHANGED <<index, cache>>
    BY <1>13 DEF WriteIndex, CommitLog, UpdateHeader, Running
  <2> QED
    BY <1>1, <2>1
<1>14. CASE RemoveLog \/ RewriteLog
  <2>1. Running /\ Running' /\ UNCHANGED <<index, cache>>
    BY <1>14 DEF RemoveLog, RewriteLog, Running, memory
  <2> QED
    BY <1>1, <2>1
<1> QED
  BY <1>2, <1>3, <1>4, <1>5, <1>6, <1>7, <1>9, <1>10, <1>11, <1>12, <1>13, <1>14 DEF Next

(***************************************************************************)
(* With auto_persist and a process that never dies inside the store, all() *)
(* and get agree on every object, before and after compaction and restart. *)
(***************************************************************************)
THEOREM ListingWithoutCrash ==
    ASSUME AutoPersist, "crash" \notin Ops
    PROVE  Spec => []ListingExact
<1>1. CleanInv /\ FlagInv => ListingExact
  <2> SUFFICES ASSUME CleanInv, FlagInv, pc = "up", NEW i \in Indexes
               PROVE  Listed(i) <=> Found(i) \in Objects /\ Found(i).st = "live"
    BY DEF ListingExact
  <2>1. /\ Running /\ ~Coming(i) /\ cache[i] \in Objects \cup {NoObject}
        /\ index[i] \in Entries \cup {NoEntry} /\ Truthful(index[i])
    BY DEF Running, Coming, CleanInv, TypeInv, TypeOK, FlagInv, Directory
  <2>2. CASE cache[i] # NoObject
    BY <2>1, <2>2 DEF Listed, Found
  <2>3. CASE cache[i] = NoObject /\ index[i] = NoEntry
    BY <2>3, StoreAssumption DEF Listed, Found
  <2>4. CASE cache[i] = NoObject /\ index[i] # NoEntry
    <3>1. i < next
      BY <2>1, <2>4 DEF CleanInv, Numbered
    <3>2. Found(i) = index[i].rec
      BY <2>4 DEF Found
    <3>3. index[i].flag \in {"Active", "Deleted"}
      BY <2>1, <2>4 DEF Entries
    <3> QED
      BY <2>1, <2>4, <3>1, <3>2, <3>3, StoreAssumption DEF Listed, Truthful
  <2> QED
    BY <2>2, <2>3, <2>4
<1>2. Init => CleanInv /\ FlagInv
  <2>1. Init => FlagInv
    BY DEF Init, FlagInv, Directory, Running, NoEntries, Truthful
  <2> QED
    BY <2>1, CleanInit
<1>3. CleanInv /\ FlagInv /\ [Next]_vars => CleanInv' /\ FlagInv'
  BY CleanSimulation, FlagStep
<1> QED
  BY <1>1, <1>2, <1>3, PTL DEF Spec

=============================================================================
