---------------------------- MODULE LoaderProofs ----------------------------
(***************************************************************************)
(* Proofs about Loader, for any files, use lines and entries, any number   *)
(* of calls and changes: a call with a clear cache, or of load_modules,    *)
(* gives every module needed once and in order, or fails for a reason; and *)
(* the cache never brings old text the first time a program is loaded      *)
(* again, though files were edited or removed in between.                  *)
(*                                                                         *)
(* The second is proved from a plan of the first load: for each file, how  *)
(* much text there was when it was begun and when it was closed.  The plan *)
(* is a witness that the invariant quantifies over: it is made while the   *)
(* first load goes on, stays true of the cache between the calls, and the  *)
(* load that follows moves along it, by a module at a time or by all that  *)
(* a valid entry holds.                                                    *)
(***************************************************************************)
EXTENDS Loader, SequenceTheorems, TLAPS

(* A piece of text: the file it is from and the time it was last changed.   *)
Piece == Files \X Nat

(* A file begun, as in Open, a cached module and a call.                    *)
Frame == [file : Files, time : Nat, uses : Seq(STRING), deps : SUBSET Files, from : Nat]

CacheEntry == [content : Seq(Piece), time : Nat, dependencies : SUBSET Files]

CallType == [op : {"none", "load", "load_modules"}, entry : Places,
             status : {"idle", "walking", "done", "circular", "missing"},
             steady : BOOLEAN, fresh : BOOLEAN, checked : BOOLEAN]

(* The types of the variables, by part.                                     *)
DiskType ==
    /\ DOMAIN disk \subseteq Files
    /\ \A f \in DOMAIN disk : disk[f] \in [uses : Seq(STRING), time : Nat]
    /\ clock \in Nat

CacheType ==
    /\ DOMAIN cache \subseteq Files
    /\ \A f \in DOMAIN cache : cache[f] \in CacheEntry

WalkType ==
    /\ roots \in Seq(Files)
    /\ stack \in Seq(Frame)
    /\ included \subseteq Files
    /\ text \in Seq(Piece)

(* A file begun is being used by the one below it on the stack. *)
Shape ==
    /\ \A i \in 1 .. Len(stack) : stack[i].from <= Len(text)
    /\ \A i \in 1 .. Len(stack) - 1 : stack[i].uses # <<>>
    /\ stack # <<>> => roots # <<>>

(* Nothing is left of a walk when the call ends.                            *)
CallInv ==
    /\ call \in CallType
    /\ known \in Files \cup {Unresolved, Several}
    /\ Walking => call.entry \in Files /\ call.op \in {"load", "load_modules"}
    /\ ~Walking => roots = <<>> /\ stack = <<>> /\ included = {}

TypeOK == DiskType /\ CacheType /\ WalkType /\ Shape /\ CallInv

-----------------------------------------------------------------------------

\* resolve_module gives a file there is, or none.
LEMMA ResolveIn ==
    ASSUME NEW f, NEW n
    PROVE  Resolve(f, n) \in DOMAIN disk \cup {Unresolved}
BY DEF Resolve, Exists

\* The answer for a name that is not found is no file.
LEMMA UnresolvedMissing ==
    ASSUME DiskType
    PROVE  ~Exists(Unresolved)
BY LoaderAssumption, SMTT(30) DEF DiskType, Exists

\* The stack without the file on top.
LEMMA RestFacts ==
    ASSUME NEW s \in Seq(Frame), s # <<>>
    PROVE  /\ Rest(s) \in Seq(Frame)
           /\ Len(Rest(s)) = Len(s) - 1
           /\ Len(s) \in Nat \ {0}
           /\ \A i \in 1 .. Len(s) - 1 : Rest(s)[i] = s[i]
<1> DEFINE m == Len(s) - 1
           r == SubSeq(s, 1, m)
<1>1. Len(s) \in Nat /\ Len(s) # 0 /\ m \in Nat /\ Len(s) = m + 1
  BY EmptySeq
<1>2. \A i \in 1 .. m : s[i] \in Frame
  BY <1>1, ElementOfSeq
<1>3. Rest(s) = r
  BY DEF Rest
<1> HIDE DEF m
<1>4. /\ r \in Seq(Frame)
      /\ Len(r) = IF 1 <= m THEN m - 1 + 1 ELSE 0
      /\ \A i \in 1 .. m - 1 + 1 : r[i] = s[1 + i - 1]
  BY <1>1, <1>2, SubSeqProperties
<1> HIDE DEF r
<1>5. Len(r) = m /\ \A i \in 1 .. m : r[i] = s[i]
  BY <1>1, <1>4
<1>. QED BY <1>1, <1>3, <1>4, <1>5 DEF m

\* The file on top once one of its uses has been gone through.
LEMMA StackAfterFacts ==
    ASSUME NEW s \in Seq(Frame), NEW f \in Files,
           s # <<>>, s[Len(s)].uses # <<>>
    PROVE  /\ StackAfter(s, f) \in Seq(Frame)
           /\ Len(StackAfter(s, f)) = Len(s)
           /\ \A i \in 1 .. Len(s) - 1 : StackAfter(s, f)[i] = s[i]
           /\ LET t == StackAfter(s, f)[Len(s)] IN
                 /\ t.file = s[Len(s)].file
                 /\ t.time = s[Len(s)].time
                 /\ t.from = s[Len(s)].from
                 /\ t.uses = Tail(s[Len(s)].uses)
                 /\ t.deps = s[Len(s)].deps \cup {f}
<1> DEFINE n == Len(s)
           e == Advanced(s[n], f)
<1>1. n \in Nat /\ n # 0 /\ n \in 1 .. Len(s) /\ s[n] \in Frame
  BY EmptySeq
<1>2. Tail(s[n].uses) \in Seq(STRING) /\ s[n].deps \cup {f} \in SUBSET Files
  BY <1>1, HeadTailProperties DEF Frame
<1>3. e \in Frame
  BY <1>1, <1>2 DEF Frame, Advanced
<1>4. StackAfter(s, f) = [s EXCEPT ![n] = e]
  BY DEF StackAfter
<1>5. /\ [s EXCEPT ![n] = e] \in Seq(Frame)
      /\ Len([s EXCEPT ![n] = e]) = n
      /\ \A j \in 1 .. n : [s EXCEPT ![n] = e][j] = IF j = n THEN e ELSE s[j]
  BY <1>1, <1>3, ExceptSeq
<1>6. e.file = s[n].file /\ e.time = s[n].time /\ e.from = s[n].from
      /\ e.uses = Tail(s[n].uses) /\ e.deps = s[n].deps \cup {f}
  BY <1>1 DEF Frame, Advanced
<1>7. /\ StackAfter(s, f) \in Seq(Frame)
      /\ Len(StackAfter(s, f)) = n
      /\ \A j \in 1 .. n : StackAfter(s, f)[j] = IF j = n THEN e ELSE s[j]
  BY <1>4, <1>5
<1>8. StackAfter(s, f)[n] = e /\ \A i \in 1 .. n - 1 : StackAfter(s, f)[i] = s[i]
  BY <1>1, <1>7
<1>. HIDE DEF e
<1>. QED BY <1>6, <1>7, <1>8

\* The next file to go through, when there is one.
LEMMA TargetIn ==
    ASSUME TypeOK, Pending
    PROVE  /\ Target \in Places
           /\ Exists(Target) => Target \in Files
           /\ Target \in included => Target \in Files
           /\ roots # <<>>
           /\ stack # <<>> => Top \in Frame /\ Top.uses # <<>>
<1>1. CASE stack = <<>>
  BY <1>1, HeadTailProperties DEF TypeOK, WalkType, Pending, Target, Places, DiskType, Exists
<1>2. CASE stack # <<>>
  <2>1. Top \in Frame /\ Top.uses # <<>>
    BY <1>2, EmptySeq, ElementOfSeq DEF TypeOK, WalkType, Pending, Top
  <2>2. Target \in DOMAIN disk \cup {Unresolved}
    BY <1>2, ResolveIn DEF Target
  <2>. QED BY <1>2, <2>1, <2>2 DEF TypeOK, WalkType, Shape, DiskType, Places, Exists
<1>. QED BY <1>1, <1>2

\* What is left to do once a file has been gone through: the stack and the
\* roots.
LEMMA UseDone ==
    ASSUME NEW b \in Seq(Frame), NEW r \in Seq(Files), NEW f \in Files,
           r # <<>>, b # <<>> => b[Len(b)].uses # <<>>
    PROVE  /\ StackAfter(b, f) \in Seq(Frame)
           /\ Len(StackAfter(b, f)) = Len(b)
           /\ Len(b) \in Nat
           /\ b = <<>> <=> Len(b) = 0
           /\ \A i \in 1 .. Len(b) - 1 : StackAfter(b, f)[i] = b[i]
           /\ b # <<>> =>
                 LET t == StackAfter(b, f)[Len(b)] IN
                 /\ t.file = b[Len(b)].file
                 /\ t.time = b[Len(b)].time
                 /\ t.from = b[Len(b)].from
                 /\ t.uses = Tail(b[Len(b)].uses)
                 /\ t.deps = b[Len(b)].deps \cup {f}
           /\ RootsAfter(b, r) \in Seq(Files)
           /\ b = <<>> => StackAfter(b, f) = <<>> /\ RootsAfter(b, r) = Tail(r)
           /\ b # <<>> => RootsAfter(b, r) = r
<1>1. CASE b = <<>>
  <2>1. StackAfter(b, f) = <<>> /\ RootsAfter(b, r) = Tail(r)
    BY <1>1 DEF StackAfter, RootsAfter
  <2>2. Len(b) = 0 /\ Tail(r) \in Seq(Files) /\ StackAfter(b, f) = b
    BY <1>1, <2>1, HeadTailProperties
  <2>. QED BY <1>1, <2>1, <2>2
<1>2. CASE b # <<>>
  <2>1. RootsAfter(b, r) = r
    BY <1>2 DEF RootsAfter
  <2>2. Len(b) \in Nat /\ Len(b) # 0
    BY <1>2, EmptySeq
  <2>3. /\ StackAfter(b, f) \in Seq(Frame)
        /\ Len(StackAfter(b, f)) = Len(b)
        /\ \A i \in 1 .. Len(b) - 1 : StackAfter(b, f)[i] = b[i]
        /\ StackAfter(b, f)[Len(b)].file = b[Len(b)].file
        /\ StackAfter(b, f)[Len(b)].time = b[Len(b)].time
        /\ StackAfter(b, f)[Len(b)].from = b[Len(b)].from
        /\ StackAfter(b, f)[Len(b)].uses = Tail(b[Len(b)].uses)
        /\ StackAfter(b, f)[Len(b)].deps = b[Len(b)].deps \cup {f}
    BY <1>2, StackAfterFacts
  <2>. QED BY <1>2, <2>1, <2>2, <2>3
<1>. QED BY <1>1, <1>2

-----------------------------------------------------------------------------
(* Type correctness. *)

\* update_module_info changes the entry of one file.
LEMMA CachedType ==
    ASSUME DiskType, CacheType, NEW f \in Files, NEW content \in Seq(Piece),
           NEW deps \in SUBSET Files, cache' = Cached(cache, f, content, deps)
    PROVE  /\ CacheType'
           /\ DOMAIN cache' = DOMAIN cache \cup {f}
           /\ \A g \in DOMAIN cache : g # f => cache'[g] = cache[g]
           /\ cache'[f].content = content
           /\ cache'[f].dependencies = deps
           /\ Exists(f) => cache'[f].time = disk[f].time
<1> DEFINE e == [content |-> content, time |-> IF Exists(f) THEN disk[f].time ELSE 0,
                 dependencies |-> deps]
<1>1. e \in CacheEntry
  BY DEF CacheEntry, DiskType, Exists
<1>2. e.content = content /\ e.dependencies = deps /\ (Exists(f) => e.time = disk[f].time)
  OBVIOUS
<1>3. cache' = Put(cache, f, e)
  BY DEF Cached
<1> HIDE DEF e
<1>4. /\ DOMAIN cache' = DOMAIN cache \cup {f}
      /\ \A g \in DOMAIN cache : g # f => cache'[g] = cache[g]
      /\ cache'[f] = e
  BY <1>3 DEF Put
<1>. QED BY <1>1, <1>2, <1>4 DEF CacheType

\* A new loader has its types.
LEMMA InitType == Init => TypeOK
<1> SUFFICES ASSUME Init PROVE TypeOK
  OBVIOUS
<1>1. DiskType
  BY LoaderAssumption DEF Init, DiskType, Range
<1>2. CacheType
  BY DEF Init, CacheType
<1>3. WalkType
  BY DEF Init, WalkType
<1>4. Shape /\ CallInv
  BY DEF Init, Shape, CallInv, NoCall, CallType, Places, Walking
<1>. QED BY <1>1, <1>2, <1>3, <1>4 DEF TypeOK

\* The types of the stack and the text, taken apart.
LEMMA FrameFacts ==
    ASSUME TypeOK
    PROVE  /\ Len(stack) \in Nat
           /\ Len(text) \in Nat
           /\ stack = <<>> <=> Len(stack) = 0
           /\ \A i \in 1 .. Len(stack) :
                 /\ stack[i] \in Frame
                 /\ stack[i].file \in Files
                 /\ stack[i].time \in Nat
                 /\ stack[i].uses \in Seq(STRING)
                 /\ stack[i].deps \subseteq Files
                 /\ stack[i].from \in Nat
                 /\ stack[i].from <= Len(text)
           /\ \A i \in 1 .. Len(stack) - 1 : stack[i].uses # <<>>
           /\ \A i \in 1 .. Len(text) : text[i] \in Piece /\ text[i][1] \in Files
<1>1. stack \in Seq(Frame) /\ text \in Seq(Piece)
  BY DEF TypeOK, WalkType
<1>2. Len(stack) \in Nat /\ Len(text) \in Nat /\ (stack = <<>> <=> Len(stack) = 0)
  BY <1>1, EmptySeq, LenProperties
<1>3. \A i \in 1 .. Len(stack) : stack[i] \in Frame
  BY <1>1, ElementOfSeq
<1>4. \A i \in 1 .. Len(stack) : stack[i].from <= Len(text)
  BY DEF TypeOK, Shape
<1>5. \A i \in 1 .. Len(stack) - 1 : stack[i].uses # <<>>
  BY DEF TypeOK, Shape
<1>6. \A i \in 1 .. Len(text) : text[i] \in Piece
  BY <1>1, ElementOfSeq
<1>7. \A frame \in Frame : /\ frame.file \in Files /\ frame.time \in Nat
                          /\ frame.uses \in Seq(STRING) /\ frame.deps \subseteq Files
                          /\ frame.from \in Nat
  BY DEF Frame
<1>8. \A i \in 1 .. Len(text) : text[i][1] \in Files
  BY <1>6 DEF Piece
<1>. QED BY <1>2, <1>3, <1>4, <1>5, <1>6, <1>7, <1>8

\* What Close does, to cite instead of its definition.
LEMMA CloseFacts ==
    ASSUME TypeOK, Close
    PROVE  /\ Len(stack) \in Nat \ {0} /\ Top = stack[Len(stack)] /\ Top \in Frame
           /\ Top.uses = <<>> /\ Walking /\ roots # <<>>
           /\ text' = Append(text, <<Top.file, Top.time>>)
           /\ text' \in Seq(Piece)
           /\ Len(text) \in Nat /\ Len(text') = Len(text) + 1
           /\ \A i \in 1 .. Len(text) : text'[i] = text[i]
           /\ text'[Len(text) + 1] = <<Top.file, Top.time>>
           /\ included' = included \cup {Top.file}
           /\ stack' \in Seq(Frame)
           /\ Len(stack') = Len(stack) - 1
           /\ \A i \in 1 .. Len(stack) - 2 : stack'[i] = stack[i]
           /\ Len(stack) > 1 =>
                 LET n == Len(stack) - 1 IN
                 /\ stack'[n].file = stack[n].file
                 /\ stack'[n].time = stack[n].time
                 /\ stack'[n].from = stack[n].from
                 /\ stack[n].uses # <<>>
                 /\ stack'[n].uses = Tail(stack[n].uses)
                 /\ stack'[n].deps = stack[n].deps \cup {Top.file}
           /\ roots' \in Seq(Files)
           /\ Len(stack) = 1 => stack' = <<>> /\ roots' = Tail(roots)
           /\ Len(stack) > 1 => roots' = roots
           /\ call.op # "load" => cache' = cache
           /\ call' = call /\ disk' = disk /\ known' = known /\ clock' = clock
<1> DEFINE b == Rest(stack)
           f == Top.file
<1>1. /\ Len(stack) \in Nat \ {0} /\ Top = stack[Len(stack)] /\ Top \in Frame
      /\ Walking /\ roots # <<>> /\ f \in Files /\ roots \in Seq(Files)
  <2>1. stack # <<>> /\ stack \in Seq(Frame) /\ roots \in Seq(Files) /\ Walking /\ roots # <<>>
    BY DEF Close, TypeOK, WalkType, Shape
  <2>2. Len(stack) \in Nat \ {0}
    BY <2>1, EmptySeq
  <2>3. Top = stack[Len(stack)] /\ Top \in Frame
    BY <2>1, <2>2, ElementOfSeq DEF Top
  <2>. QED BY <2>1, <2>2, <2>3 DEF Frame
<1>2. Top.uses = <<>> /\ included' = included \cup {f}
      /\ call' = call /\ disk' = disk /\ known' = known /\ clock' = clock
      /\ stack' = StackAfter(b, f) /\ roots' = RootsAfter(b, roots)
      /\ text' = Append(text, <<f, Top.time>>)
      /\ (call.op # "load" => cache' = cache)
  BY DEF Close
<1>3. <<f, Top.time>> \in Piece /\ text \in Seq(Piece)
  BY <1>1 DEF Frame, Piece, TypeOK, WalkType
<1>4. /\ text' \in Seq(Piece)
      /\ Len(text) \in Nat /\ Len(text') = Len(text) + 1
      /\ \A i \in 1 .. Len(text) : text'[i] = text[i]
      /\ text'[Len(text) + 1] = <<f, Top.time>>
  BY <1>2, <1>3, AppendProperties, LenProperties
<1>5. b \in Seq(Frame) /\ Len(b) = Len(stack) - 1 /\ \A i \in 1 .. Len(stack) - 1 : b[i] = stack[i]
  BY <1>1, RestFacts DEF TypeOK, WalkType, Close
<1>6. \A i \in 1 .. Len(stack) - 1 : stack[i].uses # <<>>
  BY DEF TypeOK, Shape
<1>7. b # <<>> => Len(b) \in 1 .. Len(stack) - 1
  BY <1>5, <1>1, EmptySeq
<1>8. b # <<>> => b[Len(b)].uses # <<>>
  BY <1>5, <1>6, <1>7
<1>9. /\ StackAfter(b, f) \in Seq(Frame)
      /\ Len(StackAfter(b, f)) = Len(b)
      /\ b = <<>> <=> Len(b) = 0
      /\ \A i \in 1 .. Len(b) - 1 : StackAfter(b, f)[i] = b[i]
      /\ b # <<>> =>
            /\ StackAfter(b, f)[Len(b)].file = b[Len(b)].file
            /\ StackAfter(b, f)[Len(b)].time = b[Len(b)].time
            /\ StackAfter(b, f)[Len(b)].from = b[Len(b)].from
            /\ StackAfter(b, f)[Len(b)].uses = Tail(b[Len(b)].uses)
            /\ StackAfter(b, f)[Len(b)].deps = b[Len(b)].deps \cup {f}
      /\ RootsAfter(b, roots) \in Seq(Files)
      /\ b = <<>> => StackAfter(b, f) = <<>> /\ RootsAfter(b, roots) = Tail(roots)
      /\ b # <<>> => RootsAfter(b, roots) = roots
  BY <1>1, <1>5, <1>8, UseDone
<1> HIDE DEF b, f
<1>10. /\ stack' \in Seq(Frame)
       /\ Len(stack') = Len(stack) - 1
       /\ \A i \in 1 .. Len(stack) - 2 : stack'[i] = stack[i]
       /\ roots' \in Seq(Files)
       /\ Len(stack) = 1 => stack' = <<>> /\ roots' = Tail(roots)
       /\ Len(stack) > 1 => roots' = roots
  BY <1>1, <1>2, <1>5, <1>9
<1>11. ASSUME Len(stack) > 1
       PROVE  LET n == Len(stack) - 1 IN
                 /\ stack'[n].file = stack[n].file
                 /\ stack'[n].time = stack[n].time
                 /\ stack'[n].from = stack[n].from
                 /\ stack[n].uses # <<>>
                 /\ stack'[n].uses = Tail(stack[n].uses)
                 /\ stack'[n].deps = stack[n].deps \cup {f}
  <2> DEFINE n == Len(stack) - 1
  <2>1. n \in 1 .. Len(stack) - 1 /\ n = Len(b) /\ b # <<>> /\ b[n] = stack[n]
    BY <1>1, <1>5, <1>9, <1>11
  <2>. QED BY <2>1, <1>2, <1>6, <1>9
<1>. QED BY <1>1, <1>2, <1>4, <1>10, <1>11 DEF f

\* The text cached for a file: all since it was begun.
LEMMA CloseContent ==
    ASSUME TypeOK, Close, NEW c, c = SubSeq(text', Top.from + 1, Len(text'))
    PROVE  /\ c \in Seq(Piece)
           /\ Len(c) = Len(text) + 1 - Top.from
           /\ Len(c) \in Nat \ {0}
           /\ \A i \in 1 .. Len(c) : c[i] = text'[Top.from + i]
           /\ Top.from \in Nat /\ Top.from <= Len(text)
<1>1. /\ Len(stack) \in Nat \ {0} /\ Top = stack[Len(stack)] /\ Top \in Frame
      /\ text' \in Seq(Piece) /\ Len(text) \in Nat /\ Len(text') = Len(text) + 1
  BY CloseFacts
<1>2. Top.from \in Nat /\ Top.from <= Len(text)
  BY <1>1 DEF TypeOK, Shape, Frame
<1> DEFINE m == Top.from + 1
           n == Len(text')
<1>3. m \in Int /\ n \in Int /\ 1 <= m /\ m <= n /\ n - m + 1 = Len(text) + 1 - Top.from
  BY <1>1, <1>2
<1>4. \A i \in m .. n : text'[i] \in Piece
  BY <1>1, <1>3, ElementOfSeq
<1>8. c = SubSeq(text', m, n)
  OBVIOUS
<1> HIDE DEF m, n
<1>5. /\ SubSeq(text', m, n) \in Seq(Piece)
      /\ Len(SubSeq(text', m, n)) = IF m <= n THEN n - m + 1 ELSE 0
      /\ \A i \in 1 .. n - m + 1 : SubSeq(text', m, n)[i] = text'[m + i - 1]
  BY <1>3, <1>4, SubSeqProperties
<1>6. /\ c \in Seq(Piece)
      /\ Len(c) = Len(text) + 1 - Top.from
      /\ \A i \in 1 .. Len(c) : c[i] = text'[m + i - 1]
  BY <1>3, <1>5, <1>8
<1>7. \A i \in 1 .. Len(c) : m + i - 1 = Top.from + i
  BY <1>2, <1>6, <1>1 DEF m
<1>9. \A i \in 1 .. Len(c) : c[i] = text'[Top.from + i]
  BY <1>6, <1>7
<1>10. Len(c) \in Nat \ {0}
  BY <1>1, <1>2, <1>6, SMTT(30)
<1>. QED BY <1>2, <1>6, <1>9, <1>10

\* What Skip and Reuse do to the stack and the roots.
LEMMA DoneFacts ==
    ASSUME TypeOK, Pending, Target \in Files,
           stack' = StackAfter(stack, Target), roots' = RootsAfter(stack, roots)
    PROVE  /\ Walking /\ roots # <<>>
           /\ Len(stack) \in Nat
           /\ stack = <<>> <=> Len(stack) = 0
           /\ stack # <<>> => Top = stack[Len(stack)] /\ Top \in Frame /\ Top.uses # <<>>
           /\ stack' \in Seq(Frame)
           /\ Len(stack') = Len(stack)
           /\ \A i \in 1 .. Len(stack) - 1 : stack'[i] = stack[i]
           /\ stack # <<>> =>
                 LET n == Len(stack) IN
                 /\ stack'[n].file = Top.file
                 /\ stack'[n].time = Top.time
                 /\ stack'[n].from = Top.from
                 /\ stack'[n].uses = Tail(Top.uses)
                 /\ stack'[n].deps = Top.deps \cup {Target}
           /\ roots' \in Seq(Files)
           /\ stack = <<>> => stack' = <<>> /\ roots' = Tail(roots)
           /\ stack # <<>> => roots' = roots
<1>1. /\ stack \in Seq(Frame) /\ roots \in Seq(Files) /\ roots # <<>> /\ Walking
      /\ stack # <<>> => Top \in Frame /\ Top.uses # <<>>
  BY TargetIn DEF TypeOK, WalkType, Pending
<1>2. Top = stack[Len(stack)]
  BY DEF Top
<1>. QED BY <1>1, <1>2, UseDone

\* What Open does, to cite instead of its definition.
LEMMA OpenFacts ==
    ASSUME TypeOK, Open
    PROVE  LET frame == stack'[Len(stack) + 1] IN
           /\ Walking /\ Pending /\ Target \in Files /\ Unseen(Target) /\ Exists(Target)
           /\ ~Reusable(Target)
           /\ Len(stack) \in Nat /\ roots # <<>>
           /\ stack = <<>> <=> Len(stack) = 0
           /\ stack # <<>> => Top = stack[Len(stack)] /\ Top \in Frame /\ Top.uses # <<>>
           /\ stack' \in Seq(Frame)
           /\ Len(stack') = Len(stack) + 1
           /\ \A i \in 1 .. Len(stack) : stack'[i] = stack[i]
           /\ frame.file = Target
           /\ frame.time = disk[Target].time
           /\ frame.uses = disk[Target].uses
           /\ frame.deps = {}
           /\ frame.from = Len(text)
           /\ UNCHANGED <<disk, clock, cache, call, roots, included, text, known>>
<1> DEFINE frame == [file |-> Target, time |-> disk[Target].time,
                     uses |-> disk[Target].uses, deps |-> {}, from |-> Len(text)]
<1>1. /\ Pending /\ Target \in Files /\ Unseen(Target) /\ Exists(Target) /\ ~Reusable(Target)
      /\ roots # <<>> /\ Walking
      /\ stack \in Seq(Frame)
      /\ stack # <<>> => Top \in Frame /\ Top.uses # <<>>
  BY TargetIn DEF Open, Pending, TypeOK, WalkType
<1>2. frame \in Frame
  BY <1>1, LenProperties DEF Frame, TypeOK, DiskType, WalkType, Exists
<1>3. stack' = Append(stack, frame)
  BY DEF Open
<1>4. /\ frame.file = Target
      /\ frame.time = disk[Target].time
      /\ frame.uses = disk[Target].uses
      /\ frame.deps = {}
      /\ frame.from = Len(text)
  OBVIOUS
<1> HIDE DEF frame
<1>5. /\ stack' \in Seq(Frame)
      /\ Len(stack') = Len(stack) + 1
      /\ \A i \in 1 .. Len(stack) : stack'[i] = stack[i]
      /\ stack'[Len(stack) + 1] = frame
      /\ Len(stack) \in Nat
      /\ stack = <<>> <=> Len(stack) = 0
  BY <1>1, <1>2, <1>3, AppendProperties, LenProperties, EmptySeq
<1>6. UNCHANGED <<disk, clock, cache, call, roots, included, text, known>>
  BY DEF Open
<1>7. Top = stack[Len(stack)]
  BY DEF Top
<1>. QED BY <1>1, <1>4, <1>5, <1>6, <1>7

\* What Reuse does, to cite instead of its definition.
LEMMA ReuseFacts ==
    ASSUME TypeOK, Reuse
    PROVE  /\ Pending /\ Target \in Files /\ Unseen(Target) /\ Reusable(Target)
           /\ call.op = "load" /\ Target \in DOMAIN cache /\ Exists(Target)
           /\ Valid(cache, Target)
           /\ stack' = StackAfter(stack, Target) /\ roots' = RootsAfter(stack, roots)
           /\ included' = included \cup {Target}
           /\ cache[Target] \in CacheEntry
           /\ text' = text \o cache[Target].content
           /\ text' \in Seq(Piece)
           /\ Len(text) \in Nat
           /\ Len(cache[Target].content) \in Nat
           /\ Len(text') = Len(text) + Len(cache[Target].content)
           /\ \A i \in 1 .. Len(text') : text'[i] =
                  IF i <= Len(text) THEN text[i] ELSE cache[Target].content[i - Len(text)]
           /\ UNCHANGED <<disk, clock, cache, call, known>>
<1>1. /\ Pending /\ Unseen(Target) /\ Reusable(Target) /\ call.op = "load" /\ Valid(cache, Target)
      /\ stack' = StackAfter(stack, Target) /\ roots' = RootsAfter(stack, roots)
      /\ included' = included \cup {Target}
      /\ text' = text \o cache[Target].content
      /\ UNCHANGED <<disk, clock, cache, call, known>>
  BY DEF Reuse, Reusable
<1>2. Target \in DOMAIN cache /\ Exists(Target)
  BY <1>1 DEF Valid, Current
<1>3. Target \in Files /\ cache[Target] \in CacheEntry
  BY <1>2 DEF TypeOK, CacheType
<1>4. cache[Target].content \in Seq(Piece) /\ text \in Seq(Piece)
  BY <1>3 DEF CacheEntry, TypeOK, WalkType
<1>. QED BY <1>1, <1>2, <1>3, <1>4, ConcatProperties, LenProperties

\* What Skip does, to cite instead of its definition.
LEMMA SkipFacts ==
    ASSUME TypeOK, Skip
    PROVE  /\ Pending /\ Target \in Files /\ Target \in included /\ ~OnStack(Target)
           /\ stack' = StackAfter(stack, Target) /\ roots' = RootsAfter(stack, roots)
           /\ UNCHANGED <<disk, clock, cache, call, known, included, text>>
<1>1. /\ Pending /\ Target \in included /\ ~OnStack(Target)
      /\ stack' = StackAfter(stack, Target) /\ roots' = RootsAfter(stack, roots)
      /\ UNCHANGED <<disk, clock, cache, call, known, included, text>>
  BY DEF Skip
<1>. QED BY <1>1, TargetIn

\* Close keeps the types.
LEMMA CloseType == TypeOK /\ Close => TypeOK'
<1> SUFFICES ASSUME TypeOK, Close PROVE TypeOK'
  OBVIOUS
<1> DEFINE n == Len(stack)
           m == n - 1
           f == Top.file
           c == SubSeq(text', Top.from + 1, Len(text'))
<1>1. /\ n \in Nat \ {0} /\ Top = stack[n] /\ Top \in Frame /\ Walking /\ roots # <<>>
      /\ text' \in Seq(Piece) /\ included' = included \cup {f}
      /\ Len(text) \in Nat /\ Len(text') = Len(text) + 1
      /\ stack' \in Seq(Frame) /\ Len(stack') = m
      /\ \A i \in 1 .. n - 2 : stack'[i] = stack[i]
      /\ n > 1 => stack'[m].from = stack[m].from
      /\ roots' \in Seq(Files)
      /\ n = 1 => stack' = <<>>
      /\ n > 1 => roots' = roots
      /\ call' = call /\ disk' = disk /\ known' = known /\ clock' = clock
  BY CloseFacts
<1>2. f \in Files
  BY <1>1 DEF Frame
<1>3. DiskType'
  BY <1>1 DEF TypeOK, DiskType
<1>4. CacheType'
  <2>1. CASE call.op # "load"
    <3>1. cache' = cache
      BY <2>1, CloseFacts
    <3>. QED BY <3>1 DEF TypeOK, CacheType
  <2>2. CASE call.op = "load"
    <3>1. cache' = Cached(cache, f, c, Top.deps)
      BY <2>2 DEF Close
    <3>2. c \in Seq(Piece)
      BY CloseContent
    <3>3. Top.deps \in SUBSET Files
      BY <1>1 DEF Frame
    <3> HIDE DEF c, f
    <3>. QED BY <3>1, <3>2, <3>3, <1>2, CachedType DEF TypeOK
  <2>. QED BY <2>1, <2>2
<1>5. WalkType'
  BY <1>1, <1>2 DEF TypeOK, WalkType
<1>6. Shape'
  <2>1. \A i \in 1 .. n - 1 : stack'[i].from = stack[i].from
    BY <1>1, SMTT(30)
  <2>2. \A i \in 1 .. n : stack[i].from \in Nat /\ stack[i].from <= Len(text)
    BY FrameFacts
  <2>6. \A i \in 1 .. n - 1 : stack[i].from \in Nat /\ stack[i].from <= Len(text)
    BY <2>2, <1>1
  <2>3. \A i \in 1 .. Len(stack') : stack'[i].from <= Len(text')
    BY <2>1, <2>6, <1>1, SMTT(30)
  <2>4. \A i \in 1 .. Len(stack') - 1 : stack'[i].uses # <<>>
    BY <1>1, SMTT(30) DEF TypeOK, Shape
  <2>5. stack' # <<>> => roots' # <<>>
    BY <1>1
  <2>. QED BY <2>3, <2>4, <2>5 DEF Shape
<1>7. CallInv'
  BY <1>1 DEF TypeOK, CallInv, Walking
<1>. QED BY <1>3, <1>4, <1>5, <1>6, <1>7 DEF TypeOK

\* Open keeps the types.
LEMMA OpenType == TypeOK /\ Open => TypeOK'
<1> SUFFICES ASSUME TypeOK, Open PROVE TypeOK'
  OBVIOUS
<1>1. /\ Walking /\ Len(stack) \in Nat /\ roots # <<>>
      /\ stack = <<>> <=> Len(stack) = 0
      /\ stack # <<>> => Top = stack[Len(stack)] /\ Top.uses # <<>>
      /\ stack' \in Seq(Frame)
      /\ Len(stack') = Len(stack) + 1
      /\ \A i \in 1 .. Len(stack) : stack'[i] = stack[i]
      /\ stack'[Len(stack) + 1].from = Len(text)
      /\ UNCHANGED <<disk, clock, cache, call, roots, included, text, known>>
  BY OpenFacts
<1>2. Len(text) \in Nat
  BY LenProperties DEF TypeOK, WalkType
<1>3. Shape'
  <2>1. \A i \in 1 .. Len(stack') : stack'[i].from <= Len(text')
    BY <1>1, <1>2 DEF TypeOK, Shape
  <2>2. \A i \in 1 .. Len(stack') - 1 : stack'[i].uses # <<>>
    BY <1>1 DEF TypeOK, Shape
  <2>. QED BY <2>1, <2>2, <1>1 DEF Shape
<1>. QED BY <1>1, <1>3 DEF TypeOK, DiskType, CacheType, WalkType, CallInv, Walking

\* So does a step that has gone through the next file.
LEMMA DoneType ==
    ASSUME TypeOK, Pending, Target \in Files,
           stack' = StackAfter(stack, Target), roots' = RootsAfter(stack, roots),
           included' \in SUBSET Files, text' \in Seq(Piece), Len(text') >= Len(text),
           UNCHANGED <<disk, clock, cache, call, known>>
    PROVE  TypeOK'
<1> DEFINE n == Len(stack)
<1>1. /\ Walking /\ n \in Nat /\ roots # <<>>
      /\ stack = <<>> <=> n = 0
      /\ stack # <<>> => Top = stack[n] /\ Top \in Frame
      /\ stack' \in Seq(Frame)
      /\ Len(stack') = n
      /\ \A i \in 1 .. n - 1 : stack'[i] = stack[i]
      /\ stack # <<>> => stack'[n].from = Top.from
      /\ roots' \in Seq(Files)
      /\ stack = <<>> => stack' = <<>>
      /\ stack # <<>> => roots' = roots
  BY DoneFacts
<1>2. Shape'
  <2>1. \A i \in 1 .. n : stack'[i].from = stack[i].from
    BY <1>1
  <2>2. \A i \in 1 .. n : stack[i] \in Frame /\ stack[i].from <= Len(text)
    BY <1>1, ElementOfSeq DEF TypeOK, Shape, WalkType
  <2>3. Len(text) \in Nat /\ Len(text') \in Nat
    BY LenProperties DEF TypeOK, WalkType
  <2>6. \A i \in 1 .. n : stack[i].from \in Nat /\ stack[i].from <= Len(text)
    BY <2>2, <1>1 DEF Frame
  <2>4. \A i \in 1 .. Len(stack') : stack'[i].from <= Len(text')
    BY <2>1, <2>6, <2>3, <1>1
  <2>5. \A i \in 1 .. Len(stack') - 1 : stack'[i].uses # <<>>
    BY <1>1 DEF TypeOK, Shape
  <2>. QED BY <2>4, <2>5, <1>1 DEF Shape
<1>. QED BY <1>1, <1>2 DEF TypeOK, DiskType, CacheType, WalkType, CallInv, Walking

\* Skip keeps the types.
LEMMA SkipType == TypeOK /\ Skip => TypeOK'
<1> SUFFICES ASSUME TypeOK, Skip PROVE TypeOK'
  OBVIOUS
<1>1. /\ Pending /\ Target \in Files
      /\ stack' = StackAfter(stack, Target) /\ roots' = RootsAfter(stack, roots)
      /\ UNCHANGED <<disk, clock, cache, call, known, included, text>>
  BY SkipFacts
<1>2. included' \in SUBSET Files /\ text' \in Seq(Piece) /\ Len(text') >= Len(text)
  BY <1>1, LenProperties DEF TypeOK, WalkType
<1>. QED BY <1>1, <1>2, DoneType

\* Reuse keeps the types.
LEMMA ReuseType == TypeOK /\ Reuse => TypeOK'
<1> SUFFICES ASSUME TypeOK, Reuse PROVE TypeOK'
  OBVIOUS
<1>1. /\ Pending /\ Target \in Files
      /\ stack' = StackAfter(stack, Target) /\ roots' = RootsAfter(stack, roots)
      /\ UNCHANGED <<disk, clock, cache, call, known>>
      /\ included' = included \cup {Target}
      /\ text' \in Seq(Piece) /\ Len(text) \in Nat
      /\ Len(cache[Target].content) \in Nat
      /\ Len(text') = Len(text) + Len(cache[Target].content)
  BY ReuseFacts
<1>2. included' \in SUBSET Files /\ Len(text') >= Len(text)
  BY <1>1 DEF TypeOK, WalkType
<1>. QED BY <1>1, <1>2, DoneType

\* An error keeps the types.
LEMMA FailType == ASSUME NEW why \in {"circular", "missing"} PROVE TypeOK /\ Walking /\ Fail(why) => TypeOK'
<1> SUFFICES ASSUME TypeOK, Walking, Fail(why) PROVE TypeOK'
  OBVIOUS
<1>1. call' \in CallType /\ call'.op = call.op /\ call'.status = why /\ call'.entry = call.entry
  BY DEF Fail, TypeOK, CallInv, CallType
<1>. QED BY <1>1 DEF Fail, TypeOK, DiskType, CacheType, WalkType, CallInv, Walking, Shape

\* Return keeps the types.
LEMMA ReturnType == TypeOK /\ Return => TypeOK'
<1> SUFFICES ASSUME TypeOK, Return PROVE TypeOK'
  OBVIOUS
<1>1. call' \in CallType /\ call'.op = call.op /\ call'.status = "done" /\ call'.entry = call.entry
  BY DEF Return, TypeOK, CallInv, CallType
<1>2. CacheType'
  <2>1. CASE call.op # "load"
    BY <2>1 DEF Return, TypeOK, CacheType
  <2>2. CASE call.op = "load"
    <3>1. call.entry \in Files /\ text \in Seq(Piece) /\ included \in SUBSET Files
      BY DEF Return, TypeOK, CallInv, WalkType
    <3>2. cache' = Cached(cache, call.entry, text, included)
      BY <2>2 DEF Return
    <3>. QED BY <3>1, <3>2, CachedType DEF TypeOK
  <2>. QED BY <2>1, <2>2
<1>. QED BY <1>1, <1>2 DEF Return, TypeOK, DiskType, WalkType, CallInv, Walking, Shape

\* The roots are the prelude and the entry, or the entry.
LEMMA RootsType == ASSUME NEW entry \in Files PROVE RootsOf(entry) \in Seq(Files)
BY LoaderAssumption DEF RootsOf

\* The start of a call keeps the types.
LEMMA BeginType == ASSUME NEW op \in {"load", "load_modules"}, NEW entry \in Files
                   PROVE  /\ TypeOK /\ Begin(op, entry) /\ CacheType'
                          /\ known' \in Files \cup {Unresolved, Several}
                          => TypeOK'
<1> SUFFICES ASSUME TypeOK, Begin(op, entry), CacheType', known' \in Files \cup {Unresolved, Several}
             PROVE  TypeOK'
  OBVIOUS
<1>1. call' \in CallType /\ call'.op = op /\ call'.status = "walking" /\ call'.entry = entry
  BY DEF Begin, CallType, Places
<1>2. roots' \in Seq(Files)
  BY RootsType DEF Begin
<1>. QED BY <1>1, <1>2 DEF Begin, TypeOK, DiskType, WalkType, CallInv, Walking, Shape

\* A function on fewer arguments.
LEMMA RestrictFacts ==
    ASSUME NEW g, NEW S
    PROVE  DOMAIN Restrict(g, S) = S /\ \A x \in S : Restrict(g, S)[x] = g[x]
BY DEF Restrict

\* Load and LoadModules keep the types.
LEMMA BeginsType == ASSUME NEW entry \in Entries
                    PROVE  TypeOK /\ (Load(entry) \/ LoadModules(entry)) => TypeOK'
<1>1. entry \in Files
  BY LoaderAssumption
<1>2. ASSUME TypeOK, Load(entry) PROVE TypeOK'
  <2>1. Begin("load", entry) /\ CacheType' /\ known' \in Files \cup {Unresolved, Several}
    BY <1>1, <1>2 DEF Load, TypeOK, CacheType
  <2>. QED BY <1>1, <1>2, <2>1, BeginType
<1>3. ASSUME TypeOK, LoadModules(entry) PROVE TypeOK'
  <2>1. Begin("load_modules", entry) /\ known' \in Files \cup {Unresolved, Several}
    BY <1>3 DEF LoadModules, TypeOK, CallInv
  <2>2. CacheType'
    BY <1>3, RestrictFacts DEF LoadModules, TypeOK, CacheType
  <2>. QED BY <1>1, <1>3, <2>1, <2>2, BeginType
<1>. QED BY <1>2, <1>3

\* ClearCache keeps the types.
LEMMA ClearType == TypeOK /\ ClearCache => TypeOK'
<1> SUFFICES ASSUME TypeOK, ClearCache PROVE TypeOK'
  OBVIOUS
<1>1. CallInv'
  BY DEF ClearCache, TypeOK, CallInv, NoCall, CallType, Places, Walking
<1>2. CacheType'
  BY DEF ClearCache, CacheType
<1>. QED BY <1>1, <1>2 DEF ClearCache, TypeOK, DiskType, WalkType, CallInv, Shape

\* A change of the disk keeps the types of the rest.
LEMMA ChangeType == ASSUME NEW f PROVE TypeOK /\ Change(f) /\ DiskType' => TypeOK'
<1> SUFFICES ASSUME TypeOK, Change(f), DiskType' PROVE TypeOK'
  OBVIOUS
<1>1. CASE Walking
  <2>1. call' \in CallType /\ call'.op = call.op /\ call'.status = call.status /\ call'.entry = call.entry
    BY <1>1 DEF Change, TypeOK, CallInv, CallType
  <2>2. text' = text /\ known' \in {known, Several} /\ UNCHANGED <<cache, roots, stack, included>>
    BY <1>1 DEF Change
  <2>. QED BY <1>1, <2>1, <2>2 DEF TypeOK, WalkType, CallInv, Walking, Shape, CacheType
<1>2. CASE ~Walking
  <2>1. call' = NoCall /\ text' = <<>> /\ known' \in {known, Several}
        /\ UNCHANGED <<cache, roots, stack, included>>
    BY <1>2 DEF Change
  <2>2. NoCall \in CallType /\ NoCall.status = "idle"
    BY DEF NoCall, CallType, Places
  <2>. QED BY <1>2, <2>1, <2>2 DEF TypeOK, WalkType, CallInv, Walking, Shape, CacheType
<1>. QED BY <1>1, <1>2

\* A file written keeps the types.
LEMMA WriteType == ASSUME NEW f \in Files, NEW uses \in UseLists
                   PROVE  TypeOK /\ WriteFile(f, uses) => TypeOK'
<1> SUFFICES ASSUME TypeOK, WriteFile(f, uses) PROVE TypeOK'
  OBVIOUS
<1> DEFINE e == [uses |-> uses, time |-> clock + 1]
<1>1. e \in [uses : Seq(STRING), time : Nat] /\ clock' \in Nat
  BY LoaderAssumption DEF TypeOK, DiskType, WriteFile, Change
<1>2. disk' = Put(disk, f, e) /\ Change(f)
  BY DEF WriteFile
<1> HIDE DEF e
<1>3. DiskType'
  BY <1>1, <1>2 DEF Put, TypeOK, DiskType
<1>. QED BY <1>2, <1>3, ChangeType

\* A file removed keeps the types.
LEMMA RemoveType == ASSUME NEW f PROVE TypeOK /\ RemoveFile(f) => TypeOK'
<1> SUFFICES ASSUME TypeOK, RemoveFile(f) PROVE TypeOK'
  OBVIOUS
<1>1. Change(f) /\ clock' \in Nat
  BY DEF RemoveFile, Change, TypeOK, DiskType
<1>2. DiskType'
  BY <1>1, RestrictFacts DEF RemoveFile, TypeOK, DiskType
<1>. QED BY <1>1, <1>2, ChangeType

\* Every step keeps the types.
LEMMA NextType == TypeOK /\ [Next]_vars => TypeOK'
<1> SUFFICES ASSUME TypeOK, [Next]_vars PROVE TypeOK'
  OBVIOUS
<1>1. CASE UNCHANGED vars
  BY <1>1 DEF vars, walk, TypeOK, DiskType, CacheType, WalkType, CallInv, Walking, Shape
<1>2. CASE \E f \in Entries : Load(f) \/ LoadModules(f)
  BY <1>2, BeginsType
<1>3. CASE Circular
  BY <1>3, FailType DEF Circular, Pending
<1>4. CASE Missing
  BY <1>4, FailType DEF Missing, Pending
<1>5. CASE Skip
  BY <1>5, SkipType
<1>6. CASE Reuse
  BY <1>6, ReuseType
<1>7. CASE Open
  BY <1>7, OpenType
<1>8. CASE Close
  BY <1>8, CloseType
<1>9. CASE Return
  BY <1>9, ReturnType
<1>10. CASE ClearCache
  BY <1>10, ClearType
<1>11. CASE \E f \in Files, uses \in UseLists : WriteFile(f, uses)
  BY <1>11, WriteType
<1>12. CASE \E f \in DOMAIN disk : RemoveFile(f)
  BY <1>12, RemoveType
<1>. QED BY <1>1, <1>2, <1>3, <1>4, <1>5, <1>6, <1>7, <1>8, <1>9, <1>10, <1>11, <1>12 DEF Next

(***************************************************************************)
(* The variables have their types whatever is called and edited: the stack *)
(* of load_recursive and collect_modules is begun from the roots, no file  *)
(* on it but the top one is through with its use lines, and each was begun *)
(* at a place that the text has come to.                                   *)
(***************************************************************************)
THEOREM TypeCorrect == Spec => []TypeOK
<1>1. Init => TypeOK
  BY InitType
<1>2. TypeOK /\ [Next]_vars => TypeOK'
  BY NextType
<1>. QED BY <1>1, <1>2, PTL DEF Spec

-----------------------------------------------------------------------------
(* The operators. *)

\* What is needed from some files contains them.
LEMMA ClosureContains ==
    ASSUME NEW edges, NEW S \in SUBSET Places
    PROVE  S \subseteq Closure(edges, S)
BY DEF Closure

\* What is needed from some files are files, or the answer for a missing one.
LEMMA ClosureIn ==
    ASSUME NEW edges, NEW S
    PROVE  Closure(edges, S) \subseteq Places
BY DEF Closure

\* What is needed contains what its files use.
LEMMA ClosureStep ==
    ASSUME NEW edges, NEW S, NEW f \in Closure(edges, S), f \in DOMAIN edges,
           edges[f] \subseteq Places
    PROVE  edges[f] \subseteq Closure(edges, S)
BY DEF Closure, Closed

\* What is needed is in every set that is closed under the uses.
LEMMA ClosureLeast ==
    ASSUME NEW edges, NEW S, NEW reached \in SUBSET Places, S \subseteq reached,
           Closed(edges, reached)
    PROVE  Closure(edges, S) \subseteq reached
BY DEF Closure

\* The uses of the files there are.
LEMMA UsesIn ==
    ASSUME DiskType
    PROVE  /\ DOMAIN Uses = DOMAIN disk
           /\ \A f \in DOMAIN disk : Uses[f] \subseteq Places
<1>1. DOMAIN Uses = DOMAIN disk
  BY DEF Uses
<1>2. ASSUME NEW f \in DOMAIN disk PROVE Uses[f] \subseteq Places
  <2>1. \A n \in Range(disk[f].uses) : Resolve(f, n) \in DOMAIN disk \cup {Unresolved}
    BY ResolveIn
  <2>2. Uses[f] = {Resolve(f, n) : n \in Range(disk[f].uses)}
    BY DEF Uses
  <2>. QED BY <2>1, <2>2 DEF DiskType, Places
<1>. QED BY <1>1, <1>2

\* The members of a sequence: its head and those of its tail.
LEMMA RangeTail ==
    ASSUME NEW T, NEW s \in Seq(T), s # <<>>
    PROVE  Range(s) = {Head(s)} \cup Range(Tail(s))
<1>1. /\ Len(s) \in Nat /\ Len(s) # 0 /\ Head(s) = s[1] /\ DOMAIN s = 1 .. Len(s)
      /\ Len(Tail(s)) = Len(s) - 1 /\ Tail(s) \in Seq(T)
      /\ \A i \in 1 .. Len(Tail(s)) : Tail(s)[i] = s[i + 1]
  BY HeadTailProperties, EmptySeq, LenProperties
<1>2. DOMAIN Tail(s) = 1 .. Len(s) - 1
  BY <1>1, LenProperties
<1>3. Range(s) \subseteq {Head(s)} \cup Range(Tail(s))
  <2>1. SUFFICES ASSUME NEW i \in 1 .. Len(s) PROVE s[i] \in {Head(s)} \cup Range(Tail(s))
    BY <1>1 DEF Range
  <2>2. CASE i = 1
    BY <2>2, <1>1
  <2>3. CASE i # 1
    <3>1. i - 1 \in 1 .. Len(s) - 1 /\ (i - 1) + 1 = i
      BY <2>3, <1>1
    <3>2. Tail(s)[i - 1] = s[i]
      BY <3>1, <1>1
    <3>. QED BY <3>1, <3>2, <1>2 DEF Range
  <2>. QED BY <2>2, <2>3
<1>4. {Head(s)} \cup Range(Tail(s)) \subseteq Range(s)
  <2>1. Head(s) \in Range(s)
    BY <1>1 DEF Range
  <2>2. ASSUME NEW i \in 1 .. Len(s) - 1 PROVE Tail(s)[i] \in Range(s)
    <3>1. i + 1 \in 1 .. Len(s) /\ Tail(s)[i] = s[i + 1]
      BY <1>1
    <3>. QED BY <3>1, <1>1 DEF Range
  <2>. QED BY <2>1, <2>2, <1>2 DEF Range
<1>. QED BY <1>3, <1>4

(* What depends on the disk only. *)

\* While no file changes, what a program needs and whether it can be loaded
\* does not change.
LEMMA SameDisk ==
    ASSUME disk' = disk
    PROVE  /\ Uses' = Uses
           /\ \A f : Exists(f)' <=> Exists(f)
           /\ \A f, n : Resolve(f, n)' = Resolve(f, n)
           /\ \A S : Needed(S)' = Needed(S)
           /\ \A f : (NeededBy(f)' = NeededBy(f)) /\ (RootsOf(f)' = RootsOf(f))
           /\ \A f : Loadable(f)' <=> Loadable(f)
<1>1. \A f : Exists(f)' <=> Exists(f)
  BY DEF Exists
<1>2. \A f, n : Resolve(f, n)' = Resolve(f, n)
  BY DEF Resolve, Exists
<1>3. Uses' = Uses
  BY DEF Uses, Resolve, Exists
<1>4. \A S : Needed(S)' = Needed(S)
  BY <1>3 DEF Needed
<1>5. \A f : (NeededBy(f)' = NeededBy(f)) /\ (RootsOf(f)' = RootsOf(f))
  BY <1>3 DEF NeededBy, RootsOf, Needed, Exists
<1>6. \A f : Loadable(f)' <=> Loadable(f)
  BY <1>3, <1>5, <1>1 DEF Loadable, Needed
<1>. QED BY <1>1, <1>2, <1>3, <1>4, <1>5, <1>6

-----------------------------------------------------------------------------
(* The walk while no file changes. *)

(* What was read of a file is what is on the disk; what was gone through of *)
(* what it uses is among the files gone through.                            *)
AsRead(frame, gone) ==
    /\ Exists(frame.file)
    /\ frame.time = disk[frame.file].time
    /\ frame.deps \subseteq gone
    /\ Uses[frame.file] =
           frame.deps \cup {Resolve(frame.file, n) : n \in Range(frame.uses)}

(* Each file on the stack is the one that the file below it uses next.      *)
Chain(s, r) ==
    /\ s # <<>> => Head(r) = s[1].file
    /\ \A i \in 1 .. Len(s) - 1 : s[i + 1].file = Resolve(s[i].file, Head(s[i].uses))
    /\ \A i, j \in 1 .. Len(s) : i < j => s[j].file \in Needed(Uses[s[i].file])

(* Files gone through or begun are needed, and the roots are gone through   *)
(* or to come.                                                              *)
Reach(s, r, gone) ==
    /\ gone \subseteq NeededBy(call.entry)
    /\ \A i \in 1 .. Len(s) : s[i].file \in NeededBy(call.entry)
    /\ Range(r) \subseteq Range(RootsOf(call.entry))
    /\ Range(RootsOf(call.entry)) \subseteq gone \cup Range(r)

\* A frame stays true of the disk when one of its uses has been gone through.
LEMMA AsReadAfter ==
    ASSUME NEW frame \in Frame, NEW gone, NEW f \in Files, AsRead(frame, gone),
           frame.uses # <<>>, f = Resolve(frame.file, Head(frame.uses)),
           NEW next, next.file = frame.file, next.time = frame.time,
           next.uses = Tail(frame.uses), next.deps = frame.deps \cup {f}
    PROVE  AsRead(next, gone \cup {f})
<1>1. Range(frame.uses) = {Head(frame.uses)} \cup Range(Tail(frame.uses))
  BY RangeTail DEF Frame
<1>2. {Resolve(frame.file, n) : n \in Range(frame.uses)}
      = {f} \cup {Resolve(frame.file, n) : n \in Range(Tail(frame.uses))}
  BY <1>1
<1>3. Uses[frame.file] =
          frame.deps \cup {f} \cup {Resolve(frame.file, n) : n \in Range(Tail(frame.uses))}
  BY <1>2 DEF AsRead
<1>. QED BY <1>3 DEF AsRead

\* A frame stays true of the disk when more files have been gone through.
LEMMA AsReadMore ==
    ASSUME NEW frame, NEW gone, NEW more, AsRead(frame, gone), gone \subseteq more
    PROVE  AsRead(frame, more)
BY DEF AsRead

\* What is said of the walk after a step that changes no file.
LEMMA SameWalk ==
    ASSUME disk' = disk, call' = call, call.entry \in Files
    PROVE  /\ (\A i \in 1 .. Len(stack') : AsRead(stack'[i], included'))
              => \A i \in 1 .. Len(stack') : AsRead(stack[i], included)'
           /\ Chain(stack', roots') => Chain(stack, roots)'
           /\ Reach(stack', roots', included') => Reach(stack, roots, included)'
<1>1. (\A i \in 1 .. Len(stack') : AsRead(stack'[i], included'))
      => \A i \in 1 .. Len(stack') : AsRead(stack[i], included)'
  BY SameDisk DEF AsRead
<1>2. ASSUME Chain(stack', roots') PROVE Chain(stack, roots)'
  <2>1. (stack # <<>> => Head(roots) = stack[1].file)'
    BY <1>2 DEF Chain
  <2>2. (\A i \in 1 .. Len(stack) - 1 : stack[i + 1].file = Resolve(stack[i].file, Head(stack[i].uses)))'
    BY <1>2, SameDisk DEF Chain
  <2>3. (\A i, j \in 1 .. Len(stack) : i < j => stack[j].file \in Needed(Uses[stack[i].file]))'
    BY <1>2, SameDisk DEF Chain, Needed
  <2>. QED BY <2>1, <2>2, <2>3 DEF Chain
<1>3. Reach(stack', roots', included') => Reach(stack, roots, included)'
  BY SameDisk DEF Reach
<1>. QED BY <1>1, <1>2, <1>3

(* One file more has been gone through. *)
\* A file gone through is left behind: the stack stays a chain of uses and
\* what is needed is still reached from what is left.
LEMMA Gone ==
    ASSUME NEW s \in Seq(Frame), NEW r \in Seq(Files), NEW f \in Files, NEW gone,
           r # <<>>, s # <<>> => s[Len(s)].uses # <<>>,
           \A i \in 1 .. Len(s) : AsRead(s[i], gone),
           Chain(s, r), Reach(s, r, gone),
           f = IF s = <<>> THEN Head(r) ELSE Resolve(s[Len(s)].file, Head(s[Len(s)].uses)),
           f \in NeededBy(call.entry)
    PROVE  LET t == StackAfter(s, f) IN
           /\ \A i \in 1 .. Len(t) : AsRead(t[i], gone \cup {f})
           /\ Chain(t, RootsAfter(s, r))
           /\ Reach(t, RootsAfter(s, r), gone \cup {f})
<1> DEFINE t == StackAfter(s, f)
           q == RootsAfter(s, r)
           n == Len(s)
<1>1. /\ t \in Seq(Frame)
      /\ Len(t) = n
      /\ n \in Nat
      /\ s = <<>> <=> n = 0
      /\ \A i \in 1 .. n - 1 : t[i] = s[i]
      /\ s # <<>> =>
            /\ t[n].file = s[n].file
            /\ t[n].time = s[n].time
            /\ t[n].uses = Tail(s[n].uses)
            /\ t[n].deps = s[n].deps \cup {f}
      /\ s = <<>> => t = <<>> /\ q = Tail(r)
      /\ s # <<>> => q = r
  BY UseDone
<1>2. \A i \in 1 .. n : s[i] \in Frame
  BY ElementOfSeq
<1>3. \A i \in 1 .. n : t[i].file = s[i].file
  BY <1>1
<1>4. \A i \in 1 .. n : AsRead(t[i], gone \cup {f})
  <2> TAKE i \in 1 .. n
  <2>1. CASE i # n
    BY <2>1, <1>1, AsReadMore
  <2>2. CASE i = n
    <3>1. s # <<>> /\ s[n] \in Frame /\ AsRead(s[n], gone)
      BY <2>2, <1>1, <1>2
    <3>2. f = Resolve(s[n].file, Head(s[n].uses)) /\ s[n].uses # <<>>
      BY <3>1, SMTT(30)
    <3>3. /\ t[n].file = s[n].file
          /\ t[n].time = s[n].time
          /\ t[n].uses = Tail(s[n].uses)
          /\ t[n].deps = s[n].deps \cup {f}
      BY <3>1, <1>1
    <3> HIDE DEF t, n
    <3>. QED BY <2>2, <3>1, <3>2, <3>3, AsReadAfter
  <2>. QED BY <2>1, <2>2
<1> HIDE DEF t, q
<1>5. Chain(t, q)
  <2>1. t # <<>> => s # <<>> /\ q = r /\ 1 \in 1 .. n
    BY <1>1
  <2>2. t # <<>> => Head(q) = t[1].file
    BY <2>1, <1>3 DEF Chain
  <2>3. \A i \in 1 .. n - 1 : t[i + 1].file = Resolve(t[i].file, Head(t[i].uses))
    <3> TAKE i \in 1 .. n - 1
    <3>1. i + 1 \in 1 .. n /\ t[i] = s[i]
      BY <1>1
    <3>. QED BY <3>1, <1>3 DEF Chain
  <2>4. \A i, j \in 1 .. n : i < j => t[j].file \in Needed(Uses[t[i].file])
    BY <1>3 DEF Chain
  <2>. QED BY <2>2, <2>3, <2>4, <1>1 DEF Chain
<1>6. Reach(t, q, gone \cup {f})
  <2>1. Range(r) = {Head(r)} \cup Range(Tail(r))
    BY RangeTail
  <2>2. Range(q) \subseteq Range(r) /\ Range(r) \subseteq Range(q) \cup {f}
    BY <2>1, <1>1
  <2>. QED BY <2>2, <1>1, <1>3 DEF Reach
<1>. QED BY <1>4, <1>5, <1>6, <1>1 DEF t, q

-----------------------------------------------------------------------------
(* The inductive invariant of ModulesInOrder. *)

(* The calls that ModulesInOrder is about: no text comes from a call        *)
(* before.                                                                  *)
Pure == call.op = "load_modules" \/ call.fresh

(* The files that have a piece in the text.                                 *)
InText == {text[i][1] : i \in 1 .. Len(text)}

(* A file is begun once, and not after it was gone through.                 *)
StackInv ==
    /\ \A i, j \in 1 .. Len(stack) : stack[i].file = stack[j].file => i = j
    /\ \A i \in 1 .. Len(stack) : stack[i].file \notin included

(* Without an entry in the cache of a file that was not gone through, the   *)
(* text has one piece of each file gone through.                            *)
PureInv ==
    Pure =>
        /\ \A i, j \in 1 .. Len(text) : text[i][1] = text[j][1] => i = j
        /\ Walking => InText = included
        /\ Walking /\ call.op = "load" => DOMAIN cache \subseteq included

(* Each piece is that on the disk, after those of the files it uses.        *)
Ordered ==
    \A i \in 1 .. Len(text) :
        /\ Exists(text[i][1])
        /\ text[i][2] = disk[text[i][1]].time
        /\ Uses[text[i][1]] \subseteq {text[j][1] : j \in 1 .. i - 1}

(* While no file changes, the walk is as the disk says.                     *)
SteadyInv ==
    (Walking /\ call.steady) =>
        /\ \A i \in 1 .. Len(stack) : AsRead(stack[i], included)
        /\ Chain(stack, roots)
        /\ Reach(stack, roots, included)
        /\ Pure => Ordered

(* A call that ended had a reason; see WalkEnds.                            *)
EndInv ==
    (Ended /\ call.steady) =>
        /\ call.status \in {"circular", "missing"} => ~Loadable(call.entry)
        /\ Pure /\ Done =>
               /\ Loadable(call.entry)
               /\ InText = NeededBy(call.entry)
               /\ Ordered

(* The invariant proved for ModulesInOrder.                                 *)
IInv == TypeOK /\ StackInv /\ PureInv /\ SteadyInv /\ EndInv

\* The order of the text while no file changes.
LEMMA SameOrdered ==
    ASSUME disk' = disk, text' = text
    PROVE  Ordered' <=> Ordered
<1>1. Uses' = Uses
  BY SameDisk
<1>. QED BY <1>1 DEF Ordered, Exists

\* The invariant at the start.
LEMMA InitInv == Init => StackInv /\ PureInv /\ SteadyInv /\ EndInv
<1> SUFFICES ASSUME Init PROVE StackInv /\ PureInv /\ SteadyInv /\ EndInv
  OBVIOUS
<1>1. stack = <<>> /\ text = <<>> /\ call = NoCall /\ ~Walking /\ ~Ended /\ ~Pure
  BY DEF Init, NoCall, Walking, Ended, Pure
<1>. QED BY <1>1 DEF StackInv, PureInv, SteadyInv, EndInv

(* What is used next by a needed file is needed. *)
\* The next file is needed, and used by the file on top of the stack.
LEMMA TargetNeeded ==
    ASSUME IInv, Pending, call.steady
    PROVE  /\ Target \in NeededBy(call.entry)
           /\ stack # <<>> => Target \in Uses[Top.file]
           /\ stack # <<>> => Exists(Top.file)
<1>1. Walking /\ Reach(stack, roots, included) /\ \A i \in 1 .. Len(stack) : AsRead(stack[i], included)
  BY DEF IInv, SteadyInv, Pending
<1>2. DiskType /\ call.entry \in Files
  BY <1>1 DEF IInv, TypeOK, CallInv
<1>3. CASE stack = <<>>
  <2>1. Target \in Range(roots)
    <3>1. roots \in Seq(Files) /\ roots # <<>> /\ Target = Head(roots)
      BY <1>3 DEF Pending, Target, IInv, TypeOK, WalkType
    <3>. QED BY <3>1, RangeTail
  <2>2. Range(RootsOf(call.entry)) \in SUBSET Places
    BY <1>2, LoaderAssumption DEF RootsOf, Range, Places
  <2>. QED BY <2>1, <2>2, <1>1, <1>3, ClosureContains DEF Reach, NeededBy, Needed
<1>4. CASE stack # <<>>
  <2>1. Len(stack) \in 1 .. Len(stack) /\ Top = stack[Len(stack)] /\ Top \in Frame /\ Top.uses # <<>>
    <3>1. TypeOK
      BY DEF IInv
    <3>. QED BY <3>1, <1>4, FrameFacts DEF Top, Pending
  <2>2. AsRead(Top, included) /\ Top.file \in NeededBy(call.entry)
    BY <2>1, <1>1 DEF Reach
  <2>3. Target = Resolve(Top.file, Head(Top.uses)) /\ Head(Top.uses) \in Range(Top.uses)
    BY <2>1, <1>4, RangeTail DEF Target, Frame
  <2>4. Target \in Uses[Top.file] /\ Top.file \in DOMAIN disk
    BY <2>2, <2>3 DEF AsRead, Exists
  <2>5. Uses[Top.file] \subseteq Places /\ Top.file \in DOMAIN Uses
    BY <2>4, <1>2, UsesIn
  <2>6. Target \in NeededBy(call.entry)
    BY <2>2, <2>4, <2>5, ClosureStep DEF NeededBy, Needed
  <2>. QED BY <2>4, <2>6 DEF Exists
<1>. QED BY <1>3, <1>4

\* An error for a reason keeps the invariant.
LEMMA FailInv ==
    ASSUME NEW why \in {"circular", "missing"}, IInv, Walking, Fail(why),
           call.steady => ~Loadable(call.entry)
    PROVE  StackInv' /\ PureInv' /\ SteadyInv' /\ EndInv'
<1>1. /\ call'.status = why /\ call'.steady = call.steady /\ call'.entry = call.entry
      /\ stack' = <<>> /\ text' = <<>> /\ disk' = disk
  BY DEF Fail, IInv, TypeOK, CallInv, CallType
<1>2. call.entry \in Files
  BY DEF IInv, TypeOK, CallInv
<1>3. call'.steady => ~Loadable(call.entry)'
  BY <1>1, <1>2, SameDisk
<1>. QED BY <1>1, <1>3 DEF StackInv, PureInv, SteadyInv, EndInv, Walking, Done

\* A circular import: the file on the stack needs itself, so that the program
\* cannot be loaded.
LEMMA CircularInv == IInv /\ Circular => StackInv' /\ PureInv' /\ SteadyInv' /\ EndInv'
<1> SUFFICES ASSUME IInv, Circular PROVE StackInv' /\ PureInv' /\ SteadyInv' /\ EndInv'
  OBVIOUS
<1>1. ASSUME call.steady PROVE ~Loadable(call.entry)
  <2>1. PICK i \in 1 .. Len(stack) : stack[i].file = Target
    <3>1. stack \in Seq(Frame)
      BY DEF IInv, TypeOK, WalkType
    <3>. QED BY <3>1, LenProperties DEF Circular, OnStack
  <2>2. /\ stack # <<>> /\ Len(stack) \in Nat /\ Top = stack[Len(stack)]
        /\ \A j \in 1 .. Len(stack) : stack[j].file \in Files
    <3>1. TypeOK
      BY DEF IInv
    <3>. QED BY <3>1, <2>1, FrameFacts DEF Top
  <2>3. Target \in Uses[Top.file] /\ Exists(Top.file) /\ Pending
    BY <2>2, <1>1, TargetNeeded DEF Circular
  <2>4. Chain(stack, roots) /\ Reach(stack, roots, included)
    BY <2>3, <1>1 DEF IInv, SteadyInv, Pending
  <2>5. Target \in NeededBy(call.entry)
    BY <2>1, <2>4 DEF Reach
  <2>6. DiskType
    BY DEF IInv, TypeOK
  <2>7. Target \in Needed(Uses[Target])
    <3>1. CASE i = Len(stack)
      <4>1. Target = Top.file
        BY <3>1, <2>1, <2>2
      <4>2. Uses[Target] \in SUBSET Places
        BY <4>1, <2>3, <2>6, UsesIn DEF Exists
      <4>. QED BY <4>1, <4>2, <2>3, ClosureContains DEF Needed
    <3>2. CASE i # Len(stack)
      <4>1. Len(stack) \in 1 .. Len(stack) /\ i < Len(stack)
        BY <3>2, <2>1, <2>2
      <4>2. Top.file \in Needed(Uses[Target])
        BY <4>1, <2>1, <2>2, <2>4 DEF Chain
      <4>3. Top.file \in DOMAIN Uses /\ Uses[Top.file] \subseteq Places
        BY <2>3, <2>6, UsesIn DEF Exists
      <4>. QED BY <4>2, <4>3, <2>3, ClosureStep DEF Needed
    <3>. QED BY <3>1, <3>2
  <2>. QED BY <2>5, <2>7 DEF Loadable
<1>. QED BY <1>1, FailInv DEF Circular, Pending

\* A missing file is needed, so that the program cannot be loaded.
LEMMA MissingInv == IInv /\ Missing => StackInv' /\ PureInv' /\ SteadyInv' /\ EndInv'
<1> SUFFICES ASSUME IInv, Missing PROVE StackInv' /\ PureInv' /\ SteadyInv' /\ EndInv'
  OBVIOUS
<1>1. ASSUME call.steady PROVE ~Loadable(call.entry)
  <2>1. Target \in NeededBy(call.entry) /\ ~Exists(Target)
    BY <1>1, TargetNeeded DEF Missing
  <2>. QED BY <2>1 DEF Loadable
<1>. QED BY <1>1, FailInv DEF Missing, Pending

(* Skip and Reuse. *)
\* The walk while no file changes, after the next file has been gone through.
LEMMA DoneSteady ==
    ASSUME IInv, Pending, Target \in Files,
           stack' = StackAfter(stack, Target), roots' = RootsAfter(stack, roots),
           included' = included \cup {Target},
           UNCHANGED <<disk, call>>, call.steady
    PROVE  /\ \A i \in 1 .. Len(stack') : AsRead(stack[i], included)'
           /\ Chain(stack, roots)'
           /\ Reach(stack, roots, included)'
<1>1. /\ Target \in NeededBy(call.entry)
      /\ \A i \in 1 .. Len(stack) : AsRead(stack[i], included)
      /\ Chain(stack, roots) /\ Reach(stack, roots, included)
  BY TargetNeeded DEF IInv, SteadyInv, Pending
<1>2. /\ stack \in Seq(Frame) /\ roots \in Seq(Files) /\ roots # <<>>
      /\ stack # <<>> => stack[Len(stack)].uses # <<>>
  BY TargetIn DEF IInv, TypeOK, WalkType, Top
<1>3. Target = IF stack = <<>> THEN Head(roots)
               ELSE Resolve(stack[Len(stack)].file, Head(stack[Len(stack)].uses))
  BY DEF Target, Top
<1>4. /\ \A i \in 1 .. Len(stack') : AsRead(stack'[i], included')
      /\ Chain(stack', roots')
      /\ Reach(stack', roots', included')
  BY <1>1, <1>2, <1>3, Gone
<1>5. call' = call /\ call.entry \in Files
  BY DEF IInv, TypeOK, CallInv, Pending
<1>. QED BY <1>4, <1>5, SameWalk

\* The files on the stack stay, one by one.
LEMMA StackFiles ==
    ASSUME IInv, Pending, Target \in Files, Unseen(Target) \/ Target \in included,
           ~OnStack(Target),
           stack' = StackAfter(stack, Target), roots' = RootsAfter(stack, roots),
           included' = included \cup {Target}
    PROVE  /\ StackInv'
           /\ Len(stack') = Len(stack)
           /\ \A i \in 1 .. Len(stack) : stack'[i].file = stack[i].file
<1>1. /\ Len(stack) \in Nat
      /\ stack = <<>> <=> Len(stack) = 0
      /\ stack # <<>> => Top = stack[Len(stack)]
      /\ Len(stack') = Len(stack)
      /\ \A i \in 1 .. Len(stack) - 1 : stack'[i] = stack[i]
      /\ stack # <<>> => stack'[Len(stack)].file = Top.file
  BY DoneFacts DEF IInv
<1>2. \A i \in 1 .. Len(stack) : stack'[i].file = stack[i].file
  BY <1>1
<1>3. \A i \in 1 .. Len(stack) : stack[i].file # Target
  BY LenProperties DEF OnStack, IInv, TypeOK, WalkType
<1>4. StackInv'
  BY <1>1, <1>2, <1>3 DEF IInv, StackInv
<1>. QED BY <1>1, <1>2, <1>4

\* Skip keeps the invariant.
LEMMA SkipInv == IInv /\ Skip => StackInv' /\ PureInv' /\ SteadyInv' /\ EndInv'
<1> SUFFICES ASSUME IInv, Skip PROVE StackInv' /\ PureInv' /\ SteadyInv' /\ EndInv'
  OBVIOUS
<1>1. /\ Pending /\ Target \in Files /\ Target \in included /\ ~OnStack(Target)
      /\ stack' = StackAfter(stack, Target) /\ roots' = RootsAfter(stack, roots)
      /\ UNCHANGED <<disk, clock, cache, call, known, included, text>>
  BY SkipFacts DEF IInv
<1>2. included' = included \cup {Target}
  BY <1>1
<1>3. StackInv'
  BY <1>1, <1>2, StackFiles
<1>4. PureInv'
  BY <1>1 DEF IInv, PureInv, Pure, InText, Walking
<1>5. SteadyInv'
  <2> SUFFICES ASSUME Walking', call'.steady
               PROVE  /\ \A i \in 1 .. Len(stack') : AsRead(stack[i], included)'
                      /\ Chain(stack, roots)'
                      /\ Reach(stack, roots, included)'
                      /\ Pure' => Ordered'
    BY DEF SteadyInv
  <2>1. /\ \A i \in 1 .. Len(stack') : AsRead(stack[i], included)'
        /\ Chain(stack, roots)'
        /\ Reach(stack, roots, included)'
    BY <1>1, <1>2, DoneSteady
  <2>2. Pure' => Ordered
    BY <1>1 DEF IInv, SteadyInv, Pure, Pending
  <2>3. Ordered' <=> Ordered
    BY <1>1, SameOrdered
  <2>. QED BY <2>1, <2>2, <2>3
<1>6. EndInv'
  BY <1>1 DEF EndInv, Ended, Pending, Walking
<1>. QED BY <1>3, <1>4, <1>5, <1>6

\* Reuse keeps the invariant; with a clear cache there is no Reuse.
LEMMA ReuseInv == IInv /\ Reuse => StackInv' /\ PureInv' /\ SteadyInv' /\ EndInv'
<1> SUFFICES ASSUME IInv, Reuse PROVE StackInv' /\ PureInv' /\ SteadyInv' /\ EndInv'
  OBVIOUS
<1>1. /\ Pending /\ Target \in Files /\ Unseen(Target)
      /\ stack' = StackAfter(stack, Target) /\ roots' = RootsAfter(stack, roots)
      /\ UNCHANGED <<disk, clock, cache, call, known>>
      /\ included' = included \cup {Target}
      /\ call.op = "load" /\ Target \in DOMAIN cache
  BY ReuseFacts DEF IInv
<1>2. ~Pure
  BY <1>1 DEF IInv, PureInv, Pending, Unseen
<1>3. ~Pure'
  BY <1>1, <1>2 DEF Pure
<1>4. StackInv'
  BY <1>1, StackFiles DEF Unseen
<1>5. PureInv'
  BY <1>3 DEF PureInv
<1>6. SteadyInv'
  BY <1>1, <1>3, DoneSteady DEF SteadyInv
<1>7. EndInv'
  BY <1>1 DEF EndInv, Ended, Pending, Walking
<1>. QED BY <1>4, <1>5, <1>6, <1>7

\* Open keeps the invariant.
LEMMA OpenInv == IInv /\ Open => StackInv' /\ PureInv' /\ SteadyInv' /\ EndInv'
<1> SUFFICES ASSUME IInv, Open PROVE StackInv' /\ PureInv' /\ SteadyInv' /\ EndInv'
  OBVIOUS
<1> DEFINE n == Len(stack)
           f == Target
<1>1. /\ Walking /\ Pending /\ f \in Files /\ Unseen(f) /\ Exists(f)
      /\ n \in Nat /\ roots # <<>>
      /\ stack = <<>> <=> n = 0
      /\ stack # <<>> => Top = stack[n] /\ Top.uses # <<>>
      /\ stack' \in Seq(Frame)
      /\ Len(stack') = n + 1
      /\ \A i \in 1 .. n : stack'[i] = stack[i]
      /\ stack'[n + 1].file = f
      /\ stack'[n + 1].time = disk[f].time
      /\ stack'[n + 1].uses = disk[f].uses
      /\ stack'[n + 1].deps = {}
      /\ UNCHANGED <<disk, clock, cache, call, roots, included, text, known>>
  BY OpenFacts DEF IInv
<1>2. \A i \in 1 .. n : stack[i].file # f
  BY <1>1, LenProperties DEF Unseen, OnStack, IInv, TypeOK, WalkType
<1>3. \A i \in 1 .. n + 1 : i \in 1 .. n \/ i = n + 1
  BY <1>1
<1>4. StackInv'
  <2>1. \A i, j \in 1 .. n + 1 : stack'[i].file = stack'[j].file => i = j
    BY <1>1, <1>2, <1>3 DEF IInv, StackInv
  <2>2. \A i \in 1 .. n + 1 : stack'[i].file \notin included'
    BY <1>1, <1>3 DEF IInv, StackInv, Unseen
  <2>. QED BY <2>1, <2>2, <1>1 DEF StackInv
<1>5. PureInv'
  BY <1>1 DEF IInv, PureInv, Pure, InText, Walking
<1>6. SteadyInv'
  <2> SUFFICES ASSUME Walking', call'.steady
               PROVE  /\ \A i \in 1 .. n + 1 : AsRead(stack[i], included)'
                      /\ Chain(stack, roots)'
                      /\ Reach(stack, roots, included)'
                      /\ Pure' => Ordered'
    BY <1>1 DEF SteadyInv
  <2>1. /\ \A i \in 1 .. n : AsRead(stack[i], included)
        /\ Chain(stack, roots) /\ Reach(stack, roots, included) /\ (Pure => Ordered)
        /\ call.steady
    BY <1>1 DEF IInv, SteadyInv
  <2>2. /\ f \in NeededBy(call.entry)
        /\ stack # <<>> => f \in Uses[Top.file]
        /\ stack # <<>> => Exists(Top.file)
    BY <1>1, <2>1, TargetNeeded
  <2>3. \A i \in 1 .. n + 1 : AsRead(stack'[i], included)
    <3>1. AsRead(stack'[n + 1], included)
      BY <1>1 DEF AsRead, Uses, Exists
    <3>. QED BY <3>1, <1>1, <1>3, <2>1
  <2>4. \A i \in 1 .. n + 1 : AsRead(stack'[i], included')
    BY <2>3, <1>1
  <2>5. \A i, j \in 1 .. n + 1 : i < j => stack'[j].file \in Needed(Uses[stack'[i].file])
    <3>1. DiskType
      BY DEF IInv, TypeOK
    <3>2. ASSUME NEW i \in 1 .. n PROVE f \in Needed(Uses[stack[i].file])
      <4>1. stack # <<>> /\ n \in 1 .. n /\ Top = stack[n]
        BY <1>1, <3>2
      <4>2. Top.file \in DOMAIN Uses /\ Uses[Top.file] \subseteq Places
        BY <4>1, <2>2, <3>1, UsesIn DEF Exists
      <4>3. CASE i = n
        BY <4>1, <4>2, <4>3, <2>2, ClosureContains DEF Needed
      <4>4. CASE i # n
        <5>1. Top.file \in Needed(Uses[stack[i].file])
          BY <4>1, <4>4, <2>1 DEF Chain
        <5>. QED BY <5>1, <4>1, <4>2, <2>2, ClosureStep DEF Needed
      <4>. QED BY <4>3, <4>4
    <3>3. \A i, j \in 1 .. n + 1 : i < j => stack'[j].file \in Needed(Uses[stack'[i].file])
      <4> SUFFICES ASSUME NEW i \in 1 .. n + 1, NEW j \in 1 .. n + 1, i < j
                   PROVE  stack'[j].file \in Needed(Uses[stack'[i].file])
        OBVIOUS
      <4>1. i \in 1 .. n /\ stack'[i] = stack[i]
        BY <1>1
      <4>2. CASE j = n + 1
        BY <4>1, <4>2, <3>2, <1>1
      <4>3. CASE j # n + 1
        <5>1. j \in 1 .. n
          BY <4>3, <1>3
        <5>. QED BY <4>1, <5>1, <2>1, <1>1 DEF Chain
      <4>. QED BY <4>2, <4>3
    <3>. QED BY <3>3
  <2>6. Head(roots') = stack'[1].file
    <3>1. CASE stack = <<>>
      BY <3>1, <1>1 DEF Target
    <3>2. CASE stack # <<>>
      <4>1. 1 \in 1 .. n
        BY <3>2, <1>1
      <4>. QED BY <3>2, <4>1, <1>1, <2>1 DEF Chain
    <3>. QED BY <3>1, <3>2
  <2>7. \A i \in 1 .. n : stack'[i + 1].file = Resolve(stack'[i].file, Head(stack'[i].uses))
    <3> TAKE i \in 1 .. n
    <3>1. CASE i = n
      <4>1. stack # <<>> /\ f = Resolve(Top.file, Head(Top.uses)) /\ n \in 1 .. n
        BY <3>1, <1>1 DEF Target
      <4>. QED BY <3>1, <4>1, <1>1
    <3>2. CASE i # n
      <4>1. i + 1 \in 1 .. n /\ i \in 1 .. n - 1
        BY <3>2, <1>1
      <4>. QED BY <4>1, <1>1, <2>1 DEF Chain
    <3>. QED BY <3>1, <3>2
  <2>8. Chain(stack', roots')
    BY <2>5, <2>6, <2>7, <1>1 DEF Chain
  <2>9. Reach(stack', roots', included')
    BY <1>1, <1>3, <2>1, <2>2 DEF Reach
  <2>11. call.entry \in Files /\ disk' = disk /\ call' = call /\ Len(stack') = n + 1
    BY <1>1 DEF IInv, TypeOK, CallInv
  <2>10. Pure' => Ordered'
    <3>1. Pure' => Ordered
      BY <1>1, <2>1 DEF Pure
    <3>2. Ordered' <=> Ordered
      BY <1>1, SameOrdered
    <3>. QED BY <3>1, <3>2
  <2>. QED BY <2>4, <2>8, <2>9, <2>10, <2>11, SameWalk
<1>7. EndInv'
  BY <1>1 DEF EndInv, Ended, Walking
<1>. QED BY <1>4, <1>5, <1>6, <1>7

\* Close keeps the invariant: the piece comes after those of what the file
\* uses.
LEMMA CloseInv == IInv /\ Close => StackInv' /\ PureInv' /\ SteadyInv' /\ EndInv'
<1> SUFFICES ASSUME IInv, Close PROVE StackInv' /\ PureInv' /\ SteadyInv' /\ EndInv'
  OBVIOUS
<1> DEFINE n == Len(stack)
           k == Len(text)
           f == Top.file
           b == Rest(stack)
<1>1. /\ n \in Nat \ {0} /\ Top = stack[n] /\ Top \in Frame
      /\ Top.uses = <<>> /\ Walking /\ roots # <<>>
      /\ k \in Nat /\ Len(text') = k + 1
      /\ \A i \in 1 .. k : text'[i] = text[i]
      /\ text'[k + 1] = <<f, Top.time>>
      /\ included' = included \cup {f}
      /\ stack' \in Seq(Frame)
      /\ Len(stack') = n - 1
      /\ \A i \in 1 .. n - 2 : stack'[i] = stack[i]
      /\ n > 1 => stack'[n - 1].file = stack[n - 1].file
      /\ call.op # "load" => cache' = cache
      /\ call' = call /\ disk' = disk /\ known' = known /\ clock' = clock
  BY CloseFacts DEF IInv
<1>2. /\ f \in Files /\ call.entry \in Files
      /\ \A i \in 1 .. n - 1 : stack'[i].file = stack[i].file
  <2>1. f \in Files /\ call.entry \in Files
    BY <1>1 DEF Frame, IInv, TypeOK, CallInv
  <2>2. ASSUME NEW i \in 1 .. n - 1 PROVE stack'[i].file = stack[i].file
    <3>1. i \in 1 .. n - 2 \/ (n > 1 /\ i = n - 1)
      BY <1>1
    <3>. QED BY <3>1, <1>1
  <2>. QED BY <2>1, <2>2
<1>3. /\ \A i \in 1 .. k + 1 : i \in 1 .. k \/ i = k + 1
      /\ k + 1 \in 1 .. k + 1
      /\ \A i \in 1 .. k : i # k + 1
      /\ text'[k + 1][1] = f
      /\ text'[k + 1][2] = Top.time
  BY <1>1
<1>4. n \in 1 .. n /\ f \notin included /\ \A i \in 1 .. n - 1 : stack[i].file # f
  <2>1. n \in 1 .. n /\ f = stack[n].file /\ \A i \in 1 .. n - 1 : i \in 1 .. n /\ i # n
    BY <1>1
  <2>. QED BY <2>1 DEF IInv, StackInv
<1>5. StackInv'
  <2>3. /\ \A i, j \in 1 .. n : stack[i].file = stack[j].file => i = j
        /\ \A i \in 1 .. n : stack[i].file \notin included
    BY DEF IInv, StackInv
  <2>4. \A i \in 1 .. n - 1 : i \in 1 .. n
    BY <1>1
  <2>1. \A i, j \in 1 .. n - 1 : stack'[i].file = stack'[j].file => i = j
    BY <1>2, <2>3, <2>4
  <2>2. \A i \in 1 .. n - 1 : stack'[i].file \notin included'
    BY <1>1, <1>2, <1>4, <2>3, <2>4
  <2>. QED BY <2>1, <2>2, <1>1 DEF StackInv
<1>6. (InText = included) => (InText' = included')
  <2>1. InText' = InText \cup {f}
    <3>1. \A x : x \in InText' <=> \E i \in 1 .. k + 1 : text'[i][1] = x
      BY <1>1 DEF InText
    <3>2. \A x : x \in InText <=> \E i \in 1 .. k : text'[i][1] = x
      BY <1>1 DEF InText
    <3>3. \A i \in 1 .. k : i \in 1 .. k + 1
      BY <1>1
    <3> HIDE DEF f, k
    <3>4. \A x : x \in InText' <=> (x \in InText \/ x = f)
      BY <3>1, <3>2, <3>3, <1>3
    <3>. QED BY <3>4
  <2>. QED BY <2>1, <1>1
<1>7. PureInv'
  <2> SUFFICES ASSUME Pure'
               PROVE  /\ \A i, j \in 1 .. k + 1 : text'[i][1] = text'[j][1] => i = j
                      /\ InText' = included'
                      /\ call.op = "load" => DOMAIN cache' \subseteq included'
    BY <1>1 DEF PureInv
  <2>1. /\ \A i, j \in 1 .. k : text[i][1] = text[j][1] => i = j
        /\ InText = included
        /\ call.op = "load" => DOMAIN cache \subseteq included
    BY <1>1 DEF IInv, PureInv, Pure
  <2>2. \A i \in 1 .. k : text'[i][1] = text[i][1] /\ text'[i][1] # f
    BY <1>1, <1>4, <2>1 DEF InText
  <2>3. \A i, j \in 1 .. k + 1 : text'[i][1] = text'[j][1] => i = j
    BY <1>3, <2>1, <2>2
  <2>4. call.op = "load" => DOMAIN cache' \subseteq included'
    <3> SUFFICES ASSUME call.op = "load" PROVE DOMAIN cache' \subseteq included'
      OBVIOUS
    <3>1. cache' = Cached(cache, f, SubSeq(text', Top.from + 1, Len(text')), Top.deps)
      BY DEF Close
    <3>2. DOMAIN cache' = DOMAIN cache \cup {f}
      BY <3>1 DEF Cached, Put
    <3>. QED BY <3>2, <2>1, <1>1
  <2>. QED BY <2>1, <2>3, <2>4, <1>6
<1>8. SteadyInv'
  <2> SUFFICES ASSUME Walking', call'.steady
               PROVE  /\ \A i \in 1 .. Len(stack') : AsRead(stack[i], included)'
                      /\ Chain(stack, roots)'
                      /\ Reach(stack, roots, included)'
                      /\ Pure' => Ordered'
    BY DEF SteadyInv
  <2>1. /\ \A i \in 1 .. n : AsRead(stack[i], included)
        /\ Chain(stack, roots) /\ Reach(stack, roots, included)
        /\ call.steady
    BY <1>1 DEF IInv, SteadyInv
  <2>2. b \in Seq(Frame) /\ Len(b) = n - 1 /\ \A i \in 1 .. n - 1 : b[i] = stack[i]
    <3>1. stack \in Seq(Frame) /\ stack # <<>>
      BY DEF IInv, TypeOK, WalkType, Close
    <3>. QED BY <3>1, RestFacts
  <2>3. /\ b = <<>> <=> n = 1
        /\ b # <<>> => n - 1 \in 1 .. n - 1 /\ 1 \in 1 .. n - 1
    BY <2>2, <1>1, EmptySeq
  <2>4. b # <<>> => b[Len(b)].uses # <<>>
    <3>1. \A i \in 1 .. n - 1 : stack[i].uses # <<>>
      BY DEF IInv, TypeOK, Shape
    <3>. QED BY <3>1, <2>2, <2>3
  <2>5. Chain(b, roots)
    BY <2>1, <2>2, <2>3, <1>1, SMTT(30) DEF Chain
  <2>6. Reach(b, roots, included) /\ f \in NeededBy(call.entry)
    BY <2>1, <2>2, <1>1, <1>4, SMTT(30) DEF Reach
  <2>7. f = IF b = <<>> THEN Head(roots) ELSE Resolve(b[Len(b)].file, Head(b[Len(b)].uses))
    <3>1. CASE b = <<>>
      BY <3>1, <2>1, <2>3, <1>1 DEF Chain
    <3>2. CASE b # <<>>
      <4>1. stack[(n - 1) + 1].file = Resolve(stack[n - 1].file, Head(stack[n - 1].uses))
        BY <3>2, <2>1, <2>3 DEF Chain
      <4>2. (n - 1) + 1 = n
        BY <1>1
      <4>. QED BY <3>2, <4>1, <4>2, <2>2, <2>3, <1>1
    <3>. QED BY <3>1, <3>2
  <2>8. stack' = StackAfter(b, f) /\ roots' = RootsAfter(b, roots) /\ roots \in Seq(Files)
    BY DEF Close, IInv, TypeOK, WalkType
  <2>9. \A i \in 1 .. Len(b) : AsRead(b[i], included)
    BY <2>1, <2>2, <1>1, SMTT(30)
  <2>10. /\ \A i \in 1 .. Len(stack') : AsRead(stack'[i], included')
         /\ Chain(stack', roots')
         /\ Reach(stack', roots', included')
    <3> HIDE DEF b, f
    <3>. QED BY <1>1, <1>2, <2>2, <2>4, <2>5, <2>6, <2>7, <2>8, <2>9, Gone
  <2>11. Pure' => Ordered'
    <3> SUFFICES ASSUME Pure' PROVE Ordered'
      OBVIOUS
    <3>1. Ordered /\ InText = included
      BY <2>1, <1>1 DEF IInv, SteadyInv, PureInv, Pure
    <3>2. AsRead(Top, included)
      BY <2>1, <1>1, <1>4
    <3>3. Exists(f) /\ Top.time = disk[f].time /\ Uses[f] \subseteq included
      BY <3>2, <1>1 DEF AsRead, Range
    <3>4. \A i \in 1 .. k + 1 :
              /\ Exists(text'[i][1])
              /\ text'[i][2] = disk[text'[i][1]].time
              /\ Uses[text'[i][1]] \subseteq {text'[j][1] : j \in 1 .. i - 1}
      <4> TAKE i \in 1 .. k + 1
      <4>1. CASE i \in 1 .. k
        <5>1. \A j \in 1 .. i - 1 : text'[j] = text[j]
          BY <4>1, <1>1
        <5>2. {text'[j][1] : j \in 1 .. i - 1} = {text[j][1] : j \in 1 .. i - 1}
          BY <5>1
        <5>. QED BY <5>2, <4>1, <3>1, <1>1 DEF Ordered
      <4>2. CASE i = k + 1
        <5>1. \A j \in 1 .. k : text'[j] = text[j]
          BY <1>1
        <5>2. {text'[j][1] : j \in 1 .. k} = InText
          BY <5>1 DEF InText
        <5>3. i - 1 = k
          BY <4>2, <1>1
        <5>. QED BY <5>2, <5>3, <4>2, <3>1, <3>3, <1>3
      <4>. QED BY <4>1, <4>2, <1>3
    <3>. QED BY <3>4, <1>1, SameDisk DEF Ordered
  <2>. QED BY <2>10, <2>11, <1>1, <1>2, SameWalk
<1>9. EndInv'
  BY <1>1 DEF EndInv, Ended, Walking
<1>. QED BY <1>5, <1>7, <1>8, <1>9

(* A walk that has come to its end. *)
\* When nothing is left to do, the files gone through are those needed, none
\* needs itself and none is missing.
LEMMA WalkEnds ==
    ASSUME IInv, Walking, call.steady, Pure, stack = <<>>, roots = <<>>
    PROVE  /\ Loadable(call.entry)
           /\ InText = NeededBy(call.entry)
           /\ Ordered
<1>1. /\ Reach(stack, roots, included) /\ Ordered /\ InText = included
      /\ \A i, j \in 1 .. Len(text) : text[i][1] = text[j][1] => i = j
  BY DEF IInv, SteadyInv, PureInv
<1>2. /\ DiskType /\ included \subseteq Places /\ DOMAIN Uses = DOMAIN disk /\ Len(text) \in Nat
      /\ \A f \in DOMAIN disk : Uses[f] \subseteq Places
  BY UsesIn, FrameFacts DEF IInv, TypeOK, WalkType, Places
<1>3. Range(RootsOf(call.entry)) \subseteq included
  BY <1>1 DEF Reach, Range
<1>4. \A i \in 1 .. Len(text) : {text[j][1] : j \in 1 .. i - 1} \subseteq included
  BY <1>1, <1>2 DEF InText
<1>5. Closed(Uses, included)
  BY <1>1, <1>4 DEF Closed, Ordered, InText
<1>6. NeededBy(call.entry) \subseteq included
  BY <1>2, <1>3, <1>5, ClosureLeast DEF NeededBy, Needed
<1>7. InText = NeededBy(call.entry)
  BY <1>1, <1>6 DEF Reach
<1>8. ASSUME NEW f \in NeededBy(call.entry) PROVE Exists(f) /\ f \notin Needed(Uses[f])
  <2>1. PICK i \in 1 .. Len(text) : f = text[i][1]
    BY <1>7 DEF InText
  <2> DEFINE before == {text[j][1] : j \in 1 .. i - 1}
  <2>2. Exists(f) /\ Uses[f] \subseteq before
    BY <2>1, <1>1 DEF Ordered
  <2>3. before \in SUBSET Places
    BY <1>2, <1>4
  <2>4. Closed(Uses, before)
    <3> SUFFICES ASSUME NEW j \in 1 .. i - 1 PROVE Uses[text[j][1]] \subseteq before
      BY DEF Closed
    <3>1. j \in 1 .. Len(text) /\ \A m \in 1 .. j - 1 : m \in 1 .. i - 1
      BY <1>2
    <3>2. Uses[text[j][1]] \subseteq {text[m][1] : m \in 1 .. j - 1}
      BY <3>1, <1>1 DEF Ordered
    <3>. QED BY <3>1, <3>2
  <2>5. f \notin before
    <3>1. \A j \in 1 .. i - 1 : j \in 1 .. Len(text) /\ j # i
      BY <1>2
    <3>. QED BY <3>1, <2>1, <1>1
  <2> HIDE DEF before
  <2>6. Needed(Uses[f]) \subseteq before
    BY <2>2, <2>3, <2>4, ClosureLeast DEF Needed
  <2>. QED BY <2>2, <2>5, <2>6
<1>. QED BY <1>1, <1>7, <1>8 DEF Loadable

\* Return keeps the invariant.
LEMMA ReturnInv == IInv /\ Return => StackInv' /\ PureInv' /\ SteadyInv' /\ EndInv'
<1> SUFFICES ASSUME IInv, Return PROVE StackInv' /\ PureInv' /\ SteadyInv' /\ EndInv'
  OBVIOUS
<1>1. /\ Walking /\ stack = <<>> /\ roots = <<>> /\ call.entry \in Files
      /\ call'.status = "done" /\ call'.entry = call.entry /\ call'.steady = call.steady
      /\ call'.fresh = call.fresh /\ call'.op = call.op
      /\ UNCHANGED <<disk, stack, text>>
  BY DEF Return, IInv, TypeOK, CallInv, CallType
<1>2. ~Walking' /\ (Pure' <=> Pure)
  BY <1>1 DEF Walking, Pure
<1>3. StackInv'
  BY <1>1 DEF StackInv
<1>4. PureInv'
  BY <1>1, <1>2 DEF IInv, PureInv
<1>5. EndInv'
  <2> SUFFICES ASSUME call.steady, Pure
               PROVE  /\ Loadable(call.entry)'
                      /\ InText' = NeededBy(call.entry)'
                      /\ Ordered'
    BY <1>1, <1>2 DEF EndInv
  <2>1. /\ Loadable(call.entry)
        /\ InText = NeededBy(call.entry)
        /\ Ordered
    BY <1>1, WalkEnds
  <2>2. Loadable(call.entry)'
    BY <2>1, <1>1, SameDisk
  <2>3. NeededBy(call.entry)' = NeededBy(call.entry) /\ InText' = InText
    BY <1>1, SameDisk DEF InText
  <2>. QED BY <2>1, <2>2, <2>3, <1>1, SameOrdered
<1>. QED BY <1>2, <1>3, <1>4, <1>5 DEF SteadyInv

\* The start of a call establishes what is said of the walk.
LEMMA BeginInv ==
    ASSUME NEW op \in {"load", "load_modules"}, NEW entry \in Files, IInv, Begin(op, entry),
           op = "load" => cache' = cache
    PROVE  StackInv' /\ PureInv' /\ SteadyInv' /\ EndInv'
<1>1. /\ call' = [op |-> op, entry |-> entry, status |-> "walking", steady |-> TRUE,
                  fresh |-> DOMAIN cache = {}, checked |-> known \in {Unresolved, entry}]
      /\ roots' = RootsOf(entry) /\ text' = <<>> /\ stack' = <<>> /\ included' = {}
      /\ disk' = disk
  BY DEF Begin, IInv, TypeOK, CallInv
<1>2. call'.op = op /\ call'.entry = entry /\ (call'.fresh <=> DOMAIN cache = {}) /\ Walking'
  BY <1>1 DEF Walking
<1>3. StackInv'
  BY <1>1 DEF StackInv
<1>4. PureInv'
  BY <1>1, <1>2 DEF PureInv, InText, Pure
<1>5. Reach(stack, roots, included)'
  <2>1. Range(roots') = Range(RootsOf(call.entry)')
    BY <1>1, <1>2, SameDisk
  <2>. QED BY <2>1, <1>1 DEF Reach
<1>6. SteadyInv'
  <2>1. Len(stack') = 0 /\ Len(text') = 0
    BY <1>1
  <2>2. Chain(stack, roots)' /\ Ordered'
    BY <1>1, <2>1 DEF Chain, Ordered
  <2>. QED BY <1>5, <2>1, <2>2 DEF SteadyInv
<1>7. EndInv'
  BY <1>2 DEF EndInv, Ended, Walking
<1>. QED BY <1>3, <1>4, <1>6, <1>7

\* A change of the disk during a call only leaves what does not depend on the
\* disk.
LEMMA ChangeInv ==
    ASSUME NEW f, IInv, Change(f)
    PROVE  StackInv' /\ PureInv' /\ SteadyInv' /\ EndInv'
<1>1. CASE Walking
  <2>1. /\ call'.steady = FALSE /\ call'.op = call.op /\ call'.status = call.status
        /\ call'.fresh = call.fresh
        /\ text' = text /\ stack' = stack /\ included' = included /\ cache' = cache
    BY <1>1 DEF Change, IInv, TypeOK, CallInv, CallType
  <2>. QED BY <1>1, <2>1 DEF IInv, StackInv, PureInv, SteadyInv, EndInv, Pure, InText, Walking, Ended
<1>2. CASE ~Walking
  <2>1. call' = NoCall /\ text' = <<>> /\ stack' = stack /\ included' = included
    BY <1>2 DEF Change
  <2>. QED BY <2>1 DEF IInv, StackInv, PureInv, SteadyInv, EndInv, Pure, Walking, Ended, NoCall
<1>. QED BY <1>1, <1>2

\* Every step keeps the invariant.
LEMMA NextInv == IInv /\ [Next]_vars => IInv'
<1> SUFFICES ASSUME IInv, [Next]_vars PROVE StackInv' /\ PureInv' /\ SteadyInv' /\ EndInv'
  BY NextType DEF IInv
<1>1. CASE UNCHANGED vars
  <2>1. UNCHANGED <<disk, cache, call, roots, stack, included, text>> /\ call.entry \in Places
    BY <1>1 DEF vars, walk, IInv, TypeOK, CallInv, CallType
  <2>2. StackInv' /\ PureInv'
    BY <2>1 DEF IInv, StackInv, PureInv, Pure, InText, Walking
  <2>3. (Pure' <=> Pure) /\ (Walking' <=> Walking) /\ (Ordered' <=> Ordered) /\ InText' = InText
    BY <2>1, SameOrdered DEF Pure, Walking, InText
  <2>4. SteadyInv'
    <3> SUFFICES ASSUME Walking, call.steady
                 PROVE  /\ \A i \in 1 .. Len(stack') : AsRead(stack[i], included)'
                        /\ Chain(stack, roots)'
                        /\ Reach(stack, roots, included)'
                        /\ Pure => Ordered
      BY <2>1, <2>3 DEF SteadyInv
    <3>1. /\ \A i \in 1 .. Len(stack') : AsRead(stack'[i], included')
          /\ Chain(stack', roots')
          /\ Reach(stack', roots', included')
          /\ Pure => Ordered
          /\ call.entry \in Files
      BY <2>1 DEF IInv, SteadyInv, TypeOK, CallInv
    <3>. QED BY <3>1, <2>1, SameWalk
  <2>5. EndInv'
    <3>1. (Loadable(call.entry)' <=> Loadable(call.entry)) /\ NeededBy(call.entry)' = NeededBy(call.entry)
      BY <2>1, SameDisk
    <3>. QED BY <2>1, <2>3, <3>1 DEF IInv, EndInv, Ended, Done
  <2>. QED BY <2>2, <2>4, <2>5
<1>2. CASE \E f \in Entries : Load(f) \/ LoadModules(f)
  BY <1>2, BeginInv, LoaderAssumption DEF Load, LoadModules
<1>3. CASE Circular
  BY <1>3, CircularInv
<1>4. CASE Missing
  BY <1>4, MissingInv
<1>5. CASE Skip
  BY <1>5, SkipInv
<1>6. CASE Reuse
  BY <1>6, ReuseInv
<1>7. CASE Open
  BY <1>7, OpenInv
<1>8. CASE Close
  BY <1>8, CloseInv
<1>9. CASE Return
  BY <1>9, ReturnInv
<1>10. CASE ClearCache
  BY <1>10 DEF ClearCache, IInv, TypeOK, CallInv, StackInv, PureInv, SteadyInv, EndInv, Pure,
                   NoCall, Walking, Ended
<1>11. CASE \E f \in Files, uses \in UseLists : WriteFile(f, uses)
  BY <1>11, ChangeInv DEF WriteFile
<1>12. CASE \E f \in DOMAIN disk : RemoveFile(f)
  BY <1>12, ChangeInv DEF RemoveFile
<1>. QED BY <1>1, <1>2, <1>3, <1>4, <1>5, <1>6, <1>7, <1>8, <1>9, <1>10, <1>11, <1>12 DEF Next

\* The invariant implies the property.
LEMMA InvOrder == IInv => ModulesInOrder
<1> SUFFICES ASSUME IInv, Pure PROVE
      LET at == [i \in DOMAIN text |-> text[i][1]] IN
        /\ IsInjective(at)
        /\ (Ended /\ call.steady) => (Done <=> Loadable(call.entry))
        /\ (Done /\ call.steady) =>
               /\ Range(text) = OnDisk(NeededBy(call.entry))
               /\ \A i \in DOMAIN at : Uses[at[i]] \subseteq {at[j] : j \in 1 .. i - 1}
  BY DEF ModulesInOrder, Pure
<1> DEFINE at == [i \in DOMAIN text |-> text[i][1]]
<1>1. DOMAIN text = 1 .. Len(text) /\ Len(text) \in Nat /\ \A i \in 1 .. Len(text) : text[i] \in Piece
  BY FrameFacts, LenProperties DEF IInv, TypeOK, WalkType
<1>2. IsInjective(at)
  BY <1>1 DEF IInv, PureInv, IsInjective
<1>3. (Ended /\ call.steady) => (Done <=> Loadable(call.entry))
  BY DEF IInv, EndInv, Ended, Done
<1>4. ASSUME Done, call.steady
      PROVE  /\ Range(text) = OnDisk(NeededBy(call.entry))
             /\ \A i \in DOMAIN at : Uses[at[i]] \subseteq {at[j] : j \in 1 .. i - 1}
  <2>1. InText = NeededBy(call.entry) /\ Ordered
    BY <1>4 DEF IInv, EndInv, Ended, Done
  <2>2. \A i \in 1 .. Len(text) : text[i] = <<text[i][1], disk[text[i][1]].time>>
    <3>1. \A p \in Piece : p = <<p[1], p[2]>>
      BY DEF Piece
    <3>. QED BY <3>1, <1>1, <2>1 DEF Ordered
  <2>3. Range(text) = OnDisk(NeededBy(call.entry))
    <3> DEFINE piece(f) == <<f, disk[f].time>>
    <3>1. \A p : p \in Range(text) <=> \E i \in 1 .. Len(text) : p = text[i]
      BY <1>1 DEF Range
    <3>2. \A f : f \in NeededBy(call.entry) <=> \E i \in 1 .. Len(text) : f = text[i][1]
      BY <2>1 DEF InText
    <3>3. \A p : p \in OnDisk(NeededBy(call.entry)) <=> \E f \in NeededBy(call.entry) : p = piece(f)
      BY DEF OnDisk
    <3>4. \A i \in 1 .. Len(text) : text[i] = piece(text[i][1])
      BY <2>2
    <3> HIDE DEF piece
    <3>5. \A p : p \in Range(text) <=> p \in OnDisk(NeededBy(call.entry))
      BY <3>1, <3>2, <3>3, <3>4
    <3>6. \A p \in Range(text) : p \in OnDisk(NeededBy(call.entry))
      BY <3>5
    <3>7. \A p \in OnDisk(NeededBy(call.entry)) : p \in Range(text)
      BY <3>5
    <3>. QED BY <3>6, <3>7
  <2>4. \A i \in DOMAIN at : Uses[at[i]] \subseteq {at[j] : j \in 1 .. i - 1}
    <3> TAKE i \in DOMAIN at
    <3>1. i \in 1 .. Len(text) /\ at[i] = text[i][1] /\ \A j \in 1 .. i - 1 : at[j] = text[j][1]
      BY <1>1
    <3>2. {at[j] : j \in 1 .. i - 1} = {text[j][1] : j \in 1 .. i - 1}
      BY <3>1, ZenonT(40)
    <3>. QED BY <3>1, <3>2, <2>1 DEF Ordered
  <2>. QED BY <2>3, <2>4
<1>. QED BY <1>2, <1>3, <1>4

(***************************************************************************)
(* load_modules, and load with a clear cache, end well exactly when no     *)
(* module needed is missing or needs itself, and give each module needed   *)
(* once, as it is on disk, after those it uses (collect_modules,           *)
(* load_recursive: the set of files gone through and the stack of those    *)
(* begun).                                                                 *)
(***************************************************************************)
THEOREM Order == Spec => []ModulesInOrder
<1>1. Init => IInv
  BY InitType, InitInv DEF IInv
<1>2. IInv /\ [Next]_vars => IInv'
  BY NextInv
<1>. QED BY <1>1, <1>2, InvOrder, PTL DEF Spec

-----------------------------------------------------------------------------
(* The plan of a load: for each file gone through, the length of the text   *)
(* when it was begun and when it was closed, its time and what it uses.     *)

(* A plan has one entry for each file of some set.                          *)
PlanEntry == [from : Nat, at : Nat, time : Nat, uses : Seq(Files)]

PlanType(plan) ==
    /\ DOMAIN plan \subseteq Files
    /\ \A g \in DOMAIN plan : plan[g] \in PlanEntry

(* The first k members of a sequence.                                       *)
First(U, k) == {U[j] : j \in 1 .. k}

(* The files closed after the text had length lo, and by hi.                *)
Between(plan, lo, hi) == {g \in DOMAIN plan : lo < plan[g].at /\ plan[g].at <= hi}

(* How far the walk has come when it has gone through the files used.       *)
IsPos(plan, p, from, used) ==
    /\ from <= p
    /\ \A u \in used : plan[u].at <= p
    /\ p = from \/ \E u \in used : plan[u].at = p

(* Each file used was gone through before or was begun at that moment.      *)
Followed(plan, U, k, from) ==
    \A j \in 1 .. k :
        /\ U[j] \in DOMAIN plan
        /\ \A p \in Nat : IsPos(plan, p, from, First(U, j - 1))
               => plan[U[j]].at <= p \/ (plan[U[j]].from = p /\ p <= plan[U[j]].at)

(* A set that has the uses of its files closed by top.                      *)
ClosedTo(plan, top, V) ==
    \A g \in V \cap DOMAIN plan : plan[g].at <= top => Range(plan[g].uses) \subseteq V

(* The files closed between lo and hi are all needed by the files used.     *)
Under(plan, used, lo, hi, top) ==
    \A V \in SUBSET Places :
        used \subseteq V /\ ClosedTo(plan, top, V) => Between(plan, lo, hi) \subseteq V

(* The first k uses of a file begun at from have been gone through, and     *)
(* the text has come from there to hi.                                      *)
Walked(plan, U, k, from, hi, top) ==
    /\ Followed(plan, U, k, from)
    /\ IsPos(plan, hi, from, First(U, k))
    /\ Under(plan, First(U, k), from, hi, top)

(* Each file closed went through its uses in order, and what was closed in  *)
(* between was begun in between.                                            *)
Recorded(plan) ==
    /\ \A f, g \in DOMAIN plan : plan[f].at = plan[g].at => f = g
    /\ \A f \in DOMAIN plan :
          /\ plan[f].from < plan[f].at
          /\ Followed(plan, plan[f].uses, Len(plan[f].uses), plan[f].from)
          /\ IsPos(plan, plan[f].at - 1, plan[f].from, Range(plan[f].uses))
          /\ \A t \in DOMAIN plan :
                plan[f].from < plan[t].at /\ plan[t].at <= plan[f].at => plan[f].from <= plan[t].from
          /\ Under(plan, {f}, plan[f].from, plan[f].at, plan[f].at)

-----------------------------------------------------------------------------

\* The first members of a sequence.
LEMMA FirstFacts ==
    ASSUME NEW A, NEW U \in Seq(A)
    PROVE  /\ First(U, 0) = {}
           /\ First(U, Len(U)) = Range(U)
           /\ Len(U) \in Nat
           /\ \A k \in Nat : k + 1 <= Len(U) => /\ First(U, k + 1) = First(U, k) \cup {U[k + 1]}
                                               /\ U[k + 1] \in A
           /\ \A k \in Nat : k <= Len(U) => First(U, k) \subseteq Range(U)
           /\ Range(U) \subseteq A
<1>1. Len(U) \in Nat /\ DOMAIN U = 1 .. Len(U) /\ \A i \in 1 .. Len(U) : U[i] \in A
  BY LenProperties, ElementOfSeq
<1>2. First(U, 0) = {}
  BY DEF First
<1>3. First(U, Len(U)) = Range(U) /\ Range(U) \subseteq A
  BY <1>1 DEF First, Range
<1>4. ASSUME NEW k \in Nat, k + 1 <= Len(U)
      PROVE  First(U, k + 1) = First(U, k) \cup {U[k + 1]} /\ U[k + 1] \in A
  <2>1. 1 .. k + 1 = (1 .. k) \cup {k + 1}
    OBVIOUS
  <2>2. k + 1 \in 1 .. Len(U)
    BY <1>1, <1>4
  <2>. QED BY <1>1, <2>1, <2>2 DEF First
<1>5. ASSUME NEW k \in Nat, k <= Len(U) PROVE First(U, k) \subseteq Range(U)
  <2>1. \A i \in 1 .. k : i \in 1 .. Len(U)
    BY <1>1, <1>5
  <2>. QED BY <1>1, <2>1 DEF First, Range
<1>. QED BY <1>1, <1>2, <1>3, <1>4, <1>5

\* The types of a plan, taken apart.
LEMMA PlanFacts ==
    ASSUME NEW plan, PlanType(plan)
    PROVE  \A g \in DOMAIN plan :
               /\ g \in Files /\ plan[g].from \in Nat /\ plan[g].at \in Nat
               /\ plan[g].time \in Nat /\ plan[g].uses \in Seq(Files)
BY DEF PlanType, PlanEntry

\* How far the walk has come is determined by the files used.
LEMMA PosUnique ==
    ASSUME NEW plan, PlanType(plan), NEW used \in SUBSET DOMAIN plan, NEW from \in Nat,
           NEW p \in Nat, NEW q \in Nat, IsPos(plan, p, from, used), IsPos(plan, q, from, used)
    PROVE  p = q
BY PlanFacts DEF IsPos

\* How far the walk has come once one more use has been gone through.
LEMMA PosNext ==
    ASSUME NEW plan, PlanType(plan), NEW used \in SUBSET DOMAIN plan, NEW from \in Nat,
           NEW p \in Nat, IsPos(plan, p, from, used), NEW u \in DOMAIN plan
    PROVE  /\ plan[u].at <= p => IsPos(plan, p, from, used \cup {u})
           /\ p <= plan[u].at => IsPos(plan, plan[u].at, from, used \cup {u})
BY PlanFacts DEF IsPos

(* One use more: of a file that was gone through before, or of one that was *)
(* begun at this moment.                                                    *)
\* One more use of a file, gone through before or begun at that moment.
LEMMA WalkedNext ==
    ASSUME NEW plan, PlanType(plan), Recorded(plan), NEW A, NEW U \in Seq(A), NEW k \in Nat,
           k + 1 <= Len(U), NEW from \in Nat, NEW hi \in Nat, NEW top \in Nat,
           NEW to \in Nat, Walked(plan, U, k, from, hi, top), U[k + 1] \in DOMAIN plan,
           First(U, k) \subseteq DOMAIN plan,
           \/ plan[U[k + 1]].at <= hi /\ to = hi
           \/ plan[U[k + 1]].from = hi /\ to = plan[U[k + 1]].at /\ to <= top
    PROVE  Walked(plan, U, k + 1, from, to, top)
<1> DEFINE u == U[k + 1]
           used == First(U, k)
<1>1. First(U, k + 1) = used \cup {u} /\ u \in DOMAIN plan /\ used \subseteq DOMAIN plan
  BY FirstFacts
<1>2. /\ plan[u].at \in Nat /\ plan[u].from \in Nat /\ plan[u].from < plan[u].at
      /\ Followed(plan, U, k, from) /\ IsPos(plan, hi, from, used) /\ Under(plan, used, from, hi, top)
      /\ Under(plan, {u}, plan[u].from, plan[u].at, plan[u].at)
  BY <1>1, PlanFacts DEF Recorded, Walked
<1>3. \/ plan[u].at <= hi /\ to = hi
      \/ plan[u].from = hi /\ to = plan[u].at /\ to <= top
  OBVIOUS
<1> HIDE DEF u, used
<1>4. Followed(plan, U, k + 1, from)
  <2> SUFFICES ASSUME NEW j \in 1 .. k + 1
               PROVE  /\ U[j] \in DOMAIN plan
                      /\ \A p \in Nat : IsPos(plan, p, from, First(U, j - 1))
                            => plan[U[j]].at <= p \/ (plan[U[j]].from = p /\ p <= plan[U[j]].at)
    BY DEF Followed
  <2>1. CASE j \in 1 .. k
    BY <2>1, <1>2 DEF Followed
  <2>2. CASE j = k + 1
    <3>1. U[j] = u /\ First(U, j - 1) = used
      BY <2>2 DEF u, used
    <3>2. \A p \in Nat : IsPos(plan, p, from, used) => p = hi
      BY <1>1, <1>2, PosUnique
    <3>. QED BY <3>1, <3>2, <1>1, <1>2, <1>3
  <2>. QED BY <2>1, <2>2
<1>5. IsPos(plan, to, from, used \cup {u})
  <2>1. CASE plan[u].at <= hi /\ to = hi
    BY <2>1, <1>1, <1>2, PosNext
  <2>2. CASE plan[u].from = hi /\ to = plan[u].at
    <3>1. hi <= plan[u].at
      BY <2>2, <1>2
    <3>. QED BY <3>1, <2>2, <1>1, <1>2, PosNext
  <2>. QED BY <2>1, <2>2, <1>3
<1>6. Under(plan, used \cup {u}, from, to, top)
  <2> SUFFICES ASSUME NEW V \in SUBSET Places, used \cup {u} \subseteq V, ClosedTo(plan, top, V)
               PROVE  Between(plan, from, to) \subseteq V
    BY DEF Under
  <2>1. Between(plan, from, hi) \subseteq V
    BY <1>2 DEF Under
  <2>2. CASE plan[u].at <= hi /\ to = hi
    BY <2>1, <2>2
  <2>3. CASE plan[u].from = hi /\ to = plan[u].at /\ to <= top
    <3>1. ClosedTo(plan, plan[u].at, V)
      BY <2>3, PlanFacts DEF ClosedTo
    <3>2. Between(plan, hi, to) \subseteq V
      BY <3>1, <2>3, <1>2 DEF Under
    <3>3. Between(plan, from, to) \subseteq Between(plan, from, hi) \cup Between(plan, hi, to)
      BY PlanFacts DEF Between
    <3>. QED BY <2>1, <3>2, <3>3
  <2>. QED BY <2>2, <2>3, <1>3
<1>. QED BY <1>1, <1>4, <1>5, <1>6 DEF Walked

\* A file of which no use has been gone through.
LEMMA WalkedNothing ==
    ASSUME NEW plan, PlanType(plan), NEW U, NEW p \in Nat, NEW top
    PROVE  Walked(plan, U, 0, p, p, top)
<1>1. First(U, 0) = {} /\ Between(plan, p, p) = {}
  BY PlanFacts DEF First, Between
<1>2. Followed(plan, U, 0, p)
  BY DEF Followed
<1>. QED BY <1>1, <1>2 DEF Walked, IsPos, Under

-----------------------------------------------------------------------------
(* One file more in the plan. *)

(* The plan next is the plan with f closed last.                            *)
Longer(plan, next, f, top) ==
    /\ DOMAIN next = DOMAIN plan \cup {f}
    /\ f \notin DOMAIN plan
    /\ \A g \in DOMAIN plan : next[g] = plan[g] /\ plan[g].at <= top
    /\ next[f].at = top + 1

\* What a longer plan says of the uses gone through.
LEMMA LongerWalked ==
    ASSUME NEW plan, NEW next, NEW f, NEW top \in Nat, Longer(plan, next, f, top),
           PlanType(next), PlanType(plan),
           NEW U, NEW k \in Nat, NEW from \in Nat, NEW hi \in Nat, hi <= top,
           NEW upto \in Nat, upto <= top,
           Walked(plan, U, k, from, hi, upto)
    PROVE  Walked(next, U, k, from, hi, upto)
<1>1. /\ Followed(plan, U, k, from) /\ IsPos(plan, hi, from, First(U, k))
      /\ Under(plan, First(U, k), from, hi, upto)
  BY DEF Walked
<1>2. \A j \in 1 .. k : U[j] \in DOMAIN plan
  BY <1>1 DEF Followed
<1>3. First(U, k) \subseteq DOMAIN plan /\ \A j \in 1 .. k : First(U, j - 1) \subseteq DOMAIN plan
  BY <1>2 DEF First
<1>4. \A used \in SUBSET DOMAIN plan, p \in Nat : IsPos(next, p, from, used) <=> IsPos(plan, p, from, used)
  BY DEF IsPos, Longer
<1>5. Followed(next, U, k, from)
  BY <1>1, <1>2, <1>3, <1>4 DEF Followed, Longer
<1>6. \A V : ClosedTo(next, upto, V) => ClosedTo(plan, upto, V)
  BY DEF ClosedTo, Longer
<1>7. Between(next, from, hi) = Between(plan, from, hi)
  BY PlanFacts DEF Between, Longer
<1>. QED BY <1>1, <1>3, <1>4, <1>5, <1>6, <1>7 DEF Walked, Under

\* The same with a longer text.
LEMMA WalkedMore ==
    ASSUME NEW plan, PlanType(plan), NEW U, NEW k, NEW from, NEW hi, NEW top \in Nat, NEW more \in Nat,
           top <= more, Walked(plan, U, k, from, hi, top)
    PROVE  Walked(plan, U, k, from, hi, more)
<1>1. \A V : ClosedTo(plan, more, V) => ClosedTo(plan, top, V)
  BY PlanFacts DEF ClosedTo
<1>. QED BY <1>1 DEF Walked, Under

\* A longer plan is a plan.
LEMMA LongerRecorded ==
    ASSUME NEW plan, NEW next, NEW f, NEW top \in Nat, Longer(plan, next, f, top),
           PlanType(next), PlanType(plan), Recorded(plan),
           next[f].from <= top,
           Walked(plan, next[f].uses, Len(next[f].uses), next[f].from, top, top),
           \A t \in DOMAIN plan : next[f].from < plan[t].at => next[f].from <= plan[t].from
    PROVE  Recorded(next)
<1> DEFINE U == next[f].uses
           from == next[f].from
<1>1. /\ f \in DOMAIN next /\ f \in Files /\ U \in Seq(Files) /\ from \in Nat /\ next[f].at = top + 1
      /\ from <= top /\ Len(U) \in Nat /\ First(U, Len(U)) = Range(U)
      /\ Walked(plan, U, Len(U), from, top, top)
  BY PlanFacts, FirstFacts, LenProperties DEF Longer
<1>2. /\ \A g \in DOMAIN plan : next[g] = plan[g] /\ plan[g].at <= top /\ g # f
      /\ DOMAIN next = DOMAIN plan \cup {f}
      /\ \A g \in DOMAIN plan : plan[g].at \in Nat /\ plan[g].from \in Nat
      /\ \A t \in DOMAIN plan : from < plan[t].at => from <= plan[t].from
  BY PlanFacts DEF Longer
<1> HIDE DEF U, from
<1>3. Walked(next, U, Len(U), from, top, top)
  BY <1>1, LongerWalked
<1>4. \A g, h \in DOMAIN next : next[g].at = next[h].at => g = h
  BY <1>1, <1>2 DEF Recorded
<1>5. ASSUME NEW g \in DOMAIN plan
      PROVE  /\ next[g].from < next[g].at
             /\ Followed(next, next[g].uses, Len(next[g].uses), next[g].from)
             /\ IsPos(next, next[g].at - 1, next[g].from, Range(next[g].uses))
             /\ \A t \in DOMAIN next :
                   next[g].from < next[t].at /\ next[t].at <= next[g].at => next[g].from <= next[t].from
             /\ Under(next, {g}, next[g].from, next[g].at, next[g].at)
  <2> DEFINE W == plan[g].uses
  <2>1. /\ next[g] = plan[g] /\ plan[g].at <= top
                                /\ plan[g].at \in Nat /\ plan[g].from \in Nat
        /\ W \in Seq(Files) /\ Len(W) \in Nat /\ First(W, Len(W)) = Range(W)
        /\ plan[g].from < plan[g].at
    <3>1. /\ next[g] = plan[g] /\ plan[g].at <= top
                                /\ plan[g].at \in Nat /\ plan[g].from \in Nat
          /\ W \in Seq(Files) /\ plan[g].from < plan[g].at
      BY <1>2, PlanFacts DEF Recorded
    <3> HIDE DEF W
    <3>. QED BY <3>1, FirstFacts
  <2>2. /\ Followed(plan, W, Len(W), plan[g].from)
        /\ IsPos(plan, plan[g].at - 1, plan[g].from, Range(W))
        /\ Under(plan, {g}, plan[g].from, plan[g].at, plan[g].at)
    BY DEF Recorded
  <2> HIDE DEF W
  <2>3. \A j \in 1 .. Len(W) : W[j] \in DOMAIN plan
    BY <2>2 DEF Followed
  <2>4. Range(W) \subseteq DOMAIN plan /\ \A j \in 1 .. Len(W) : First(W, j - 1) \subseteq DOMAIN plan
    <3>1. \A j \in 1 .. Len(W) : First(W, j - 1) \subseteq DOMAIN plan
      <4> SUFFICES ASSUME NEW j \in 1 .. Len(W), NEW i \in 1 .. j - 1 PROVE W[i] \in DOMAIN plan
        BY DEF First
      <4>1. i \in 1 .. Len(W)
        BY <2>1
      <4>. QED BY <4>1, <2>3
    <3>. QED BY <2>1, <2>3, <3>1 DEF First
  <2>5. \A lo : \A used \in SUBSET DOMAIN plan, p \in Nat :
               IsPos(next, p, lo, used) <=> IsPos(plan, p, lo, used)
    BY <1>2 DEF IsPos
  <2>6. Followed(next, W, Len(W), plan[g].from)
    BY <2>2, <2>3, <2>4, <2>5, <1>2 DEF Followed
  <2>7. IsPos(next, plan[g].at - 1, plan[g].from, Range(W))
    <3>1. plan[g].at - 1 \in Nat
      BY <2>1
    <3>. QED BY <3>1, <2>2, <2>4, <2>5
  <2>8. \A t \in DOMAIN next :
            plan[g].from < next[t].at /\ next[t].at <= plan[g].at => plan[g].from <= next[t].from
    <3>1. \A t \in DOMAIN plan :
              plan[g].from < plan[t].at /\ plan[t].at <= plan[g].at => plan[g].from <= plan[t].from
      BY DEF Recorded
    <3>2. ~(next[f].at <= plan[g].at)
      BY <1>1, <2>1
    <3>. QED BY <1>2, <3>1, <3>2
  <2>9. Under(next, {g}, plan[g].from, plan[g].at, plan[g].at)
    <3>1. \A V : ClosedTo(next, plan[g].at, V) => ClosedTo(plan, plan[g].at, V)
      BY <1>2 DEF ClosedTo
    <3>2. Between(next, plan[g].from, plan[g].at) = Between(plan, plan[g].from, plan[g].at)
      BY <1>1, <1>2, <2>1 DEF Between
    <3>. QED BY <2>2, <3>1, <3>2 DEF Under
  <2>. QED BY <2>1, <2>6, <2>7, <2>8, <2>9 DEF W
<1>6. /\ from < top + 1
      /\ Followed(next, U, Len(U), from)
      /\ IsPos(next, (top + 1) - 1, from, Range(U))
      /\ \A t \in DOMAIN next : from < next[t].at /\ next[t].at <= top + 1 => from <= next[t].from
      /\ Under(next, {f}, from, top + 1, top + 1)
  <2>1. from < top + 1 /\ (top + 1) - 1 = top
    BY <1>1
  <2>2. Followed(next, U, Len(U), from) /\ IsPos(next, top, from, Range(U)) /\ Under(next, Range(U), from, top, top)
    BY <1>1, <1>3 DEF Walked
  <2>3. \A t \in DOMAIN next : from < next[t].at /\ next[t].at <= top + 1 => from <= next[t].from
    <3>1. next[f].from = from
      BY DEF from
    <3>. QED BY <1>1, <1>2, <3>1
  <2>4. Under(next, {f}, from, top + 1, top + 1)
    <3> SUFFICES ASSUME NEW V \in SUBSET Places, f \in V, ClosedTo(next, top + 1, V)
                 PROVE  Between(next, from, top + 1) \subseteq V
      BY DEF Under
    <3>1. Range(U) \subseteq V
      BY <1>1 DEF ClosedTo, U
    <3>2. ClosedTo(next, top, V)
      BY <1>1, <1>2 DEF ClosedTo
    <3>3. Between(next, from, top) \subseteq V
      BY <2>2, <3>1, <3>2 DEF Under
    <3>4. Between(next, from, top + 1) \subseteq Between(next, from, top) \cup {f}
      BY <1>1, <1>2 DEF Between
    <3>. QED BY <3>3, <3>4
  <2>. QED BY <2>1, <2>2, <2>3, <2>4
<1>7. \A g \in DOMAIN next : g = f \/ g \in DOMAIN plan
  BY <1>2
<1>8. next[f].uses = U /\ next[f].from = from
  BY DEF U, from
<1>. QED BY <1>1, <1>4, <1>5, <1>6, <1>7, <1>8, ZenonT(40) DEF Recorded

-----------------------------------------------------------------------------
(* The uses of a file. *)

(* The files that the use lines of f stand for, in order.                   *)
Resolved(f) == [i \in DOMAIN disk[f].uses |-> Resolve(f, disk[f].uses[i])]

(* What is left of a sequence of which some members have been taken.        *)
Suffix(all, rest) ==
    /\ Len(rest) <= Len(all)
    /\ \A j \in 1 .. Len(rest) : rest[j] = all[Len(all) - Len(rest) + j]

\* One member of the rest of a sequence is taken.
LEMMA SuffixNext ==
    ASSUME NEW A, NEW all \in Seq(A), NEW rest \in Seq(A), Suffix(all, rest), rest # <<>>
    PROVE  /\ Len(all) - Len(rest) \in Nat
           /\ Len(all) - Len(rest) + 1 <= Len(all)
           /\ Len(all) - Len(Tail(rest)) = Len(all) - Len(rest) + 1
           /\ Head(rest) = all[Len(all) - Len(rest) + 1]
           /\ Suffix(all, Tail(rest))
<1> DEFINE k == Len(all) - Len(rest)
           t == Tail(rest)
<1>1. /\ Len(rest) \in Nat /\ Len(rest) # 0 /\ Head(rest) = rest[1] /\ Len(all) \in Nat
      /\ Len(t) = Len(rest) - 1 /\ \A i \in 1 .. Len(t) : t[i] = rest[i + 1]
  BY HeadTailProperties, EmptySeq, LenProperties
<1>2. Len(rest) <= Len(all) /\ \A j \in 1 .. Len(rest) : rest[j] = all[k + j]
  BY DEF Suffix
<1> HIDE DEF t
<1>3. k \in Nat /\ k + 1 <= Len(all) /\ Len(all) - Len(t) = k + 1
  BY <1>1, <1>2
<1>4. 1 \in 1 .. Len(rest)
  BY <1>1
<1>5. Head(rest) = all[k + 1]
  BY <1>1, <1>2, <1>4
<1>6. \A j \in 1 .. Len(t) : t[j] = all[Len(all) - Len(t) + j]
  <2> TAKE j \in 1 .. Len(t)
  <2>1. j + 1 \in 1 .. Len(rest)
    BY <1>1
  <2>2. t[j] = all[k + (j + 1)]
    BY <2>1, <1>1, <1>2
  <2>3. k + (j + 1) = Len(all) - Len(t) + j
    BY <1>1, <1>3
  <2>. QED BY <2>2, <2>3
<1>7. Len(t) <= Len(all)
  BY <1>1, <1>2
<1>. QED BY <1>3, <1>5, <1>6, <1>7 DEF Suffix, t

\* A sequence is its own rest.
LEMMA SuffixWhole == ASSUME NEW A, NEW all \in Seq(A) PROVE Suffix(all, all) /\ Len(all) - Len(all) = 0
BY LenProperties DEF Suffix

\* The uses of a file there is, in order.
LEMMA ResolvedFacts ==
    ASSUME DiskType, NEW f, Exists(f)
    PROVE  /\ disk[f].uses \in Seq(STRING)
           /\ Len(disk[f].uses) \in Nat
           /\ Resolved(f) \in Seq(Places)
           /\ Len(Resolved(f)) = Len(disk[f].uses)
           /\ \A i \in 1 .. Len(disk[f].uses) : Resolved(f)[i] = Resolve(f, disk[f].uses[i])
           /\ Range(Resolved(f)) = Uses[f]
<1>1. disk[f].uses \in Seq(STRING)
  BY DEF DiskType, Exists
<1>2. Len(disk[f].uses) \in Nat /\ DOMAIN disk[f].uses = 1 .. Len(disk[f].uses)
  BY <1>1, LenProperties
<1>3. \A n : Resolve(f, n) \in Places
  BY ResolveIn DEF DiskType, Places
<1>4. Resolved(f) = [i \in 1 .. Len(disk[f].uses) |-> Resolve(f, disk[f].uses[i])]
  BY <1>2 DEF Resolved
<1>5. Resolved(f) \in Seq(Places) /\ Len(Resolved(f)) = Len(disk[f].uses)
  BY <1>2, <1>3, <1>4, IsASeq, LenProperties
<1>6. Range(Resolved(f)) = Uses[f]
  BY <1>2, <1>4, SMTT(30) DEF Uses, Range, Exists
<1>. QED BY <1>1, <1>2, <1>4, <1>5, <1>6

-----------------------------------------------------------------------------
(* The first load of a program. *)

(* The pieces of the files S, with the times in the plan.                   *)
Pieces(plan, S) == {<<g, plan[g].time>> : g \in S}

(* A file begun in the first load.                                          *)
FrameFirst(plan, s, hi, top) ==
    LET k == Len(Resolved(s.file)) - Len(s.uses) IN
    /\ Suffix(disk[s.file].uses, s.uses)
    /\ s.deps = First(Resolved(s.file), k)
    /\ Walked(plan, Resolved(s.file), k, s.from, hi, top)
    /\ \A t \in DOMAIN plan : s.from < plan[t].at => s.from <= plan[t].from

(* The roots in the first load.                                             *)
RootsFirst(plan, e, r, hi, top) ==
    /\ Suffix(RootsOf(e), r)
    /\ Walked(plan, RootsOf(e), Len(RootsOf(e)) - Len(r), 0, hi, top)

\* A frame of the first load, once its next use has been gone through.
LEMMA FrameFirstNext ==
    ASSUME DiskType, NEW plan, PlanType(plan), Recorded(plan), NEW s \in Frame, Exists(s.file),
           NEW hi \in Nat, NEW top \in Nat, NEW to \in Nat,
           FrameFirst(plan, s, hi, top), s.uses # <<>>,
           NEW u \in DOMAIN plan, u = Resolve(s.file, Head(s.uses)),
           \/ plan[u].at <= hi /\ to = hi
           \/ plan[u].from = hi /\ to = plan[u].at /\ to <= top,
           NEW t, t.file = s.file, t.from = s.from, t.uses = Tail(s.uses), t.deps = s.deps \cup {u}
    PROVE  FrameFirst(plan, t, to, top)
<1> DEFINE all == disk[s.file].uses
           U == Resolved(s.file)
           k == Len(U) - Len(s.uses)
<1>1. /\ all \in Seq(STRING) /\ U \in Seq(Places) /\ Len(U) = Len(all) /\ Len(all) \in Nat
      /\ \A i \in 1 .. Len(all) : U[i] = Resolve(s.file, all[i])
  BY ResolvedFacts
<1>2. /\ Suffix(all, s.uses) /\ s.deps = First(U, k) /\ Walked(plan, U, k, s.from, hi, top)
      /\ \A x \in DOMAIN plan : s.from < plan[x].at => s.from <= plan[x].from
  BY DEF FrameFirst
<1>3. s.uses \in Seq(STRING) /\ s.from \in Nat
  BY DEF Frame
<1> HIDE DEF all, U
<1>9. /\ Len(all) - Len(s.uses) \in Nat
      /\ Len(all) - Len(s.uses) + 1 <= Len(all)
      /\ Len(all) - Len(Tail(s.uses)) = Len(all) - Len(s.uses) + 1
      /\ Head(s.uses) = all[Len(all) - Len(s.uses) + 1]
      /\ Suffix(all, Tail(s.uses))
  BY <1>1, <1>2, <1>3, SuffixNext
<1>4. /\ k \in Nat /\ k + 1 <= Len(U) /\ Len(U) - Len(Tail(s.uses)) = k + 1
      /\ Head(s.uses) = all[k + 1] /\ Suffix(all, Tail(s.uses))
  BY <1>1, <1>9
<1> HIDE DEF k
<1>5. U[k + 1] = u
  <2>1. k + 1 \in 1 .. Len(all)
    BY <1>1, <1>4
  <2>. QED BY <2>1, <1>1, <1>4
<1>6. First(U, k) \subseteq DOMAIN plan /\ First(U, k + 1) = First(U, k) \cup {u}
  <2>1. First(U, k + 1) = First(U, k) \cup {u}
    BY <1>1, <1>4, <1>5, FirstFacts
  <2>2. First(U, k) \subseteq DOMAIN plan
    BY <1>2 DEF Walked, Followed, First
  <2>. QED BY <2>1, <2>2
<1>7. Walked(plan, U, k + 1, s.from, to, top)
  BY <1>1, <1>2, <1>3, <1>4, <1>5, <1>6, WalkedNext
<1>8. t.deps = First(U, k + 1)
  BY <1>2, <1>6
<1>. QED BY <1>2, <1>4, <1>7, <1>8 DEF FrameFirst, all, U, k

\* The roots of the first load, once the next has been gone through.
LEMMA RootsFirstNext ==
    ASSUME NEW plan, PlanType(plan), Recorded(plan), NEW e \in Files, NEW r \in Seq(Files),
           NEW hi \in Nat, NEW top \in Nat, NEW to \in Nat,
           RootsFirst(plan, e, r, hi, top), r # <<>>, Head(r) \in DOMAIN plan,
           \/ plan[Head(r)].at <= hi /\ to = hi
           \/ plan[Head(r)].from = hi /\ to = plan[Head(r)].at /\ to <= top
    PROVE  RootsFirst(plan, e, Tail(r), to, top)
<1> DEFINE U == RootsOf(e)
           k == Len(U) - Len(r)
<1>1. U \in Seq(Files) /\ Len(U) \in Nat
  BY RootsType, LenProperties
<1>2. Suffix(U, r) /\ Walked(plan, U, k, 0, hi, top)
  BY DEF RootsFirst
<1> HIDE DEF U
<1>4. /\ k \in Nat /\ k + 1 <= Len(U) /\ Len(U) - Len(Tail(r)) = k + 1
      /\ Head(r) = U[k + 1] /\ Suffix(U, Tail(r))
  BY <1>1, <1>2, SuffixNext
<1> HIDE DEF k
<1>6. First(U, k) \subseteq DOMAIN plan
  BY <1>2 DEF Walked, Followed, First
<1>7. Walked(plan, U, k + 1, 0, to, top)
  BY <1>1, <1>2, <1>4, <1>6, WalkedNext
<1>. QED BY <1>4, <1>7 DEF RootsFirst, U, k

\* A frame of the first load, once a file has been closed.
LEMMA FrameLonger ==
    ASSUME DiskType, NEW plan, NEW next, NEW f, NEW top \in Nat, Longer(plan, next, f, top),
           PlanType(next), PlanType(plan), NEW s \in Frame, Exists(s.file),
           NEW hi \in Nat, hi <= top, FrameFirst(plan, s, hi, top), s.from <= next[f].from
    PROVE  FrameFirst(next, s, hi, top + 1)
<1> DEFINE U == Resolved(s.file)
           k == Len(U) - Len(s.uses)
<1>1. /\ Suffix(disk[s.file].uses, s.uses) /\ s.deps = First(U, k) /\ Walked(plan, U, k, s.from, hi, top)
      /\ \A x \in DOMAIN plan : s.from < plan[x].at => s.from <= plan[x].from
  BY DEF FrameFirst
<1>2. k \in Nat /\ s.from \in Nat
  BY <1>1, ResolvedFacts, LenProperties DEF Suffix, Frame
<1> HIDE DEF U, k
<1>3. Walked(next, U, k, s.from, hi, top)
  BY <1>1, <1>2, LongerWalked
<1>4. Walked(next, U, k, s.from, hi, top + 1)
  BY <1>3, WalkedMore
<1>5. \A x \in DOMAIN next : s.from < next[x].at => s.from <= next[x].from
  BY <1>1 DEF Longer
<1>. QED BY <1>1, <1>4, <1>5 DEF FrameFirst, U, k

\* The roots of the first load, once a file has been closed.
LEMMA RootsLonger ==
    ASSUME NEW plan, NEW next, NEW f, NEW top \in Nat, Longer(plan, next, f, top),
           PlanType(next), PlanType(plan), NEW e \in Files, NEW r \in Seq(Files),
           NEW hi \in Nat, hi <= top, RootsFirst(plan, e, r, hi, top)
    PROVE  RootsFirst(next, e, r, hi, top + 1)
<1> DEFINE U == RootsOf(e)
           k == Len(U) - Len(r)
<1>1. Suffix(U, r) /\ Walked(plan, U, k, 0, hi, top)
  BY DEF RootsFirst
<1>2. k \in Nat
  BY <1>1, RootsType, LenProperties DEF Suffix
<1> HIDE DEF U, k
<1>3. Walked(next, U, k, 0, hi, top)
  BY <1>1, <1>2, LongerWalked
<1>4. Walked(next, U, k, 0, hi, top + 1)
  BY <1>3, WalkedMore
<1>. QED BY <1>1, <1>4 DEF RootsFirst, U, k

(* The length of the text when the file above the i-th was begun, or now.   *)
Upto(s, hi, i) == IF i = Len(s) THEN hi ELSE s[i + 1].from

(* The i-th piece is that of the i-th file closed.                          *)
TextAs(plan, tx) ==
    /\ \A i \in 1 .. Len(tx) : tx[i][1] \in DOMAIN plan /\ plan[tx[i][1]].at = i
    /\ \A g \in DOMAIN plan : plan[g].at \in 1 .. Len(tx) /\ tx[plan[g].at] = <<g, plan[g].time>>

(* Each file closed is on the disk and in the cache as it was read.         *)
KeptAs(plan, c) ==
    \A g \in DOMAIN plan :
        /\ Exists(g) /\ disk[g].time = plan[g].time /\ plan[g].uses = Resolved(g)
        /\ g \in DOMAIN c /\ c[g].time = plan[g].time
        /\ c[g].dependencies = Range(plan[g].uses)
        /\ Range(c[g].content) = Pieces(plan, Between(plan, plan[g].from, plan[g].at))

(* The first load, in a state with the stack s, the roots r, the files      *)
(* gone through, the text tx and the cache c.                               *)
FirstAt(plan, e, s, r, gone, tx, c) ==
    /\ PlanType(plan) /\ Recorded(plan) /\ DOMAIN plan = gone
    /\ TextAs(plan, tx)
    /\ KeptAs(plan, c)
    /\ \A i \in 1 .. Len(s) : FrameFirst(plan, s[i], Upto(s, Len(tx), i), Len(tx))
    /\ \A i, j \in 1 .. Len(s) : i <= j => s[i].from <= s[j].from
    /\ RootsFirst(plan, e, r, Upto(s, Len(tx), 0), Len(tx))

FirstLoad(plan) == FirstAt(plan, call.entry, stack, roots, included, text, cache)

\* What is said of the first load after a step that changes no file.
LEMMA SameFirst ==
    ASSUME disk' = disk, NEW plan,
           FirstAt(plan, call'.entry, stack', roots', included', text', cache')
    PROVE  FirstLoad(plan)'
<1>1. \A f : Resolved(f)' = Resolved(f)
  BY DEF Resolved, Resolve, Exists
<1>2. KeptAs(plan, cache)'
  BY <1>1, SameDisk DEF FirstAt, KeptAs
<1>3. \A i \in 1 .. Len(stack') : FrameFirst(plan, stack[i], Upto(stack, Len(text), i), Len(text))'
  BY <1>1 DEF FirstAt, FrameFirst
<1>4. RootsFirst(plan, call.entry, roots, Upto(stack, Len(text), 0), Len(text))'
  BY SameDisk DEF FirstAt, RootsFirst
<1>5. TextAs(plan, text)'
  BY DEF FirstAt, TextAs
<1>. QED BY <1>2, <1>3, <1>4, <1>5 DEF FirstAt, FirstLoad

\* The first load opens a file.
LEMMA FirstOpen ==
    ASSUME IInv, Open, NEW plan, FirstLoad(plan)
    PROVE  FirstAt(plan, call'.entry, stack', roots', included', text', cache')
<1> DEFINE n == Len(stack)
           f == Target
           s == stack'[n + 1]
<1>1. /\ f \in Files /\ Exists(f) /\ n \in Nat /\ Walking
      /\ stack' \in Seq(Frame)
      /\ Len(stack') = n + 1
      /\ \A i \in 1 .. n : stack'[i] = stack[i]
      /\ s.file = f /\ s.uses = disk[f].uses /\ s.deps = {} /\ s.from = Len(text)
      /\ UNCHANGED <<disk, cache, call, roots, included, text>>
  BY OpenFacts DEF IInv
<1>2. /\ Len(text) \in Nat /\ DiskType
      /\ \A i \in 1 .. n : stack[i].from \in Nat /\ stack[i].from <= Len(text)
  BY FrameFacts DEF IInv, TypeOK
<1>3. /\ PlanType(plan) /\ Recorded(plan) /\ DOMAIN plan = included /\ TextAs(plan, text) /\ KeptAs(plan, cache)
      /\ \A i \in 1 .. n : FrameFirst(plan, stack[i], Upto(stack, Len(text), i), Len(text))
      /\ \A i, j \in 1 .. n : i <= j => stack[i].from <= stack[j].from
      /\ RootsFirst(plan, call.entry, roots, Upto(stack, Len(text), 0), Len(text))
  BY DEF FirstLoad, FirstAt
<1>4. /\ Upto(stack', Len(text), n + 1) = Len(text)
      /\ \A i \in 0 .. n : Upto(stack', Len(text), i) = Upto(stack, Len(text), i)
  <2>1. Upto(stack', Len(text), n + 1) = Len(text)
    BY <1>1 DEF Upto
  <2>2. \A i \in 0 .. n - 1 : Upto(stack', Len(text), i) = Upto(stack, Len(text), i)
    BY <1>1 DEF Upto
  <2>3. Upto(stack', Len(text), n) = Len(text) /\ Upto(stack, Len(text), n) = Len(text)
    BY <1>1 DEF Upto
  <2>4. \A i \in 0 .. n : i \in 0 .. n - 1 \/ i = n
    BY <1>1
  <2>. QED BY <2>1, <2>2, <2>3, <2>4
<1>5. FrameFirst(plan, s, Len(text), Len(text))
  <2>1. /\ Len(disk[f].uses) \in Nat /\ Len(Resolved(f)) = Len(disk[f].uses)
        /\ disk[f].uses \in Seq(STRING)
    BY <1>1, <1>2, ResolvedFacts
  <2>2. Len(Resolved(f)) - Len(s.uses) = 0 /\ Suffix(disk[f].uses, s.uses)
    BY <1>1, <2>1, SuffixWhole
  <2>3. Walked(plan, Resolved(f), 0, Len(text), Len(text), Len(text))
    BY <1>2, <1>3, WalkedNothing
  <2>4. First(Resolved(f), 0) = {}
    BY DEF First
  <2>5. \A t \in DOMAIN plan : ~(Len(text) < plan[t].at)
    BY <1>2, <1>3 DEF TextAs
  <2> HIDE DEF s, f
  <2>. QED BY <1>1, <2>2, <2>3, <2>4, <2>5 DEF FrameFirst
<1>6. \A i \in 1 .. n + 1 : i \in 1 .. n \/ i = n + 1
  BY <1>1
<1>7. \A i \in 1 .. n + 1 : FrameFirst(plan, stack'[i], Upto(stack', Len(text), i), Len(text))
  <2>1. \A i \in 1 .. n : FrameFirst(plan, stack'[i], Upto(stack', Len(text), i), Len(text))
    BY <1>1, <1>3, <1>4
  <2>. QED BY <2>1, <1>4, <1>5, <1>6
<1>8. \A i, j \in 1 .. n + 1 : i <= j => stack'[i].from <= stack'[j].from
  <2>1. stack'[n + 1].from = Len(text)
    BY <1>1
  <2>2. \A i \in 1 .. n : stack'[i] = stack[i]
    BY <1>1
  <2>. QED BY <2>1, <2>2, <1>1, <1>2, <1>3, <1>6
<1>9. RootsFirst(plan, call.entry, roots, Upto(stack', Len(text), 0), Len(text))
  BY <1>1, <1>3, <1>4
<1>. QED BY <1>1, <1>3, <1>7, <1>8, <1>9 DEF FirstAt

\* The stack and the roots of the first load, once a file has been gone
\* through.
LEMMA FirstAdvance ==
    ASSUME DiskType, NEW plan, PlanType(plan), Recorded(plan), NEW e \in Files,
           NEW b \in Seq(Frame), NEW r \in Seq(Files), NEW f \in DOMAIN plan,
           NEW hi \in Nat, NEW top \in Nat,
           r # <<>>, b # <<>> => b[Len(b)].uses # <<>>,
           \A i \in 1 .. Len(b) : Exists(b[i].file),
           f = IF b = <<>> THEN Head(r) ELSE Resolve(b[Len(b)].file, Head(b[Len(b)].uses)),
           \A i \in 1 .. Len(b) : FrameFirst(plan, b[i], Upto(b, hi, i), top),
           RootsFirst(plan, e, r, Upto(b, hi, 0), top),
           \/ plan[f].at <= hi /\ top = hi
           \/ plan[f].from = hi /\ top = plan[f].at
    PROVE  LET t == StackAfter(b, f)
               q == RootsAfter(b, r)
           IN /\ \A i \in 1 .. Len(t) : FrameFirst(plan, t[i], Upto(t, top, i), top)
              /\ RootsFirst(plan, e, q, Upto(t, top, 0), top)
              /\ Len(t) = Len(b)
              /\ \A i \in 1 .. Len(b) : t[i].from = b[i].from
<1> DEFINE t == StackAfter(b, f)
           q == RootsAfter(b, r)
           n == Len(b)
<1>1. f \in Files
  BY PlanFacts
<1>2. /\ Len(t) = n
      /\ n \in Nat
      /\ b = <<>> <=> n = 0
      /\ \A i \in 1 .. n - 1 : t[i] = b[i]
      /\ b # <<>> =>
            /\ t[n].file = b[n].file
            /\ t[n].from = b[n].from
            /\ t[n].uses = Tail(b[n].uses)
            /\ t[n].deps = b[n].deps \cup {f}
      /\ b = <<>> => q = Tail(r)
      /\ b # <<>> => q = r
  BY <1>1, UseDone
<1>3. \A i \in 1 .. n : b[i] \in Frame /\ b[i].from \in Nat
  <2>1. \A i \in 1 .. n : b[i] \in Frame
    BY ElementOfSeq
  <2>. QED BY <2>1 DEF Frame
<1> HIDE DEF t, q
<1>4. \A i \in 1 .. n : t[i].from = b[i].from
  <2>1. \A i \in 1 .. n : i \in 1 .. n - 1 \/ (i = n /\ b # <<>>)
    BY <1>2
  <2>. QED BY <2>1, <1>2
<1>5. \A i \in 1 .. n : FrameFirst(plan, t[i], Upto(t, top, i), top)
  <2> TAKE i \in 1 .. n
  <2>1. CASE i # n
    <3>1. t[i] = b[i] /\ i + 1 \in 1 .. n
      BY <2>1, <1>2
    <3>2. Upto(t, top, i) = Upto(b, hi, i)
      BY <2>1, <3>1, <1>2, <1>4 DEF Upto
    <3>. QED BY <3>1, <3>2
  <2>2. CASE i = n
    <3>1. Upto(t, top, i) = top /\ Upto(b, hi, i) = hi
      BY <2>2, <1>2 DEF Upto
    <3>2. /\ b # <<>> /\ b[n] \in Frame /\ Exists(b[n].file) /\ b[n].uses # <<>>
          /\ f = Resolve(b[n].file, Head(b[n].uses))
          /\ FrameFirst(plan, b[n], hi, top)
      BY <2>2, <1>2, <1>3, <3>1
    <3>3. /\ t[n].file = b[n].file
          /\ t[n].from = b[n].from
          /\ t[n].uses = Tail(b[n].uses)
          /\ t[n].deps = b[n].deps \cup {f}
      BY <3>2, <1>2
    <3>4. \/ plan[f].at <= hi /\ top = hi
          \/ plan[f].from = hi /\ top = plan[f].at /\ top <= top
      OBVIOUS
    <3> HIDE DEF n
    <3>5. FrameFirst(plan, t[n], top, top)
      BY <3>2, <3>3, <3>4, FrameFirstNext
    <3>. QED BY <2>2, <3>1, <3>5
  <2>. QED BY <2>1, <2>2
<1>6. RootsFirst(plan, e, q, Upto(t, top, 0), top)
  <2>1. CASE b # <<>>
    <3>1. Upto(t, top, 0) = Upto(b, hi, 0) /\ q = r
      BY <2>1, <1>2, <1>4 DEF Upto
    <3>. QED BY <3>1
  <2>2. CASE b = <<>>
    <3>1. Upto(t, top, 0) = top /\ Upto(b, hi, 0) = hi /\ q = Tail(r) /\ f = Head(r)
      BY <2>2, <1>2 DEF Upto
    <3>2. \/ plan[f].at <= hi /\ top = hi
          \/ plan[f].from = hi /\ top = plan[f].at /\ top <= top
      OBVIOUS
    <3>3. RootsFirst(plan, e, r, hi, top)
      BY <3>1
    <3>4. RootsFirst(plan, e, Tail(r), top, top)
      BY <3>1, <3>2, <3>3, RootsFirstNext
    <3>. QED BY <3>1, <3>4
  <2>. QED BY <2>1, <2>2
<1>. QED BY <1>2, <1>4, <1>5, <1>6 DEF t, q

\* The first load skips a file it has gone through.
LEMMA FirstSkip ==
    ASSUME IInv, Skip, call.steady, NEW plan, FirstLoad(plan)
    PROVE  FirstAt(plan, call'.entry, stack', roots', included', text', cache')
<1>1. /\ Pending /\ Walking /\ Target \in Files /\ Target \in included
      /\ stack' = StackAfter(stack, Target) /\ roots' = RootsAfter(stack, roots)
      /\ UNCHANGED <<disk, cache, call, included, text>>
  BY SkipFacts DEF IInv, Pending
<1>2. /\ PlanType(plan) /\ Recorded(plan) /\ DOMAIN plan = included /\ TextAs(plan, text) /\ KeptAs(plan, cache)
      /\ \A i \in 1 .. Len(stack) : FrameFirst(plan, stack[i], Upto(stack, Len(text), i), Len(text))
      /\ \A i, j \in 1 .. Len(stack) : i <= j => stack[i].from <= stack[j].from
      /\ RootsFirst(plan, call.entry, roots, Upto(stack, Len(text), 0), Len(text))
  BY DEF FirstLoad, FirstAt
<1>3. /\ stack \in Seq(Frame) /\ roots \in Seq(Files) /\ roots # <<>>
      /\ stack # <<>> => stack[Len(stack)].uses # <<>>
      /\ Len(text) \in Nat /\ DiskType /\ call.entry \in Files
  BY <1>1, TargetIn, FrameFacts DEF IInv, TypeOK, WalkType, CallInv, Top
<1>4. \A i \in 1 .. Len(stack) : Exists(stack[i].file)
  BY <1>1 DEF IInv, SteadyInv, AsRead
<1>5. Target = IF stack = <<>> THEN Head(roots)
               ELSE Resolve(stack[Len(stack)].file, Head(stack[Len(stack)].uses))
  BY DEF Target, Top
<1>6. plan[Target].at <= Len(text) /\ Target \in DOMAIN plan
  <2>1. Target \in DOMAIN plan /\ plan[Target].at \in 1 .. Len(text)
    BY <1>1, <1>2 DEF TextAs
  <2>. QED BY <2>1, <1>3
<1> DEFINE f == Target
           k == Len(text)
           e == call.entry
<1>8. /\ f \in DOMAIN plan /\ k \in Nat /\ e \in Files
      /\ \/ plan[f].at <= k /\ k = k
         \/ plan[f].from = k /\ k = plan[f].at
  BY <1>3, <1>6
<1>9. /\ \A i \in 1 .. Len(stack) : FrameFirst(plan, stack[i], Upto(stack, k, i), k)
      /\ RootsFirst(plan, e, roots, Upto(stack, k, 0), k)
      /\ f = IF stack = <<>> THEN Head(roots) ELSE Resolve(stack[Len(stack)].file, Head(stack[Len(stack)].uses))
      /\ stack' = StackAfter(stack, f) /\ roots' = RootsAfter(stack, roots)
  BY <1>1, <1>2, <1>5
<1> HIDE DEF f, k, e
<1>10. /\ \A i \in 1 .. Len(stack') : FrameFirst(plan, stack'[i], Upto(stack', k, i), k)
       /\ RootsFirst(plan, e, roots', Upto(stack', k, 0), k)
       /\ Len(stack') = Len(stack)
       /\ \A i \in 1 .. Len(stack) : stack'[i].from = stack[i].from
  BY <1>2, <1>3, <1>4, <1>8, <1>9, FirstAdvance, SMTT(30)
<1>7. /\ \A i \in 1 .. Len(stack') : FrameFirst(plan, stack'[i], Upto(stack', Len(text), i), Len(text))
      /\ RootsFirst(plan, call.entry, roots', Upto(stack', Len(text), 0), Len(text))
      /\ Len(stack') = Len(stack)
      /\ \A i \in 1 .. Len(stack) : stack'[i].from = stack[i].from
  BY <1>10 DEF k, e
<1>. QED BY <1>1, <1>2, <1>7 DEF FirstAt

\* A sequence whose members are in a smaller set.
LEMMA SeqNarrow ==
    ASSUME NEW A, NEW B, NEW U \in Seq(A), \A i \in 1 .. Len(U) : U[i] \in B
    PROVE  U \in Seq(B)
<1>1. Len(U) \in Nat /\ U = [i \in 1 .. Len(U) |-> U[i]]
  BY LenProperties
<1>. QED BY <1>1, IsASeq

(* The entry of a file in the plan when it has been gone through.           *)
Noted(plan) ==
    Put(plan, Top.file,
        [from |-> Top.from, at |-> Len(text) + 1, time |-> Top.time, uses |-> Resolved(Top.file)])

\* The plan with the file that is being closed.
LEMMA NotedFacts ==
    ASSUME IInv, Close, call.steady, NEW plan, FirstLoad(plan), NEW next, next = Noted(plan)
    PROVE  LET f == Top.file
               top == Len(text)
           IN /\ Longer(plan, next, f, top)
              /\ PlanType(next) /\ Recorded(next)
              /\ next[f].from = Top.from /\ next[f].time = Top.time
              /\ next[f].uses = Resolved(f)
              /\ Top.deps = Range(Resolved(f))
              /\ Exists(f) /\ Top.time = disk[f].time
              /\ Top.from <= top
<1> DEFINE f == Top.file
           top == Len(text)
           n == Len(stack)
           U == Resolved(f)
           rec == [from |-> Top.from, at |-> top + 1, time |-> Top.time, uses |-> U]
<1>1. /\ n \in Nat \ {0} /\ n \in 1 .. n /\ Top = stack[n] /\ Top \in Frame /\ Top.uses = <<>> /\ Walking
      /\ f \in Files /\ Top.from \in Nat /\ Top.time \in Nat
  BY CloseFacts DEF IInv, Frame
<1>2. /\ PlanType(plan) /\ Recorded(plan) /\ DOMAIN plan = included /\ TextAs(plan, text)
      /\ FrameFirst(plan, stack[n], Upto(stack, top, n), top)
  BY <1>1 DEF FirstLoad, FirstAt
<1>3. top \in Nat /\ Top.from <= top /\ DiskType
  BY <1>1, FrameFacts DEF IInv, TypeOK
<1>4. Exists(f) /\ Top.time = disk[f].time /\ f \notin DOMAIN plan
  BY <1>1, <1>2 DEF IInv, SteadyInv, AsRead, StackInv
<1>5. U \in Seq(Places) /\ Len(U) \in Nat /\ First(U, Len(U)) = Range(U)
  BY <1>3, <1>4, ResolvedFacts, FirstFacts
<1>6. /\ Top.deps = Range(U)
      /\ Walked(plan, U, Len(U), Top.from, top, top)
      /\ \A t \in DOMAIN plan : Top.from < plan[t].at => Top.from <= plan[t].from
  <2>1. Upto(stack, top, n) = top
    BY DEF Upto
  <2>2. Len(U) - Len(Top.uses) = Len(U)
    BY <1>1, <1>5
  <2>. QED BY <1>1, <1>2, <1>5, <2>1, <2>2 DEF FrameFirst
<1>7. U \in Seq(Files)
  <2>1. \A j \in 1 .. Len(U) : U[j] \in Files
    BY <1>2, <1>6 DEF Walked, Followed, PlanType
  <2>. QED BY <2>1, <1>5, SeqNarrow
<1>8. next = Put(plan, f, rec)
  BY DEF Noted
<1>9. rec \in PlanEntry /\ rec.from = Top.from /\ rec.at = top + 1 /\ rec.time = Top.time /\ rec.uses = U
  BY <1>1, <1>3, <1>7 DEF PlanEntry
<1> HIDE DEF rec, U, f, top
<1>10. /\ DOMAIN next = DOMAIN plan \cup {f} /\ next[f] = rec
       /\ \A g \in DOMAIN plan : next[g] = plan[g]
  BY <1>4, <1>8 DEF Put
<1>11. PlanType(next)
  BY <1>1, <1>2, <1>9, <1>10 DEF PlanType
<1>12. Longer(plan, next, f, top)
  <2>1. \A g \in DOMAIN plan : plan[g].at \in 1 .. top
    BY <1>2 DEF TextAs, top
  <2>2. \A g \in DOMAIN plan : plan[g].at <= top
    BY <2>1, <1>3
  <2>. QED BY <2>2, <1>4, <1>9, <1>10 DEF Longer
<1>13. Recorded(next)
  BY <1>2, <1>3, <1>6, <1>9, <1>10, <1>11, <1>12, LongerRecorded
<1>. QED BY <1>3, <1>4, <1>6, <1>9, <1>10, <1>11, <1>12, <1>13 DEF f, U, top

\* The text is the plan, in order.
LEMMA NotedText ==
    ASSUME IInv, Close, call.steady, NEW plan, FirstLoad(plan), NEW next, next = Noted(plan)
    PROVE  TextAs(next, text')
<1> DEFINE f == Top.file
           top == Len(text)
<1>1. /\ top \in Nat /\ Len(text') = top + 1
      /\ \A i \in 1 .. top : text'[i] = text[i]
      /\ text'[top + 1] = <<f, Top.time>>
  BY CloseFacts DEF IInv
<1>2. /\ Longer(plan, next, f, top) /\ next[f].time = Top.time
  BY NotedFacts
<1>3. TextAs(plan, text)
  BY DEF FirstLoad, FirstAt
<1> HIDE DEF f
<1>4. /\ \A g \in DOMAIN plan : next[g] = plan[g] /\ plan[g].at \in 1 .. top
      /\ DOMAIN next = DOMAIN plan \cup {f} /\ next[f].at = top + 1
  BY <1>2, <1>3 DEF Longer, TextAs
<1>5. \A i \in 1 .. top + 1 : i \in 1 .. top \/ i = top + 1
  BY <1>1
<1>6. \A i \in 1 .. top : i \in 1 .. top + 1
  BY <1>1
<1>7. \A i \in 1 .. top + 1 : text'[i][1] \in DOMAIN next /\ next[text'[i][1]].at = i
  BY <1>1, <1>3, <1>4, <1>5 DEF TextAs
<1>8. \A g \in DOMAIN next : next[g].at \in 1 .. top + 1 /\ text'[next[g].at] = <<g, next[g].time>>
  <2>1. ASSUME NEW g \in DOMAIN plan
        PROVE  next[g].at \in 1 .. top + 1 /\ text'[next[g].at] = <<g, next[g].time>>
    BY <1>1, <1>3, <1>4, <1>6 DEF TextAs
  <2>2. top + 1 \in 1 .. top + 1
    BY <1>1
  <2>. QED BY <2>1, <2>2, <1>1, <1>2, <1>4
<1>. QED BY <1>1, <1>7, <1>8 DEF TextAs

\* The pieces from one place of the text on.
LEMMA PiecesOf ==
    ASSUME NEW plan, PlanType(plan), NEW tx \in Seq(Piece), TextAs(plan, tx), NEW lo \in Nat,
           lo <= Len(tx)
    PROVE  {tx[lo + i] : i \in 1 .. Len(tx) - lo} = Pieces(plan, Between(plan, lo, Len(tx)))
<1>1. Len(tx) \in Nat
  BY LenProperties
<1>2. ASSUME NEW i \in 1 .. Len(tx) - lo
      PROVE  tx[lo + i] \in Pieces(plan, Between(plan, lo, Len(tx)))
  <2>1. lo + i \in 1 .. Len(tx) /\ lo < lo + i /\ lo + i <= Len(tx)
    BY <1>1
  <2>2. PICK g \in DOMAIN plan : plan[g].at = lo + i /\ tx[plan[g].at] = <<g, plan[g].time>>
    BY <2>1 DEF TextAs
  <2>3. g \in Between(plan, lo, Len(tx))
    BY <2>1, <2>2 DEF Between
  <2>. QED BY <2>2, <2>3 DEF Pieces
<1>3. ASSUME NEW g \in Between(plan, lo, Len(tx))
      PROVE  <<g, plan[g].time>> \in {tx[lo + i] : i \in 1 .. Len(tx) - lo}
  <2>1. g \in DOMAIN plan /\ lo < plan[g].at /\ plan[g].at \in 1 .. Len(tx) /\ tx[plan[g].at] = <<g, plan[g].time>>
    BY DEF Between, TextAs
  <2>2. plan[g].at - lo \in 1 .. Len(tx) - lo /\ lo + (plan[g].at - lo) = plan[g].at
    BY <2>1, <1>1
  <2>. QED BY <2>1, <2>2
<1>. QED BY <1>2, <1>3 DEF Pieces

\* A longer plan says the same of the text before.
LEMMA LongerBetween ==
    ASSUME NEW plan, NEW next, NEW f, NEW top \in Nat, Longer(plan, next, f, top),
           PlanType(next), PlanType(plan), NEW lo \in Nat, NEW hi \in Nat, hi <= top
    PROVE  /\ Between(next, lo, hi) = Between(plan, lo, hi)
           /\ Pieces(next, Between(next, lo, hi)) = Pieces(plan, Between(plan, lo, hi))
<1>1. Between(next, lo, hi) = Between(plan, lo, hi)
  BY PlanFacts DEF Between, Longer
<1>2. \A g \in Between(plan, lo, hi) : next[g] = plan[g]
  BY DEF Between, Longer
<1>. QED BY <1>1, <1>2 DEF Pieces

\* The cache has the entry of every file closed: its piece and those of what
\* it brought.
LEMMA NotedKept ==
    ASSUME IInv, Close, call.steady, call.op = "load", NEW plan, FirstLoad(plan), NEW next, next = Noted(plan)
    PROVE  KeptAs(next, cache')
<1> DEFINE f == Top.file
           top == Len(text)
           c == SubSeq(text', Top.from + 1, Len(text'))
<1>1. /\ Longer(plan, next, f, top) /\ PlanType(next) /\ TextAs(next, text')
      /\ next[f].from = Top.from /\ next[f].time = Top.time
      /\ next[f].uses = Resolved(f)
      /\ Top.deps = Range(Resolved(f))
      /\ Exists(f) /\ Top.time = disk[f].time
      /\ Top.from <= top
  BY NotedFacts, NotedText
<1>2. /\ top \in Nat /\ Len(text') = top + 1 /\ text' \in Seq(Piece) /\ Top \in Frame
  BY CloseFacts DEF IInv
<1>3. /\ c \in Seq(Piece) /\ Len(c) = top + 1 - Top.from
      /\ \A i \in 1 .. Len(c) : c[i] = text'[Top.from + i]
  BY CloseContent DEF IInv
<1>4. PlanType(plan) /\ KeptAs(plan, cache)
  BY DEF FirstLoad, FirstAt
<1>5. /\ DOMAIN cache' = DOMAIN cache \cup {f}
      /\ \A g \in DOMAIN cache : g # f => cache'[g] = cache[g]
      /\ cache'[f].content = c
      /\ cache'[f].dependencies = Top.deps
      /\ cache'[f].time = disk[f].time
  <2>1. cache' = Cached(cache, f, c, Top.deps)
    BY DEF Close
  <2>2. f \in Files /\ Top.deps \in SUBSET Files /\ DiskType /\ CacheType
    BY <1>2 DEF Frame, IInv, TypeOK
  <2> HIDE DEF c, f
  <2>. QED BY <2>1, <2>2, <1>1, <1>3, CachedType
<1> HIDE DEF c, f, top
<1>6. /\ DOMAIN next = DOMAIN plan \cup {f} /\ f \notin DOMAIN plan /\ next[f].at = top + 1
      /\ \A g \in DOMAIN plan : next[g] = plan[g] /\ plan[g].at <= top
                                /\ plan[g].at \in Nat /\ plan[g].from \in Nat
  BY <1>1, <1>4, PlanFacts DEF Longer
<1>7. Range(c) = Pieces(next, Between(next, Top.from, top + 1))
  <2>1. Top.from \in Nat /\ Top.from <= Len(text')
    BY <1>1, <1>2 DEF Frame
  <2>2. {text'[Top.from + i] : i \in 1 .. Len(text') - Top.from} = Pieces(next, Between(next, Top.from, Len(text')))
    BY <1>1, <1>2, <2>1, PiecesOf
  <2>3. DOMAIN c = 1 .. Len(c) /\ Len(text') - Top.from = Len(c)
    <3>1. DOMAIN c = 1 .. Len(c)
      BY <1>3, LenProperties
    <3>. QED BY <2>1, <3>1, <1>2, <1>3
  <2>4. Range(c) = {c[i] : i \in 1 .. Len(c)}
    BY <2>3 DEF Range
  <2>5. {c[i] : i \in 1 .. Len(c)} = {text'[Top.from + i] : i \in 1 .. Len(c)}
    BY <1>3
  <2>6. Range(c) = {text'[Top.from + i] : i \in 1 .. Len(text') - Top.from}
    BY <2>3, <2>4, <2>5
  <2>7. Range(c) = Pieces(next, Between(next, Top.from, Len(text')))
    BY <2>2, <2>6
  <2>. QED BY <2>7, <1>2
<1>8. ASSUME NEW g \in DOMAIN plan
      PROVE  /\ Exists(g) /\ disk[g].time = next[g].time /\ next[g].uses = Resolved(g)
             /\ g \in DOMAIN cache' /\ cache'[g].time = next[g].time
             /\ cache'[g].dependencies = Range(next[g].uses)
             /\ Range(cache'[g].content) = Pieces(next, Between(next, next[g].from, next[g].at))
  <2>1. next[g] = plan[g] /\ g # f /\ g \in DOMAIN cache /\ cache'[g] = cache[g]
    BY <1>4, <1>5, <1>6 DEF KeptAs
  <2>2. Pieces(next, Between(next, plan[g].from, plan[g].at)) = Pieces(plan, Between(plan, plan[g].from, plan[g].at))
    BY <1>1, <1>2, <1>4, <1>6, LongerBetween
  <2>. QED BY <2>1, <2>2, <1>4, <1>5 DEF KeptAs
<1>9. /\ Exists(f) /\ disk[f].time = next[f].time /\ next[f].uses = Resolved(f)
      /\ f \in DOMAIN cache' /\ cache'[f].time = next[f].time
      /\ cache'[f].dependencies = Range(next[f].uses)
      /\ Range(cache'[f].content) = Pieces(next, Between(next, next[f].from, next[f].at))
  BY <1>1, <1>5, <1>6, <1>7
<1>. QED BY <1>6, <1>8, <1>9 DEF KeptAs

\* The first load closes a file.
LEMMA FirstClose ==
    ASSUME IInv, Close, call.steady, call.op = "load", NEW plan, FirstLoad(plan), NEW next, next = Noted(plan)
    PROVE  FirstAt(next, call'.entry, stack', roots', included', text', cache')
<1> DEFINE f == Top.file
           top == Len(text)
           n == Len(stack)
           b == Rest(stack)
           e == call.entry
<1>1. /\ Longer(plan, next, f, top) /\ PlanType(next) /\ Recorded(next)
      /\ TextAs(next, text') /\ KeptAs(next, cache')
      /\ next[f].from = Top.from
  BY NotedFacts, NotedText, NotedKept
<1>2. /\ n \in Nat \ {0} /\ Top = stack[n] /\ Top \in Frame /\ f \in Files
      /\ Walking /\ roots # <<>> /\ roots \in Seq(Files)
      /\ top \in Nat /\ Len(text') = top + 1
      /\ included' = included \cup {f}
  BY CloseFacts DEF IInv, Frame, TypeOK, WalkType
<1>3. /\ PlanType(plan) /\ DOMAIN plan = included
      /\ \A i \in 1 .. n : FrameFirst(plan, stack[i], Upto(stack, top, i), top)
      /\ \A i, j \in 1 .. n : i <= j => stack[i].from <= stack[j].from
      /\ RootsFirst(plan, e, roots, Upto(stack, top, 0), top)
  BY DEF FirstLoad, FirstAt
<1>4. b \in Seq(Frame) /\ Len(b) = n - 1 /\ \A i \in 1 .. n - 1 : b[i] = stack[i]
  <2>1. stack \in Seq(Frame) /\ stack # <<>>
    BY DEF IInv, TypeOK, WalkType, Close
  <2>. QED BY <2>1, RestFacts
<1>5. /\ b = <<>> <=> n = 1
      /\ b # <<>> => n - 1 \in 1 .. n - 1
      /\ stack # <<>>
  BY <1>2, <1>4, EmptySeq DEF Close
<1>6. /\ e = call'.entry /\ e \in Files /\ DiskType /\ stack' = StackAfter(b, f) /\ roots' = RootsAfter(b, roots)
      /\ \A i \in 1 .. n : stack[i].uses \in Seq(STRING) /\ stack[i].from \in Nat
                          /\ stack[i].from <= top /\ stack[i] \in Frame
      /\ \A i \in 1 .. n - 1 : stack[i].uses # <<>>
  BY <1>2, FrameFacts DEF Close, IInv, TypeOK, CallInv
<1>7. \A i \in 1 .. n : Exists(stack[i].file)
  BY <1>2 DEF IInv, SteadyInv, AsRead
<1>8. f = IF b = <<>> THEN Head(roots) ELSE Resolve(b[Len(b)].file, Head(b[Len(b)].uses))
  <2>1. Chain(stack, roots)
    BY <1>2 DEF IInv, SteadyInv
  <2>2. CASE b = <<>>
    BY <2>1, <2>2, <1>2, <1>5 DEF Chain
  <2>3. CASE b # <<>>
    <3>1. stack[(n - 1) + 1].file = Resolve(stack[n - 1].file, Head(stack[n - 1].uses))
      BY <2>1, <2>3, <1>5 DEF Chain
    <3>2. (n - 1) + 1 = n
      BY <1>2
    <3>. QED BY <2>3, <3>1, <3>2, <1>2, <1>4, <1>5
  <2>. QED BY <2>2, <2>3
<1> HIDE DEF f, top, b, e
<1>9. \A i \in 0 .. n - 1 : Upto(b, Top.from, i) = Upto(stack, top, i)
                          /\ Upto(stack, top, i) \in Nat /\ Upto(stack, top, i) <= top
  <2> TAKE i \in 0 .. n - 1
  <2>1. Upto(stack, top, i) = stack[i + 1].from /\ i + 1 \in 1 .. n
    BY <1>2 DEF Upto
  <2>2. Upto(b, Top.from, i) = stack[i + 1].from
    <3>1. CASE i = n - 1
      <4>1. i + 1 = n /\ i = Len(b)
        BY <3>1, <1>2, <1>4
      <4>. QED BY <4>1, <1>2 DEF Upto
    <3>2. CASE i # n - 1
      <4>1. i + 1 \in 1 .. n - 1 /\ i # Len(b)
        BY <3>2, <1>2, <1>4
      <4>. QED BY <4>1, <1>4 DEF Upto
    <3>. QED BY <3>1, <3>2
  <2>. QED BY <2>1, <2>2, <1>6
<1>10. \A i \in 1 .. n - 1 : FrameFirst(next, b[i], Upto(b, Top.from, i), top + 1)
  <2> TAKE i \in 1 .. n - 1
  <2>1. i \in 1 .. n /\ n \in 1 .. n /\ i <= n /\ i \in 0 .. n - 1
    BY <1>2
  <2>2. stack[i].from <= next[f].from
    BY <2>1, <1>1, <1>2, <1>3
  <2>3. FrameFirst(next, stack[i], Upto(stack, top, i), top + 1)
    BY <2>1, <2>2, <1>1, <1>2, <1>3, <1>6, <1>7, <1>9, FrameLonger
  <2>. QED BY <2>1, <2>3, <1>4, <1>9
<1>11. RootsFirst(next, e, roots, Upto(b, Top.from, 0), top + 1)
  <2>1. 0 \in 0 .. n - 1
    BY <1>2
  <2>2. RootsFirst(next, e, roots, Upto(stack, top, 0), top + 1)
    BY <2>1, <1>1, <1>2, <1>3, <1>6, <1>9, RootsLonger
  <2>. QED BY <2>1, <2>2, <1>9
<1>12. /\ f \in DOMAIN next /\ next[f].at = top + 1 /\ top + 1 \in Nat /\ Top.from \in Nat
       /\ DOMAIN next = DOMAIN plan \cup {f}
  BY <1>1, <1>2 DEF Longer, Frame
<1>13. /\ b # <<>> => b[Len(b)].uses # <<>>
       /\ \A i \in 1 .. Len(b) : Exists(b[i].file)
       /\ \A i \in 1 .. Len(b) : FrameFirst(next, b[i], Upto(b, Top.from, i), top + 1)
       /\ \A i \in 1 .. n - 1 : i \in 1 .. n
  <2>1. \A i \in 1 .. n - 1 : i \in 1 .. n
    BY <1>2
  <2>. QED BY <2>1, <1>4, <1>5, <1>6, <1>7, <1>10
<1>14. /\ \A i \in 1 .. Len(stack') : FrameFirst(next, stack'[i], Upto(stack', top + 1, i), top + 1)
       /\ RootsFirst(next, e, roots', Upto(stack', top + 1, 0), top + 1)
       /\ Len(stack') = n - 1
       /\ \A i \in 1 .. n - 1 : stack'[i].from = b[i].from
  <2> DEFINE lo == Top.from
             up == top + 1
  <2>1. /\ lo \in Nat /\ up \in Nat
        /\ \/ next[f].at <= lo /\ up = lo
           \/ next[f].from = lo /\ up = next[f].at
        /\ \A i \in 1 .. Len(b) : FrameFirst(next, b[i], Upto(b, lo, i), up)
        /\ RootsFirst(next, e, roots, Upto(b, lo, 0), up)
    BY <1>1, <1>11, <1>12, <1>13
  <2> HIDE DEF lo, up
  <2>2. LET t == StackAfter(b, f)
            q == RootsAfter(b, roots)
        IN /\ \A i \in 1 .. Len(t) : FrameFirst(next, t[i], Upto(t, up, i), up)
           /\ RootsFirst(next, e, q, Upto(t, up, 0), up)
           /\ Len(t) = Len(b)
           /\ \A i \in 1 .. Len(b) : t[i].from = b[i].from
    <3>1. /\ DiskType /\ PlanType(next) /\ Recorded(next) /\ e \in Files
          /\ b \in Seq(Frame) /\ roots \in Seq(Files) /\ f \in DOMAIN next
          /\ roots # <<>>
          /\ b # <<>> => b[Len(b)].uses # <<>>
          /\ \A i \in 1 .. Len(b) : Exists(b[i].file)
      BY <1>1, <1>2, <1>4, <1>6, <1>12, <1>13
    <3>. QED BY <1>8, <2>1, <3>1, FirstAdvance
  <2>. QED BY <2>2, <1>4, <1>6 DEF up
<1>15. \A i, j \in 1 .. n - 1 : i <= j => stack'[i].from <= stack'[j].from
  BY <1>3, <1>4, <1>13, <1>14
<1>. QED BY <1>1, <1>2, <1>3, <1>6, <1>12, <1>14, <1>15 DEF FirstAt

-----------------------------------------------------------------------------
(* What is known of the cache between the calls. *)

(* A file still uses what it used, or nothing in its place.                 *)
UsesAs(plan) ==
    \A g \in DOMAIN plan : Exists(g) =>
        /\ Len(disk[g].uses) = Len(plan[g].uses)
        /\ \A i \in 1 .. Len(disk[g].uses) :
              Resolved(g)[i] = IF Exists(plan[g].uses[i]) THEN plan[g].uses[i] ELSE Unresolved

(* The prelude and all it uses are as they were.                            *)
PreludeAs(plan, c) ==
    \A g \in DOMAIN plan : plan[g].at <= plan[Prelude].at =>
        g \in DOMAIN c /\ Exists(g) /\ disk[g].time = plan[g].time

(* What a plan says of the disk and the cache as long as the history is     *)
(* kept.                                                                    *)
Static(plan, size, e, c) ==
    /\ PlanType(plan) /\ Recorded(plan) /\ size \in Nat
    /\ Walked(plan, RootsOf(e), Len(RootsOf(e)), 0, size, size)
    /\ \A g \in DOMAIN plan : plan[g].at <= size
    /\ UsesAs(plan)
    /\ DOMAIN c \subseteq DOMAIN plan
    /\ Prelude \in Range(RootsOf(e)) => PreludeAs(plan, c)

(* The files whose pieces are in the entry of g as the first load left it.  *)
Span(plan, e, g) == IF g = e THEN DOMAIN plan ELSE Between(plan, plan[g].from, plan[g].at)

(* The entry of g is that of the first load.                                *)
Orig(plan, e, c, g) ==
    /\ c[g].time = plan[g].time
    /\ Range(c[g].content) = Pieces(plan, Span(plan, e, g))

(* What is known of the cache until the program is loaded again.            *)
Known(plan, size, e, c) ==
    /\ Static(plan, size, e, c)
    /\ \A g \in DOMAIN c :
          /\ Orig(plan, e, c, g)
          /\ c[g].dependencies = IF g = e THEN DOMAIN plan ELSE Range(plan[g].uses)

\* The first load begins with an empty plan.
LEMMA FirstBegin ==
    ASSUME IInv, NEW e \in Files
    PROVE  FirstAt(<<>>, e, <<>>, RootsOf(e), {}, <<>>, cache)
<1> DEFINE plan == <<>>
           U == RootsOf(e)
<1>1. DOMAIN plan = {}
  OBVIOUS
<1>2. PlanType(plan) /\ Recorded(plan) /\ TextAs(plan, <<>>) /\ KeptAs(plan, cache)
  BY <1>1 DEF PlanType, Recorded, TextAs, KeptAs
<1>3. U \in Seq(Files) /\ Len(U) \in Nat
  BY RootsType, LenProperties
<1> HIDE DEF plan, U
<1>4. Suffix(U, U) /\ Len(U) - Len(U) = 0
  BY <1>3, SuffixWhole
<1>5. Walked(plan, U, 0, 0, 0, 0)
  BY <1>2, WalkedNothing
<1>6. RootsFirst(plan, e, U, Upto(<<>>, Len(<<>>), 0), Len(<<>>))
  <2>1. Upto(<<>>, Len(<<>>), 0) = 0 /\ Len(<<>>) = 0
    BY DEF Upto
  <2>2. RootsFirst(plan, e, U, 0, 0)
    BY <1>4, <1>5 DEF RootsFirst, U
  <2>. QED BY <2>1, <2>2
<1>7. FirstAt(plan, e, <<>>, U, {}, <<>>, cache)
  BY <1>1, <1>2, <1>6 DEF FirstAt
<1>. QED BY <1>7 DEF plan, U

\* The two forms of the roots.
LEMMA RootsSeq ==
    ASSUME NEW e \in Files
    PROVE  LET U == RootsOf(e) IN
           /\ U \in Seq(Files) /\ Len(U) \in Nat /\ First(U, Len(U)) = Range(U) /\ First(U, 0) = {}
           /\ e \in Range(U)
           /\ \/ U = <<e>>
              \/ U = <<Prelude, e>> /\ e # Prelude
<1> DEFINE U == RootsOf(e)
<1>1. U \in Seq(Files)
  BY RootsType
<1>2. U = <<e>> \/ (U = <<Prelude, e>> /\ e # Prelude)
  BY DEF RootsOf, IsStd, Prelude
<1>3. e \in Range(U)
  <2>1. CASE U = <<e>>
    BY <2>1 DEF Range
  <2>2. CASE U = <<Prelude, e>>
    <3>1. 2 \in DOMAIN U /\ U[2] = e
      BY <2>2
    <3>. QED BY <3>1 DEF Range
  <2>. QED BY <1>2, <2>1, <2>2
<1> HIDE DEF U
<1>4. Len(U) \in Nat /\ First(U, Len(U)) = Range(U) /\ First(U, 0) = {}
  BY <1>1, FirstFacts, LenProperties
<1>. QED BY <1>1, <1>2, <1>3, <1>4 DEF U

\* The first load ends: the cache is as its plan says, with the entry cached
\* once more for all.
LEMMA FirstReturn ==
    ASSUME IInv, Return, call.op = "load", call.fresh, call.steady, NEW plan, FirstLoad(plan)
    PROVE  Known(plan, Len(text), call.entry, cache')
<1> DEFINE e == call.entry
           U == RootsOf(e)
           size == Len(text)
<1>1. /\ e \in Files /\ size \in Nat /\ DiskType /\ CacheType /\ text \in Seq(Piece) /\ included \in SUBSET Files
      /\ Walking
  BY FrameFacts DEF IInv, TypeOK, CallInv, WalkType, Return
<1>2. /\ PlanType(plan) /\ Recorded(plan) /\ DOMAIN plan = included /\ TextAs(plan, text) /\ KeptAs(plan, cache)
      /\ RootsFirst(plan, e, <<>>, Upto(<<>>, size, 0), size)
  BY DEF FirstLoad, FirstAt, Return
<1>3. cache' = Cached(cache, e, text, included)
  BY DEF Return
<1> HIDE DEF e, size
<1>4. U \in Seq(Files) /\ Len(U) \in Nat /\ First(U, Len(U)) = Range(U) /\ e \in Range(U)
  BY <1>1, RootsSeq
<1>5. Walked(plan, U, Len(U), 0, size, size)
  <2>1. Upto(<<>>, size, 0) = size
    BY DEF Upto
  <2>2. Len(U) - Len(<<>>) = Len(U)
    BY <1>4
  <2>. QED BY <1>2, <2>1, <2>2 DEF RootsFirst
<1>6. e \in DOMAIN plan
  <2>1. Range(U) \subseteq DOMAIN plan
    BY <1>4, <1>5 DEF Walked, Followed, First
  <2>. QED BY <2>1, <1>4
<1>7. /\ DOMAIN cache' = DOMAIN cache \cup {e}
      /\ \A g \in DOMAIN cache : g # e => cache'[g] = cache[g]
      /\ cache'[e].content = text
      /\ cache'[e].dependencies = included
      /\ cache'[e].time = disk[e].time
  <2>1. Exists(e)
    BY <1>2, <1>6 DEF KeptAs
  <2>. QED BY <2>1, <1>1, <1>3, CachedType
<1>8. DOMAIN cache \subseteq DOMAIN plan
  BY <1>1, <1>2 DEF IInv, PureInv, Pure
<1>9. \A g \in DOMAIN plan : plan[g].at <= size
  <2>1. \A g \in DOMAIN plan : plan[g].at \in 1 .. size
    BY <1>2 DEF TextAs, size
  <2>. QED BY <2>1, <1>1
<1>10. UsesAs(plan)
  <2> SUFFICES ASSUME NEW g \in DOMAIN plan, Exists(g)
               PROVE  /\ Len(disk[g].uses) = Len(plan[g].uses)
                      /\ \A i \in 1 .. Len(disk[g].uses) :
                            Resolved(g)[i] = IF Exists(plan[g].uses[i]) THEN plan[g].uses[i] ELSE Unresolved
    BY DEF UsesAs
  <2>1. plan[g].uses = Resolved(g) /\ Len(Resolved(g)) = Len(disk[g].uses)
    BY <1>1, <1>2, ResolvedFacts DEF KeptAs
  <2>2. Followed(plan, Resolved(g), Len(Resolved(g)), plan[g].from)
    BY <1>2, <2>1 DEF Recorded
  <2>3. \A i \in 1 .. Len(Resolved(g)) : Resolved(g)[i] \in DOMAIN plan
    BY <2>2 DEF Followed
  <2>4. \A i \in 1 .. Len(Resolved(g)) : Exists(Resolved(g)[i])
    BY <1>2, <2>3 DEF KeptAs
  <2>. QED BY <2>1, <2>4
<1>11. PreludeAs(plan, cache')
  BY <1>2, <1>7 DEF PreludeAs, KeptAs
<1>12. Range(text) = Pieces(plan, DOMAIN plan)
  <2>1. DOMAIN text = 1 .. size
    BY <1>1, LenProperties DEF size
  <2>2. ASSUME NEW i \in 1 .. size PROVE text[i] \in Pieces(plan, DOMAIN plan)
    <3>1. text[i][1] \in DOMAIN plan /\ plan[text[i][1]].at = i
      BY <1>2 DEF TextAs, size
    <3>2. text[i] = <<text[i][1], plan[text[i][1]].time>>
      BY <3>1, <1>2 DEF TextAs
    <3>. QED BY <3>1, <3>2 DEF Pieces
  <2>3. ASSUME NEW g \in DOMAIN plan PROVE \E i \in 1 .. size : text[i] = <<g, plan[g].time>>
    BY <1>2 DEF TextAs, size
  <2>4. \A p \in Range(text) : p \in Pieces(plan, DOMAIN plan)
    BY <2>1, <2>2 DEF Range
  <2>5. \A p \in Pieces(plan, DOMAIN plan) : p \in Range(text)
    BY <2>1, <2>3 DEF Range, Pieces
  <2>. QED BY <2>4, <2>5
<1>13. ASSUME NEW g \in DOMAIN cache'
       PROVE  /\ Orig(plan, e, cache', g)
              /\ cache'[g].dependencies = IF g = e THEN DOMAIN plan ELSE Range(plan[g].uses)
  <2>1. CASE g = e
    <3>1. disk[e].time = plan[e].time
      BY <1>2, <1>6 DEF KeptAs
    <3>. QED BY <2>1, <3>1, <1>2, <1>7, <1>12 DEF Orig, Span
  <2>2. CASE g # e
    <3>1. g \in DOMAIN plan /\ cache'[g] = cache[g]
      BY <2>2, <1>7, <1>8
    <3>. QED BY <2>2, <3>1, <1>2 DEF Orig, Span, KeptAs
  <2>. QED BY <2>1, <2>2
<1>14. DOMAIN cache' \subseteq DOMAIN plan
  BY <1>6, <1>7, <1>8
<1>15. Static(plan, size, e, cache')
  BY <1>1, <1>2, <1>5, <1>9, <1>10, <1>11, <1>14 DEF Static
<1>. QED BY <1>13, <1>15 DEF Known, e, size

(* The disk may change as long as files use what they used and the prelude  *)
(* stays, and the cache may lose files that are gone.                       *)
\* load_modules drops the entries of files that are gone, and the rest is as
\* the plan says.
LEMMA KnownKept ==
    ASSUME NEW e, NEW plan, NEW size, Known(plan, size, e, cache),
           disk' = disk,
           DOMAIN cache' \subseteq DOMAIN cache,
           \A g \in DOMAIN cache' : cache'[g] = cache[g],
           \A g \in DOMAIN cache : Exists(g) => g \in DOMAIN cache'
    PROVE  Known(plan, size, e, cache)'
<1>1. \A f : Resolved(f)' = Resolved(f)
  BY DEF Resolved, Resolve, Exists
<1>2. UsesAs(plan)' <=> UsesAs(plan)
  BY <1>1 DEF UsesAs, Exists
<1>3. RootsOf(e)' = RootsOf(e)
  BY DEF RootsOf, Exists
<1>4. PreludeAs(plan, cache) => PreludeAs(plan, cache)'
  BY DEF PreludeAs, Exists
<1>5. Static(plan, size, e, cache)'
  BY <1>2, <1>3, <1>4 DEF Known, Static
<1>. QED BY <1>5 DEF Known, Orig

\* The prelude is gone through first.
LEMMA PreludeFirst ==
    ASSUME NEW e \in Files, NEW plan, NEW size, NEW c, Static(plan, size, e, c),
           Prelude \in Range(RootsOf(e))
    PROVE  /\ RootsOf(e)[1] = Prelude /\ Prelude \in DOMAIN plan /\ plan[Prelude].from = 0
           /\ \A g \in DOMAIN plan : plan[g].at <= plan[Prelude].at => g \in Between(plan, 0, plan[Prelude].at)
<1> DEFINE U == RootsOf(e)
<1>1. PlanType(plan) /\ Recorded(plan) /\ Followed(plan, U, Len(U), 0)
  BY DEF Static, Walked
<1>2. U[1] = Prelude /\ Len(U) \in Nat \ {0}
  <2>1. CASE U = <<e>>
    <3>1. Range(U) = {e} /\ Len(U) = 1 /\ U[1] = e
      BY <2>1 DEF Range
    <3>. QED BY <3>1
  <2>2. CASE U = <<Prelude, e>>
    BY <2>2
  <2>. QED BY <2>1, <2>2, RootsSeq
<1> HIDE DEF U
<1>3. U[1] \in DOMAIN plan /\ \A p \in Nat : IsPos(plan, p, 0, First(U, 0))
               => plan[U[1]].at <= p \/ (plan[U[1]].from = p /\ p <= plan[U[1]].at)
  <2>1. 1 \in 1 .. Len(U) /\ 1 - 1 = 0
    BY <1>2
  <2>. QED BY <2>1, <1>1 DEF Followed
<1>4. IsPos(plan, 0, 0, First(U, 0))
  BY DEF IsPos, First
<1>5. \A g \in DOMAIN plan : plan[g].from < plan[g].at /\ plan[g].from \in Nat /\ plan[g].at \in Nat
  BY <1>1, PlanFacts DEF Recorded
<1>. QED BY <1>2, <1>3, <1>4, <1>5 DEF Between, U

\* What was gone through up to the prelude is needed by it.
LEMMA PreludeNeeds ==
    ASSUME IInv, NEW e \in Files, NEW plan, NEW size, NEW c, Static(plan, size, e, c),
           Prelude \in Range(RootsOf(e)), NEW g \in DOMAIN plan, plan[g].at <= plan[Prelude].at
    PROVE  g \in Needed({Prelude})
<1> DEFINE top == plan[Prelude].at
<1>1. /\ Prelude \in DOMAIN plan /\ plan[Prelude].from = 0
      /\ g \in Between(plan, 0, top)
  BY PreludeFirst
<1>2. /\ PlanType(plan) /\ Recorded(plan) /\ UsesAs(plan) /\ PreludeAs(plan, c) /\ top \in Nat /\ DiskType
  BY <1>1, PlanFacts DEF Static, IInv, TypeOK
<1>3. SUFFICES ASSUME NEW V \in SUBSET Places, Prelude \in V, Closed(Uses, V)
               PROVE  g \in V
  <2>1. g \in Places
    BY <1>2 DEF PlanType, Places
  <2>. QED BY <1>3, <2>1 DEF Needed, Closure
<1>4. ClosedTo(plan, top, V)
  <2> SUFFICES ASSUME NEW h \in V \cap DOMAIN plan, plan[h].at <= top, NEW u \in Range(plan[h].uses)
               PROVE  u \in V
    BY DEF ClosedTo
  <2>1. /\ Exists(h) /\ plan[h].uses \in Seq(Files) /\ plan[h].at \in Nat
        /\ IsPos(plan, plan[h].at - 1, plan[h].from, Range(plan[h].uses))
    BY <1>2, PlanFacts DEF PreludeAs, Recorded
  <2>2. PICK i \in 1 .. Len(plan[h].uses) : u = plan[h].uses[i]
    BY <2>1, LenProperties DEF Range
  <2>3. u \in DOMAIN plan /\ Exists(u)
    <3>1. u \in DOMAIN plan
      BY <1>2, <2>2 DEF Recorded, Followed
    <3>2. plan[u].at <= top
      BY <2>1, <3>1, <1>2, PlanFacts DEF IsPos
    <3>. QED BY <3>1, <3>2, <1>2 DEF PreludeAs
  <2>4. Resolved(h)[i] = u /\ i \in 1 .. Len(disk[h].uses)
    BY <1>2, <2>1, <2>2, <2>3 DEF UsesAs
  <2>5. u \in Uses[h]
    <3>1. Resolved(h) \in Seq(Places) /\ Len(Resolved(h)) = Len(disk[h].uses) /\ Range(Resolved(h)) = Uses[h]
      BY <1>2, <2>1, ResolvedFacts
    <3>2. i \in DOMAIN Resolved(h)
      BY <3>1, <2>4, LenProperties
    <3>. QED BY <3>1, <3>2, <2>4 DEF Range
  <2>6. Uses[h] \subseteq V
    BY <2>1, <1>3 DEF Closed, Uses, Exists
  <2>. QED BY <2>5, <2>6
<1>5. Between(plan, 0, top) \subseteq V
  <2>1. Under(plan, {Prelude}, 0, top, top)
    BY <1>1, <1>2 DEF Recorded
  <2>. QED BY <2>1, <1>3, <1>4 DEF Under
<1>. QED BY <1>1, <1>5

\* resolve_module gives a file there is, or none.
LEMMA ResolvedExists ==
    ASSUME NEW f, NEW n, ~Exists(Unresolved)
    PROVE  Resolve(f, n) = Unresolved \/ Exists(Resolve(f, n))
BY DEF Resolve

(* A file that was found is found as long as it exists and no file comes.   *)
\* A name still stands for the same file, or for none.
LEMMA StillResolved ==
    ASSUME NEW f, NEW n, NEW u, u # Unresolved, DOMAIN disk' \subseteq DOMAIN disk,
           Resolve(f, n) = IF Exists(u) THEN u ELSE Unresolved,
           Resolve(f, n)' \in {Resolve(f, n), Unresolved},
           ~Exists(Unresolved)
    PROVE  Resolve(f, n)' = IF Exists(u)' THEN u ELSE Unresolved
<1>1. Exists(u)' => Exists(u)
  BY DEF Exists
<1>2. Exists(u)' => Resolve(f, n)' # Unresolved
  <2> SUFFICES ASSUME Exists(u)' PROVE Resolve(f, n)' # Unresolved
    OBVIOUS
  <2>1. u \in {<<f[1], n>>, <<"project", n>>, <<"std", n>>}
    BY <1>1 DEF Resolve
  <2>2. Exists(<<f[1], n>>)' \/ Exists(<<"project", n>>)' \/ Exists(<<"std", n>>)'
    BY <2>1
  <2>3. ~Exists(Unresolved)'
    BY DEF Exists
  <2>. QED BY <2>2, <2>3 DEF Resolve
<1>3. ~Exists(u)' => Resolve(f, n)' = Unresolved
  <2>1. Resolve(f, n)' = Unresolved \/ Exists(Resolve(f, n))'
    <3>1. ~Exists(Unresolved)'
      BY DEF Exists
    <3>. QED BY <3>1 DEF Resolve
  <2>. QED BY <2>1 DEF Exists
<1>. QED BY <1>1, <1>2, <1>3

\* A file edited with the same uses, or removed, that the prelude does not
\* need leaves the cache as the plan says.
LEMMA KnownChange ==
    ASSUME IInv, NEW e \in Files, NEW f, NEW plan, NEW size, Known(plan, size, e, cache),
           SameUses, f \notin Needed({Prelude}), cache' = cache,
           \A g \in DOMAIN disk : g # f => g \in DOMAIN disk' /\ disk'[g] = disk[g]
    PROVE  Known(plan, size, e, cache)'
<1>1. /\ DiskType /\ ~Exists(Unresolved) /\ DOMAIN disk' \subseteq DOMAIN disk
      /\ \A g \in DOMAIN disk' :
           /\ disk'[g].uses = disk[g].uses
           /\ \A n \in Range(disk[g].uses) : Resolve(g, n)' \in {Resolve(g, n), Unresolved}
  BY UnresolvedMissing DEF SameUses, IInv, TypeOK
<1>2. Static(plan, size, e, cache)
  BY DEF Known
<1>3. PlanType(plan) /\ Recorded(plan) /\ UsesAs(plan)
  BY <1>2 DEF Static
<1>4. UsesAs(plan)'
  <2> SUFFICES ASSUME NEW g \in DOMAIN plan, Exists(g)'
               PROVE  /\ Len(disk'[g].uses) = Len(plan[g].uses)
                      /\ \A i \in 1 .. Len(disk'[g].uses) :
                            Resolved(g)'[i] = IF Exists(plan[g].uses[i])' THEN plan[g].uses[i] ELSE Unresolved
    BY DEF UsesAs
  <2>1. Exists(g) /\ g \in DOMAIN disk' /\ disk'[g].uses = disk[g].uses
    BY <1>1 DEF Exists
  <2>2. disk[g].uses \in Seq(STRING) /\ Len(disk[g].uses) = Len(plan[g].uses)
    BY <2>1, <1>1, <1>3, ResolvedFacts DEF UsesAs
  <2>3. ASSUME NEW i \in 1 .. Len(disk[g].uses)
        PROVE  Resolved(g)'[i] = IF Exists(plan[g].uses[i])' THEN plan[g].uses[i] ELSE Unresolved
    <3> DEFINE u == plan[g].uses[i]
    <3>n. PICK n : n = disk[g].uses[i]
      OBVIOUS
    <3>1. n \in Range(disk[g].uses) /\ i \in DOMAIN disk[g].uses
      BY <3>n, <2>2, LenProperties DEF Range
    <3>2. u \in Files /\ u # Unresolved
      <4>1. plan[g].uses \in Seq(Files)
        BY <1>3, PlanFacts
      <4>2. u \in Files
        BY <4>1, <2>2, ElementOfSeq
      <4>. QED BY <4>2, LoaderAssumption
    <3>3. Resolved(g)[i] = Resolve(g, n) /\ Resolved(g)'[i] = Resolve(g, n)'
      <4>1. i \in DOMAIN disk'[g].uses /\ disk'[g].uses[i] = n
        BY <3>n, <3>1, <2>1
      <4>. QED BY <3>n, <3>1, <4>1 DEF Resolved
    <3>4. Resolve(g, n) = IF Exists(u) THEN u ELSE Unresolved
      BY <3>3, <2>1, <1>3 DEF UsesAs
    <3>5. Resolve(g, n)' \in {Resolve(g, n), Unresolved}
      BY <3>1, <2>1, <1>1
    <3> HIDE DEF u
    <3>6. Resolve(g, n)' = IF Exists(u)' THEN u ELSE Unresolved
      BY <1>1, <3>2, <3>4, <3>5, StillResolved
    <3>. QED BY <3>3, <3>6 DEF u
  <2>. QED BY <2>1, <2>2, <2>3
<1>5. RootsOf(e)' = RootsOf(e)
  <2>1. Prelude \in Needed({Prelude})
    <3>1. Prelude \in Places
      BY LoaderAssumption DEF Places
    <3>. QED BY <3>1 DEF Needed, Closure
  <2>2. Exists(Prelude)' <=> Exists(Prelude)
    BY <2>1, <1>1 DEF Exists
  <2>. QED BY <2>2 DEF RootsOf
<1>6. ASSUME Prelude \in Range(RootsOf(e)) PROVE PreludeAs(plan, cache)'
  <2> SUFFICES ASSUME NEW g \in DOMAIN plan, plan[g].at <= plan[Prelude].at
               PROVE  g \in DOMAIN cache /\ Exists(g)' /\ disk'[g].time = plan[g].time
    BY DEF PreludeAs
  <2>1. g \in DOMAIN cache /\ Exists(g) /\ disk[g].time = plan[g].time
    BY <1>2, <1>6 DEF Static, PreludeAs
  <2>2. g \in Needed({Prelude})
    BY <1>2, <1>6, PreludeNeeds
  <2>. QED BY <2>1, <2>2 DEF Exists
<1>7. Static(plan, size, e, cache)'
  BY <1>2, <1>4, <1>5, <1>6 DEF Static
<1>. QED BY <1>7 DEF Known, Orig

-----------------------------------------------------------------------------
(* The load once more: it goes through the files as the first did. *)

(* The files that the first load had gone through when it had come to p.    *)
Came(plan, p) == {g \in DOMAIN plan : plan[g].at <= p}

(* The text and the cache.                                                  *)
Gathered(plan, size, p, e, gone, tx, c) ==
    /\ p \in Nat /\ p <= size
    /\ {tx[i][1] : i \in 1 .. Len(tx)} = Came(plan, p)
    /\ \A i \in 1 .. Len(tx) : Exists(tx[i][1]) /\ tx[i][2] = disk[tx[i][1]].time
    /\ gone \subseteq Came(plan, p)
    /\ \A g \in Came(plan, p) : Current(c, g)
    /\ \A g \in DOMAIN c : g \in gone \/ Orig(plan, e, c, g)
    /\ \A g \in DOMAIN c :
          \/ c[g].dependencies = Range(plan[g].uses) /\ (g = e => g \in gone)
          \/ g = e /\ c[g].dependencies = DOMAIN plan
    /\ \A t \in Came(plan, p) \ gone, g \in DOMAIN plan :
          g \in Span(plan, e, t) => disk[g].time = plan[g].time
    /\ e \in Came(plan, p) => p = size

(* A file begun by the load once more, when the plan had come to hi.        *)
FrameAgain(plan, s, hi) ==
    LET U == plan[s.file].uses
        k == Len(U) - Len(s.uses)
    IN /\ s.file \in DOMAIN plan
       /\ Suffix(disk[s.file].uses, s.uses)
       /\ s.deps = First(U, k)
       /\ IsPos(plan, hi, plan[s.file].from, First(U, k))

(* The roots in the load once more.                                         *)
RootsAgain(plan, e, r, hi) ==
    /\ Suffix(RootsOf(e), r)
    /\ IsPos(plan, hi, 0, First(RootsOf(e), Len(RootsOf(e)) - Len(r)))

(* Where the plan began the file above the i-th, or where it is now.        *)
Height(plan, s, p, i) == IF i = Len(s) THEN p ELSE plan[s[i + 1].file].from

(* The files begun and what is left to do.                                  *)
Resumed(plan, p, e, s, r) ==
    /\ s # <<>> => s[1].file = e
    /\ s # <<>> /\ Prelude \in Range(RootsOf(e)) => plan[Prelude].at < plan[e].at \/ e = Prelude
    /\ \A i \in 1 .. Len(s) : /\ FrameAgain(plan, s[i], Height(plan, s, p, i))
                             /\ plan[s[i].file].at <= plan[e].at
    /\ RootsAgain(plan, e, r, Height(plan, s, p, 0))

(* The load once more, when it has come to where the first was when the     *)
(* text had length p.                                                       *)
Again(plan, size, p, e, s, r, gone, tx, c) ==
    /\ Static(plan, size, e, c)
    /\ Gathered(plan, size, p, e, gone, tx, c)
    /\ Resumed(plan, p, e, s, r)

\* A plan, taken apart.
LEMMA RecordedFacts ==
    ASSUME NEW plan, PlanType(plan), Recorded(plan), NEW g \in DOMAIN plan
    PROVE  /\ plan[g].uses \in Seq(Files) /\ Len(plan[g].uses) \in Nat
           /\ plan[g].from \in Nat /\ plan[g].at \in Nat \ {0} /\ plan[g].time \in Nat
           /\ plan[g].from < plan[g].at
           /\ \A j \in 1 .. Len(plan[g].uses) : plan[g].uses[j] \in Range(plan[g].uses)
           /\ Range(plan[g].uses) \subseteq DOMAIN plan
           /\ \A u \in Range(plan[g].uses) : plan[u].at < plan[g].at /\ plan[u].at \in Nat
<1> DEFINE U == plan[g].uses
<1>1. /\ U \in Seq(Files) /\ plan[g].from \in Nat /\ plan[g].at \in Nat /\ plan[g].time \in Nat
      /\ plan[g].from < plan[g].at
  BY PlanFacts DEF Recorded
<1>2. Followed(plan, U, Len(U), plan[g].from) /\ IsPos(plan, plan[g].at - 1, plan[g].from, Range(U))
  BY DEF Recorded
<1> HIDE DEF U
<1>3. Len(U) \in Nat /\ DOMAIN U = 1 .. Len(U)
  BY <1>1, LenProperties
<1>4. Range(U) \subseteq DOMAIN plan /\ \A j \in 1 .. Len(U) : U[j] \in Range(U)
  BY <1>2, <1>3 DEF Followed, Range
<1>5. \A u \in Range(U) : plan[u].at < plan[g].at /\ plan[u].at \in Nat
  BY <1>1, <1>2, <1>4, PlanFacts DEF IsPos
<1>. QED BY <1>1, <1>3, <1>4, <1>5 DEF U

(* Where the walk ends.                                                     *)
\* The plan ends with the entry, or with the prelude if that uses the entry.
LEMMA SizeFacts ==
    ASSUME NEW e \in Files, NEW plan, NEW size, NEW c, Static(plan, size, e, c)
    PROVE  LET U == RootsOf(e) IN
           /\ Range(U) \subseteq DOMAIN plan
           /\ size \in Nat /\ IsPos(plan, size, 0, Range(U))
           /\ e \in DOMAIN plan /\ plan[e].at <= size
           /\ U = <<e>> => size = plan[e].at
           /\ U = <<Prelude, e>> =>
                 /\ Prelude \in DOMAIN plan /\ Prelude \in Range(U)
                 /\ plan[Prelude].at <= plan[e].at => size = plan[e].at
                 /\ plan[e].at <= plan[Prelude].at => size = plan[Prelude].at
<1> DEFINE U == RootsOf(e)
<1>1. PlanType(plan) /\ Followed(plan, U, Len(U), 0) /\ IsPos(plan, size, 0, First(U, Len(U))) /\ size \in Nat
  BY DEF Static, Walked
<1>2. First(U, Len(U)) = Range(U) /\ e \in Range(U)
  BY RootsSeq
<1>3. Range(U) \subseteq DOMAIN plan
  BY <1>1, <1>2 DEF Followed, First
<1>4. IsPos(plan, size, 0, Range(U))
  BY <1>1, <1>2
<1>5. \A g \in DOMAIN plan : plan[g].at \in Nat /\ plan[g].at # 0
  BY <1>1, RecordedFacts DEF Static
<1>6. e \in DOMAIN plan /\ plan[e].at <= size
  BY <1>2, <1>3 DEF Static
<1>7. U = <<e>> => size = plan[e].at
  <2>1. U = <<e>> => Range(U) = {e}
    BY DEF Range
  <2>. QED BY <2>1, <1>1, <1>4, <1>5, <1>6 DEF IsPos
<1>8. ASSUME U = <<Prelude, e>>
      PROVE  /\ Prelude \in DOMAIN plan /\ Prelude \in Range(U)
             /\ plan[Prelude].at <= plan[e].at => size = plan[e].at
             /\ plan[e].at <= plan[Prelude].at => size = plan[Prelude].at
  <2>1. Range(U) = {Prelude, e}
    <3>1. DOMAIN U = {1, 2} /\ U[1] = Prelude /\ U[2] = e
      BY <1>8
    <3>. QED BY <3>1 DEF Range
  <2>2. Prelude \in DOMAIN plan
    BY <2>1, <1>3
  <2> HIDE DEF U
  <2>3. /\ plan[Prelude].at <= size /\ plan[e].at <= size
        /\ size = 0 \/ plan[Prelude].at = size \/ plan[e].at = size
    BY <2>1, <1>4 DEF IsPos
  <2>. QED BY <2>1, <2>2, <2>3, <1>1, <1>5, <1>6
<1>. QED BY <1>1, <1>3, <1>4, <1>6, <1>7, <1>8

\* The load once more comes to a use of a file: it is behind, or begins here
\* in the plan.
LEMMA UseAgain ==
    ASSUME DiskType, NEW plan, PlanType(plan), Recorded(plan), UsesAs(plan),
           NEW s \in Frame, Exists(s.file), NEW hi \in Nat,
           FrameAgain(plan, s, hi), s.uses # <<>>,
           NEW u, u = Resolve(s.file, Head(s.uses)), Exists(u)
    PROVE  /\ u \in DOMAIN plan /\ plan[u].at < plan[s.file].at
           /\ plan[u].at <= hi \/ (plan[u].from = hi /\ hi <= plan[u].at)
           /\ \A t : \A to \in Nat :
                 /\ \/ plan[u].at <= hi /\ to = hi
                    \/ hi <= plan[u].at /\ to = plan[u].at
                 /\ t.file = s.file /\ t.uses = Tail(s.uses) /\ t.deps = s.deps \cup {u}
                 => FrameAgain(plan, t, to)
<1> DEFINE f == s.file
           U == plan[f].uses
           all == disk[f].uses
           k == Len(U) - Len(s.uses)
<1>1. /\ f \in DOMAIN plan /\ Suffix(all, s.uses) /\ s.deps = First(U, k)
      /\ IsPos(plan, hi, plan[f].from, First(U, k))
  BY DEF FrameAgain
<1>2. /\ U \in Seq(Files) /\ Len(U) \in Nat /\ plan[f].from \in Nat
      /\ Range(U) \subseteq DOMAIN plan
      /\ \A v \in Range(U) : plan[v].at < plan[f].at /\ plan[v].at \in Nat
      /\ \A j \in 1 .. Len(U) : U[j] \in Range(U)
  BY <1>1, RecordedFacts
<1>3. Followed(plan, U, Len(U), plan[f].from)
  BY <1>1 DEF Recorded
<1>4. all \in Seq(STRING) /\ Len(all) = Len(U) /\ s.uses \in Seq(STRING)
      /\ \A i \in 1 .. Len(all) : Resolved(f)[i] = Resolve(f, all[i])
  BY <1>1, ResolvedFacts DEF UsesAs, Frame
<1>5. \A i \in 1 .. Len(U) : Resolved(f)[i] = IF Exists(U[i]) THEN U[i] ELSE Unresolved
  BY <1>1, <1>4 DEF UsesAs
<1> HIDE DEF U, all, f
<1>6. /\ k \in Nat /\ k + 1 <= Len(U) /\ Len(U) - Len(Tail(s.uses)) = k + 1
      /\ Head(s.uses) = all[k + 1] /\ Suffix(all, Tail(s.uses))
  <2>1. /\ Len(all) - Len(s.uses) \in Nat
        /\ Len(all) - Len(s.uses) + 1 <= Len(all)
        /\ Len(all) - Len(Tail(s.uses)) = Len(all) - Len(s.uses) + 1
        /\ Head(s.uses) = all[Len(all) - Len(s.uses) + 1]
        /\ Suffix(all, Tail(s.uses))
    BY <1>1, <1>4, SuffixNext
  <2>. QED BY <2>1, <1>4
<1> HIDE DEF k
<1>7. k + 1 \in 1 .. Len(U) /\ (k + 1) - 1 = k
  BY <1>2, <1>6
<1>8. u = U[k + 1]
  <2>1. Resolved(f)[k + 1] = u
    BY <1>4, <1>6, <1>7 DEF f
  <2>2. ~Exists(Unresolved)
    BY UnresolvedMissing
  <2>. QED BY <2>1, <2>2, <1>5, <1>7
<1>9. u \in DOMAIN plan /\ plan[u].at < plan[f].at /\ plan[u].at \in Nat
  BY <1>2, <1>7, <1>8
<1>10. plan[u].at <= hi \/ (plan[u].from = hi /\ hi <= plan[u].at)
  BY <1>1, <1>3, <1>7, <1>8 DEF Followed
<1>11. First(U, k) \subseteq DOMAIN plan /\ First(U, k + 1) = First(U, k) \cup {u}
  <2>1. First(U, k + 1) = First(U, k) \cup {u}
    <3>1. U \in Seq(Files) /\ k \in Nat /\ k + 1 <= Len(U)
      BY <1>2, <1>6
    <3>. QED BY <3>1, <1>8, FirstFacts
  <2>2. \A j \in 1 .. k : j \in 1 .. Len(U)
    BY <1>2, <1>6
  <2>. QED BY <2>1, <2>2, <1>2 DEF First
<1>12. ASSUME NEW to \in Nat, NEW t,
              \/ plan[u].at <= hi /\ to = hi
              \/ hi <= plan[u].at /\ to = plan[u].at,
              t.file = s.file, t.uses = Tail(s.uses), t.deps = s.deps \cup {u}
       PROVE  FrameAgain(plan, t, to)
  <2>1. IsPos(plan, to, plan[f].from, First(U, k) \cup {u})
    BY <1>1, <1>2, <1>9, <1>11, <1>12, PosNext, ZenonT(40)
  <2>2. t.deps = First(U, k + 1) /\ IsPos(plan, to, plan[f].from, First(U, k + 1))
    BY <2>1, <1>1, <1>11, <1>12
  <2>. QED BY <2>2, <1>1, <1>6, <1>12 DEF FrameAgain, U, all, f
<1>. QED BY <1>9, <1>10, <1>12 DEF f

\* The load once more comes to a root.
LEMMA RootAgain ==
    ASSUME NEW e \in Files, NEW plan, PlanType(plan), Followed(plan, RootsOf(e), Len(RootsOf(e)), 0),
           NEW r \in Seq(Files), NEW hi \in Nat, RootsAgain(plan, e, r, hi), r # <<>>
    PROVE  LET u == Head(r) IN
           /\ u \in DOMAIN plan
           /\ plan[u].at <= hi \/ (plan[u].from = hi /\ hi <= plan[u].at)
           /\ \A to \in Nat :
                 \/ plan[u].at <= hi /\ to = hi
                 \/ hi <= plan[u].at /\ to = plan[u].at
                 => RootsAgain(plan, e, Tail(r), to)
<1> DEFINE U == RootsOf(e)
           k == Len(U) - Len(r)
           u == Head(r)
<1>1. Suffix(U, r) /\ IsPos(plan, hi, 0, First(U, k))
  BY DEF RootsAgain
<1>2. U \in Seq(Files) /\ Len(U) \in Nat
  BY RootsSeq
<1>3. Followed(plan, U, Len(U), 0)
  OBVIOUS
<1> HIDE DEF U
<1>6. /\ k \in Nat /\ k + 1 <= Len(U) /\ Len(U) - Len(Tail(r)) = k + 1
      /\ u = U[k + 1] /\ Suffix(U, Tail(r))
  BY <1>1, <1>2, SuffixNext
<1> HIDE DEF k, u
<1>7. k + 1 \in 1 .. Len(U) /\ (k + 1) - 1 = k
  BY <1>2, <1>6
<1>9. u \in DOMAIN plan /\ plan[u].at \in Nat
  BY <1>3, <1>6, <1>7, PlanFacts DEF Followed
<1>10. plan[u].at <= hi \/ (plan[u].from = hi /\ hi <= plan[u].at)
  BY <1>1, <1>3, <1>6, <1>7 DEF Followed
<1>11. First(U, k) \subseteq DOMAIN plan /\ First(U, k + 1) = First(U, k) \cup {u}
  <2>1. First(U, k + 1) = First(U, k) \cup {u}
    BY <1>2, <1>6, FirstFacts
  <2>2. \A j \in 1 .. k : j \in 1 .. Len(U)
    BY <1>2, <1>6
  <2>. QED BY <2>1, <2>2, <1>3 DEF Followed, First
<1>12. ASSUME NEW to \in Nat,
              \/ plan[u].at <= hi /\ to = hi
              \/ hi <= plan[u].at /\ to = plan[u].at
       PROVE  RootsAgain(plan, e, Tail(r), to)
  <2>1. IsPos(plan, to, 0, First(U, k) \cup {u})
    BY <1>1, <1>9, <1>11, <1>12, PosNext
  <2>. QED BY <2>1, <1>6, <1>11 DEF RootsAgain, U
<1>. QED BY <1>9, <1>10, <1>12 DEF u

\* The stack and the roots of the load once more, once a file has been gone
\* through.
LEMMA AgainAdvance ==
    ASSUME DiskType, NEW plan, PlanType(plan), Recorded(plan), UsesAs(plan), NEW e \in Files,
           Followed(plan, RootsOf(e), Len(RootsOf(e)), 0),
           NEW b \in Seq(Frame), NEW r \in Seq(Files), NEW f \in Files, Exists(f),
           NEW hi \in Nat, NEW to \in Nat,
           r # <<>>, b # <<>> => b[Len(b)].uses # <<>>,
           \A i \in 1 .. Len(b) : Exists(b[i].file),
           f = IF b = <<>> THEN Head(r) ELSE Resolve(b[Len(b)].file, Head(b[Len(b)].uses)),
           Resumed(plan, hi, e, b, r),
           \/ plan[f].at <= hi /\ to = hi
           \/ hi <= plan[f].at /\ to = plan[f].at
    PROVE  Resumed(plan, to, e, StackAfter(b, f), RootsAfter(b, r))
<1> DEFINE t == StackAfter(b, f)
           q == RootsAfter(b, r)
           n == Len(b)
<1>1. /\ Len(t) = n
      /\ n \in Nat
      /\ b = <<>> <=> n = 0
      /\ t \in Seq(Frame)
      /\ \A i \in 1 .. n - 1 : t[i] = b[i]
      /\ b # <<>> =>
            /\ t[n].file = b[n].file
            /\ t[n].uses = Tail(b[n].uses)
            /\ t[n].deps = b[n].deps \cup {f}
      /\ b = <<>> => q = Tail(r) /\ t = <<>>
      /\ b # <<>> => q = r
  BY UseDone
<1>2. \A i \in 1 .. n : b[i] \in Frame
  BY ElementOfSeq
<1>3. /\ b # <<>> => b[1].file = e
      /\ b # <<>> /\ Prelude \in Range(RootsOf(e)) => plan[Prelude].at < plan[e].at \/ e = Prelude
      /\ \A i \in 1 .. n : /\ FrameAgain(plan, b[i], Height(plan, b, hi, i))
                          /\ plan[b[i].file].at <= plan[e].at
      /\ RootsAgain(plan, e, r, Height(plan, b, hi, 0))
  BY DEF Resumed
<1> HIDE DEF t, q
<1>4. \A i \in 1 .. n : t[i].file = b[i].file
  <2>1. \A i \in 1 .. n : i \in 1 .. n - 1 \/ (i = n /\ b # <<>>)
    BY <1>1
  <2>. QED BY <2>1, <1>1
<1>5. t = <<>> <=> b = <<>>
  BY <1>1, EmptySeq
<1>6. \A i \in 1 .. n : FrameAgain(plan, t[i], Height(plan, t, to, i))
  <2> TAKE i \in 1 .. n
  <2>1. CASE i # n
    <3>1. t[i] = b[i] /\ i + 1 \in 1 .. n
      BY <2>1, <1>1
    <3>2. Height(plan, t, to, i) = Height(plan, b, hi, i)
      BY <2>1, <3>1, <1>1, <1>4 DEF Height
    <3>. QED BY <3>1, <3>2, <1>3
  <2>2. CASE i = n
    <3>1. Height(plan, t, to, i) = to /\ Height(plan, b, hi, i) = hi
      BY <2>2, <1>1 DEF Height
    <3>2. /\ b # <<>> /\ b[n] \in Frame /\ Exists(b[n].file) /\ b[n].uses # <<>>
          /\ f = Resolve(b[n].file, Head(b[n].uses))
          /\ FrameAgain(plan, b[n], hi)
      BY <2>2, <1>1, <1>2, <1>3, <3>1
    <3>3. /\ t[n].file = b[n].file
          /\ t[n].uses = Tail(b[n].uses)
          /\ t[n].deps = b[n].deps \cup {f}
      BY <3>2, <1>1, SMTT(30)
    <3> HIDE DEF n
    <3>5. FrameAgain(plan, t[n], to)
      <4>1. \A y : \A x \in Nat :
                 /\ \/ plan[f].at <= hi /\ x = hi
                    \/ hi <= plan[f].at /\ x = plan[f].at
                 /\ y.file = b[n].file /\ y.uses = Tail(b[n].uses) /\ y.deps = b[n].deps \cup {f}
                 => FrameAgain(plan, y, x)
        <5> DEFINE s == b[n]
        <5>1. /\ s \in Frame /\ Exists(s.file) /\ s.uses # <<>> /\ f = Resolve(s.file, Head(s.uses))
              /\ FrameAgain(plan, s, hi)
          BY <3>2
        <5> HIDE DEF s
        <5>2. \A y : \A x \in Nat :
                 /\ \/ plan[f].at <= hi /\ x = hi
                    \/ hi <= plan[f].at /\ x = plan[f].at
                 /\ y.file = s.file /\ y.uses = Tail(s.uses) /\ y.deps = s.deps \cup {f}
                 => FrameAgain(plan, y, x)
          BY <5>1, UseAgain
        <5>. QED BY <5>2 DEF s
      <4>. QED BY <4>1, <3>3, ZenonT(40)
    <3>. QED BY <2>2, <3>1, <3>5
  <2>. QED BY <2>1, <2>2
<1>7. RootsAgain(plan, e, q, Height(plan, t, to, 0))
  <2>1. CASE b # <<>>
    <3>1. 1 \in 1 .. n /\ 0 # n
      BY <2>1, <1>1
    <3>2. Height(plan, t, to, 0) = Height(plan, b, hi, 0) /\ q = r
      BY <2>1, <3>1, <1>1, <1>4 DEF Height
    <3>. QED BY <3>2, <1>3
  <2>2. CASE b = <<>>
    <3>1. Height(plan, t, to, 0) = to /\ Height(plan, b, hi, 0) = hi /\ q = Tail(r) /\ f = Head(r)
      BY <2>2, <1>1 DEF Height
    <3>2. RootsAgain(plan, e, r, hi)
      BY <3>1, <1>3
    <3>3. RootsAgain(plan, e, Tail(r), to)
      BY <3>1, <3>2, RootAgain
    <3>. QED BY <3>1, <3>3
  <2>. QED BY <2>1, <2>2
<1>8. \A i \in 1 .. n : plan[t[i].file].at <= plan[e].at
  BY <1>3, <1>4
<1>9. t # <<>> => t[1].file = e
  <2>1. t # <<>> => 1 \in 1 .. n
    BY <1>1, <1>5
  <2>. QED BY <2>1, <1>3, <1>4, <1>5
<1>. QED BY <1>1, <1>3, <1>5, <1>6, <1>7, <1>8, <1>9, ZenonT(40) DEF Resumed, t, q

\* The roots are gone through in order.
LEMMA RootTarget ==
    ASSUME NEW e \in Files, NEW plan, NEW size, NEW c, Static(plan, size, e, c),
           NEW r \in Seq(Files), r # <<>>, NEW p \in Nat, RootsAgain(plan, e, r, p)
    PROVE  \/ /\ Head(r) = e
              /\ \/ RootsOf(e) = <<e>> /\ p = 0
                 \/ RootsOf(e) = <<Prelude, e>> /\ e # Prelude /\ p = plan[Prelude].at
           \/ Head(r) = Prelude /\ e # Prelude /\ RootsOf(e) = <<Prelude, e>> /\ p = 0
<1> DEFINE U == RootsOf(e)
           k == Len(U) - Len(r)
<1>1. Len(r) \in Nat \ {0} /\ Head(r) = r[1]
  BY EmptySeq, LenProperties, HeadTailProperties
<1>2. /\ Len(r) <= Len(U)
      /\ \A j \in 1 .. Len(r) : r[j] = U[k + j]
      /\ IsPos(plan, p, 0, First(U, k))
  BY DEF RootsAgain, Suffix
<1>3. 1 \in 1 .. Len(r)
  BY <1>1
<1>4. r[1] = U[k + 1]
  BY <1>2, <1>3
<1>5. First(U, 0) = {}
  BY RootsSeq
<1>6. k = 0 => p = 0
  BY <1>2, <1>5 DEF IsPos
<1>9. k = Len(U) - Len(r) /\ RootsOf(e) = U
  OBVIOUS
<1>10. U = <<e>> \/ (U = <<Prelude, e>> /\ e # Prelude)
  BY RootsSeq
<1>11. U = <<Prelude, e>> => Prelude \in DOMAIN plan /\ plan[Prelude].at \in Nat \ {0}
  <2>1. U = <<Prelude, e>> => Prelude \in DOMAIN plan
    BY SizeFacts
  <2>. QED BY <2>1, RecordedFacts DEF Static
<1> HIDE DEF U, k
<1>7. CASE U = <<e>>
  <2>1. Len(U) = 1 /\ U[1] = e
    BY <1>7
  <2>2. k = 0
    BY <2>1, <1>1, <1>2, <1>9
  <2>. QED BY <2>1, <2>2, <1>1, <1>4, <1>6, <1>7, <1>9
<1>8. CASE U = <<Prelude, e>> /\ e # Prelude
  <2>1. Len(U) = 2 /\ U[1] = Prelude /\ U[2] = e
    BY <1>8
  <2>2. k = 0 \/ k = 1
    <3>1. PICK n : n = Len(r)
      OBVIOUS
    <3>2. n \in Nat \ {0} /\ n <= 2 /\ k = 2 - n
      BY <2>1, <3>1, <1>1, <1>2, <1>9
    <3>. QED BY <3>2
  <2>3. CASE k = 0
    <3>1. k + 1 = 1 /\ p = 0
      BY <2>3, <1>6
    <3>2. Head(r) = Prelude
      BY <2>1, <3>1, <1>1, <1>4
    <3>. QED BY <3>1, <3>2, <1>8, <1>9
  <2>4. CASE k = 1
    <3>1. First(U, 1) = {Prelude}
      BY <2>1 DEF First
    <3>2. (p = 0 \/ plan[Prelude].at = p) /\ plan[Prelude].at <= p
      BY <2>4, <3>1, <1>2 DEF IsPos
    <3>3. p = plan[Prelude].at
      BY <3>2, <1>8, <1>11
    <3>. QED BY <2>1, <2>4, <3>3, <1>1, <1>4, <1>8, <1>9
  <2>. QED BY <2>2, <2>3, <2>4
<1>. QED BY <1>7, <1>8, <1>10

(* The same of the present state.                                           *)
AgainLoad(plan, size, p) ==
    Again(plan, size, p, call.entry, stack, roots, included, text, cache)

\* What is said of the load once more, taken apart.
LEMMA AgainFacts ==
    ASSUME IInv, Walking, call.steady, NEW plan, NEW size, NEW p, AgainLoad(plan, size, p)
    PROVE  LET e == call.entry IN
           /\ e \in Files /\ e \in DOMAIN plan /\ p \in Nat /\ size \in Nat /\ p <= size /\ DiskType
           /\ PlanType(plan) /\ Recorded(plan) /\ UsesAs(plan)
           /\ Followed(plan, RootsOf(e), Len(RootsOf(e)), 0)
           /\ stack \in Seq(Frame) /\ roots \in Seq(Files) /\ Len(stack) \in Nat
           /\ \A i \in 1 .. Len(stack) : Exists(stack[i].file) /\ stack[i] \in Frame
           /\ Static(plan, size, e, cache)
           /\ Gathered(plan, size, p, e, included, text, cache)
           /\ Resumed(plan, p, e, stack, roots)
<1> DEFINE e == call.entry
<1>1. /\ Static(plan, size, e, cache)
      /\ Gathered(plan, size, p, e, included, text, cache)
      /\ Resumed(plan, p, e, stack, roots)
  BY DEF AgainLoad, Again
<1>2. e \in Files /\ DiskType /\ stack \in Seq(Frame) /\ roots \in Seq(Files)
  BY DEF IInv, TypeOK, CallInv, WalkType
<1>3. \A i \in 1 .. Len(stack) : Exists(stack[i].file)
  BY DEF IInv, SteadyInv, AsRead
<1>4. Len(stack) \in Nat /\ \A i \in 1 .. Len(stack) : stack[i] \in Frame
  BY <1>2, LenProperties, ElementOfSeq
<1> HIDE DEF e
<1>5. e \in DOMAIN plan
  BY <1>1, <1>2, SizeFacts
<1>. QED BY <1>1, <1>2, <1>3, <1>4, <1>5 DEF Static, Gathered, Walked, e

\* The next file of the load once more, and where it is in the plan.
LEMMA AgainTarget ==
    ASSUME IInv, Pending, call.steady, NEW plan, NEW size, NEW p, AgainLoad(plan, size, p),
           Exists(Target)
    PROVE  LET u == Target
               e == call.entry
           IN
           /\ u \in DOMAIN plan /\ u \in Files
           /\ plan[u].at <= p \/ (plan[u].from = p /\ p < plan[u].at)
           /\ stack # <<>> => plan[u].at < plan[e].at
           /\ stack = <<>> =>
                 \/ /\ u = e
                    /\ \/ RootsOf(e) = <<e>> /\ p = 0
                       \/ RootsOf(e) = <<Prelude, e>> /\ e # Prelude /\ p = plan[Prelude].at
                 \/ u = Prelude /\ e # Prelude /\ RootsOf(e) = <<Prelude, e>> /\ p = 0
           /\ roots # <<>>
           /\ stack # <<>> => stack[Len(stack)].uses # <<>>
           /\ u = IF stack = <<>> THEN Head(roots)
                  ELSE Resolve(stack[Len(stack)].file, Head(stack[Len(stack)].uses))
<1> DEFINE e == call.entry
           u == Target
           n == Len(stack)
<1>1. /\ e \in Files /\ e \in DOMAIN plan /\ p \in Nat /\ size \in Nat /\ p <= size /\ DiskType
      /\ PlanType(plan) /\ Recorded(plan) /\ UsesAs(plan)
      /\ Followed(plan, RootsOf(e), Len(RootsOf(e)), 0)
      /\ stack \in Seq(Frame) /\ roots \in Seq(Files) /\ n \in Nat
      /\ \A i \in 1 .. n : Exists(stack[i].file) /\ stack[i] \in Frame
      /\ Static(plan, size, e, cache)
      /\ Resumed(plan, p, e, stack, roots)
  BY AgainFacts DEF Pending
<1>2. /\ roots # <<>>
      /\ stack # <<>> => stack[n].uses # <<>>
      /\ u = IF stack = <<>> THEN Head(roots) ELSE Resolve(stack[n].file, Head(stack[n].uses))
  <2>1. stack # <<>> => Top.uses # <<>>
    BY DEF Pending
  <2>2. roots # <<>>
    BY DEF Pending, IInv, TypeOK, Shape
  <2>. QED BY <2>1, <2>2 DEF Target, Top
<1>3. \A g \in DOMAIN plan : plan[g].at \in Nat /\ g \in Files
  BY <1>1, PlanFacts
<1>4. CASE stack # <<>>
  <2> DEFINE s == stack[n]
  <2>1. n \in 1 .. n
    BY <1>1, <1>4, EmptySeq
  <2>2. /\ FrameAgain(plan, s, p) /\ plan[s.file].at <= plan[e].at /\ s \in Frame /\ Exists(s.file)
        /\ s.uses # <<>> /\ u = Resolve(s.file, Head(s.uses)) /\ Exists(u)
    <3>1. Height(plan, stack, p, n) = p
      BY DEF Height
    <3>2. FrameAgain(plan, stack[n], Height(plan, stack, p, n)) /\ plan[stack[n].file].at <= plan[e].at
      BY <2>1, <1>1 DEF Resumed
    <3>. QED BY <3>1, <3>2, <2>1, <1>1, <1>2, <1>4
  <2> HIDE DEF s, u, n, e
  <2>3. /\ u \in DOMAIN plan /\ plan[u].at < plan[s.file].at
        /\ plan[u].at <= p \/ (plan[u].from = p /\ p <= plan[u].at)
    BY <1>1, <2>2, UseAgain
  <2>4. s.file \in DOMAIN plan
    BY <2>2 DEF FrameAgain
  <2>5. plan[u].at < plan[e].at
    BY <2>2, <2>3, <2>4, <1>1, <1>3
  <2>6. plan[u].at <= p \/ (plan[u].from = p /\ p < plan[u].at)
    BY <2>3, <1>1, <1>3
  <2>. QED BY <2>3, <2>5, <2>6, <1>2, <1>3, <1>4 DEF u, n, e
<1>5. CASE stack = <<>>
  <2>1. RootsAgain(plan, e, roots, p) /\ u = Head(roots)
    <3>1. Height(plan, stack, p, 0) = p
      BY <1>5 DEF Height
    <3>2. RootsAgain(plan, e, roots, Height(plan, stack, p, 0))
      BY <1>1 DEF Resumed
    <3>. QED BY <3>1, <3>2, <1>2, <1>5
  <2> HIDE DEF u, n, e
  <2>2. \/ /\ u = e
           /\ \/ RootsOf(e) = <<e>> /\ p = 0
              \/ RootsOf(e) = <<Prelude, e>> /\ e # Prelude /\ p = plan[Prelude].at
        \/ u = Prelude /\ e # Prelude /\ RootsOf(e) = <<Prelude, e>> /\ p = 0
    BY <2>1, <1>1, <1>2, RootTarget
  <2>3. u \in DOMAIN plan /\ (plan[u].at <= p \/ (plan[u].from = p /\ p <= plan[u].at))
    BY <2>1, <1>1, <1>2, RootAgain
  <2>4. plan[u].at <= p \/ (plan[u].from = p /\ p < plan[u].at)
    BY <2>3, <1>1, <1>3
  <2>. QED BY <2>2, <2>3, <2>4, <1>2, <1>3, <1>5 DEF u, n, e
<1>. QED BY <1>4, <1>5

\* The load once more skips a file it has gone through.
LEMMA AgainSkip ==
    ASSUME IInv, Skip, call.steady, NEW plan, NEW size, NEW p, AgainLoad(plan, size, p)
    PROVE  Again(plan, size, p, call'.entry, stack', roots', included', text', cache')
<1> DEFINE e == call.entry
           u == Target
<1>1. /\ Pending /\ Walking /\ u \in Files /\ u \in included
      /\ stack' = StackAfter(stack, u) /\ roots' = RootsAfter(stack, roots)
      /\ UNCHANGED <<disk, cache, call, included, text>>
  BY SkipFacts DEF IInv, Pending
<1>2. /\ e \in Files /\ p \in Nat /\ DiskType
      /\ PlanType(plan) /\ Recorded(plan) /\ UsesAs(plan)
      /\ Followed(plan, RootsOf(e), Len(RootsOf(e)), 0)
      /\ stack \in Seq(Frame) /\ roots \in Seq(Files)
      /\ \A i \in 1 .. Len(stack) : Exists(stack[i].file)
      /\ Static(plan, size, e, cache)
      /\ Gathered(plan, size, p, e, included, text, cache)
      /\ Resumed(plan, p, e, stack, roots)
  BY <1>1, AgainFacts
<1>3. u \in Came(plan, p) /\ Exists(u)
  BY <1>1, <1>2 DEF Gathered, Current
<1>4. /\ roots # <<>>
      /\ stack # <<>> => stack[Len(stack)].uses # <<>>
      /\ u = IF stack = <<>> THEN Head(roots) ELSE Resolve(stack[Len(stack)].file, Head(stack[Len(stack)].uses))
  BY <1>1, <1>3, AgainTarget
<1>5. plan[u].at <= p
  BY <1>3 DEF Came
<1> HIDE DEF e, u
<1>6. Resumed(plan, p, e, StackAfter(stack, u), RootsAfter(stack, roots))
  BY <1>1, <1>2, <1>3, <1>4, <1>5, AgainAdvance
<1>. QED BY <1>1, <1>2, <1>6 DEF Again, e

(* What came already is as the cache has it, so are the files it uses.      *)
\* An entry made or taken by the load once more is valid: so is all it
\* depends on.
LEMMA CameValid ==
    ASSUME NEW e \in Files, NEW plan, NEW size, NEW p, NEW gone, NEW tx, NEW c,
           Static(plan, size, e, c), Gathered(plan, size, p, e, gone, tx, c),
           NEW u \in Came(plan, p)
    PROVE  Valid(c, u)
<1> DEFINE V == Came(plan, p)
<1>1. /\ PlanType(plan) /\ Recorded(plan) /\ p \in Nat /\ \A g \in DOMAIN plan : plan[g].at <= size
  BY DEF Static, Gathered
<1>2. \A g \in V : Current(c, g)
  BY DEF Gathered
<1>3. V \in SUBSET DOMAIN c
  BY <1>2 DEF Current
<1>4. ASSUME NEW g \in V PROVE c[g].dependencies \subseteq V
  <2>1. g \in DOMAIN c /\ g \in DOMAIN plan /\ plan[g].at <= p
    BY <1>3 DEF Came
  <2>2. CASE c[g].dependencies = Range(plan[g].uses)
    <3> SUFFICES ASSUME NEW v \in Range(plan[g].uses) PROVE v \in V
      BY <2>2
    <3>1. v \in DOMAIN plan /\ plan[v].at < plan[g].at /\ plan[v].at \in Nat /\ plan[g].at \in Nat
      BY <2>1, <1>1, RecordedFacts
    <3>. QED BY <3>1, <2>1, <1>1 DEF Came
  <2>3. CASE g = e /\ c[g].dependencies = DOMAIN plan
    <3>1. p = size
      BY <2>3 DEF Gathered
    <3>. QED BY <2>3, <3>1, <1>1 DEF Came
  <2>. QED BY <2>1, <2>2, <2>3 DEF Gathered
<1>. QED BY <1>2, <1>3, <1>4 DEF Valid

(* So is the prelude before anything was gone through.                      *)
\* The prelude is valid: nothing it needs was changed.
LEMMA PreludeValid ==
    ASSUME NEW e \in Files, NEW plan, NEW size, NEW gone, NEW tx, NEW c,
           Static(plan, size, e, c), Gathered(plan, size, 0, e, gone, tx, c),
           RootsOf(e) = <<Prelude, e>>
    PROVE  Valid(c, Prelude)
<1> DEFINE top == plan[Prelude].at
           V == Came(plan, top)
<1>1. /\ PlanType(plan) /\ Recorded(plan) /\ \A g \in DOMAIN plan : plan[g].at <= size
      /\ Prelude \in DOMAIN plan
      /\ plan[e].at <= plan[Prelude].at => size = plan[Prelude].at
      /\ PreludeAs(plan, c)
  BY SizeFacts DEF Static
<1>2. \A g \in DOMAIN plan : plan[g].at \in Nat \ {0}
  BY <1>1, RecordedFacts
<1>3. gone = {}
  <2>1. Came(plan, 0) = {}
    BY <1>2 DEF Came
  <2>. QED BY <2>1 DEF Gathered
<1>4. \A g \in V : g \in DOMAIN plan /\ plan[g].at <= top /\ g \in DOMAIN c /\ Exists(g) /\ disk[g].time = plan[g].time
  BY <1>1 DEF Came, PreludeAs
<1>5. \A g \in V : c[g].time = plan[g].time
  BY <1>3, <1>4 DEF Gathered, Orig
<1>6. \A g \in V : Current(c, g)
  BY <1>4, <1>5 DEF Current
<1>7. ASSUME NEW g \in V PROVE c[g].dependencies \subseteq V
  <2>1. g \in DOMAIN c /\ g \in DOMAIN plan /\ plan[g].at <= top
    BY <1>4
  <2>2. CASE c[g].dependencies = Range(plan[g].uses)
    <3> SUFFICES ASSUME NEW v \in Range(plan[g].uses) PROVE v \in V
      BY <2>2
    <3>1. v \in DOMAIN plan /\ plan[v].at < plan[g].at /\ plan[v].at \in Nat /\ plan[g].at \in Nat
      BY <2>1, <1>1, RecordedFacts
    <3>. QED BY <3>1, <2>1, <1>1, <1>2 DEF Came
  <2>3. CASE g = e /\ c[g].dependencies = DOMAIN plan
    <3>1. size = top
      BY <2>1, <2>3, <1>1
    <3>. QED BY <2>3, <3>1, <1>1 DEF Came
  <2>. QED BY <2>1, <2>2, <2>3 DEF Gathered
<1>8. Prelude \in V
  BY <1>1, <1>2 DEF Came
<1>9. V \in SUBSET DOMAIN c
  BY <1>4
<1>. QED BY <1>6, <1>7, <1>8, <1>9 DEF Valid

\* The load once more opens a file whose entry is not valid; its entry from
\* the first load is not taken later.
LEMMA AgainOpen ==
    ASSUME IInv, Open, call.op = "load", call.steady, NEW plan, NEW size, NEW p, AgainLoad(plan, size, p)
    PROVE  Again(plan, size, p, call'.entry, stack', roots', included', text', cache')
<1> DEFINE e == call.entry
           u == Target
           n == Len(stack)
           s == stack'[n + 1]
<1>1. /\ u \in Files /\ Exists(u) /\ n \in Nat /\ Walking
      /\ stack' \in Seq(Frame)
      /\ Len(stack') = n + 1
      /\ \A i \in 1 .. n : stack'[i] = stack[i]
      /\ s.file = u /\ s.uses = disk[u].uses /\ s.deps = {}
      /\ UNCHANGED <<disk, cache, call, roots, included, text>>
  BY OpenFacts DEF IInv
<1>2. Pending /\ ~Valid(cache, u)
  BY DEF Open, Reusable
<1>3. /\ e \in Files /\ e \in DOMAIN plan /\ p \in Nat /\ DiskType
      /\ PlanType(plan) /\ Recorded(plan) /\ UsesAs(plan)
      /\ Static(plan, size, e, cache)
      /\ Gathered(plan, size, p, e, included, text, cache)
      /\ Resumed(plan, p, e, stack, roots)
  BY <1>1, AgainFacts
<1>4. /\ u \in DOMAIN plan
      /\ plan[u].at <= p \/ (plan[u].from = p /\ p < plan[u].at)
      /\ stack # <<>> => plan[u].at < plan[e].at
      /\ stack = <<>> =>
            \/ /\ u = e
               /\ \/ RootsOf(e) = <<e>> /\ p = 0
                  \/ RootsOf(e) = <<Prelude, e>> /\ e # Prelude /\ p = plan[Prelude].at
            \/ u = Prelude /\ e # Prelude /\ RootsOf(e) = <<Prelude, e>> /\ p = 0
  BY <1>1, <1>2, AgainTarget
<1> HIDE DEF e, u, s
<1>5. u \notin Came(plan, p)
  BY <1>2, <1>3, CameValid
<1>6. plan[u].from = p /\ p < plan[u].at
  BY <1>4, <1>5 DEF Came
<1>7. stack = <<>> => u = e /\ (RootsOf(e) = <<e>> \/ (RootsOf(e) = <<Prelude, e>> /\ p = plan[Prelude].at))
  <2>1. ~(u = Prelude /\ RootsOf(e) = <<Prelude, e>> /\ p = 0)
    BY <1>2, <1>3, PreludeValid
  <2>. QED BY <2>1, <1>4
<1>8. /\ stack # <<>> => stack[1].file = e
      /\ stack # <<>> /\ Prelude \in Range(RootsOf(e)) => plan[Prelude].at < plan[e].at \/ e = Prelude
      /\ \A i \in 1 .. n : /\ FrameAgain(plan, stack[i], Height(plan, stack, p, i))
                          /\ plan[stack[i].file].at <= plan[e].at
      /\ RootsAgain(plan, e, roots, Height(plan, stack, p, 0))
  BY <1>3 DEF Resumed
<1>9. stack = <<>> <=> n = 0
  BY <1>3, EmptySeq DEF IInv, TypeOK, WalkType
<1>10. stack'[1].file = e
  <2>1. CASE stack = <<>>
    BY <2>1, <1>1, <1>7, <1>9 DEF s
  <2>2. CASE stack # <<>>
    <3>1. 1 \in 1 .. n
      BY <2>2, <1>1, <1>9
    <3>. QED BY <2>2, <3>1, <1>1, <1>8
  <2>. QED BY <2>1, <2>2
<1>11. Prelude \in Range(RootsOf(e)) => plan[Prelude].at < plan[e].at \/ e = Prelude
  <2>1. CASE stack # <<>>
    BY <2>1, <1>8
  <2>2. CASE stack = <<>> /\ RootsOf(e) = <<e>>
    <3>1. Range(RootsOf(e)) = {e}
      BY <2>2 DEF Range
    <3>. QED BY <3>1
  <2>3. CASE stack = <<>> /\ RootsOf(e) = <<Prelude, e>>
    BY <2>3, <1>6, <1>7 DEF Range
  <2>. QED BY <2>1, <2>2, <2>3, <1>7
<1>12. /\ Height(plan, stack', p, n + 1) = p
       /\ \A i \in 0 .. n : Height(plan, stack', p, i) = Height(plan, stack, p, i)
  <2>1. Height(plan, stack', p, n + 1) = p
    BY <1>1 DEF Height
  <2>2. \A i \in 0 .. n - 1 : Height(plan, stack', p, i) = Height(plan, stack, p, i)
    <3> TAKE i \in 0 .. n - 1
    <3>1. i # n /\ i # n + 1 /\ i + 1 \in 1 .. n
      BY <1>1
    <3>2. stack'[i + 1] = stack[i + 1]
      BY <3>1, <1>1
    <3>. QED BY <3>1, <3>2, <1>1 DEF Height
  <2>3. Height(plan, stack', p, n) = p /\ Height(plan, stack, p, n) = p
    <3>1. stack'[n + 1].file = u
      BY <1>1 DEF s
    <3>. QED BY <3>1, <1>1, <1>6 DEF Height
  <2>4. \A i \in 0 .. n : i \in 0 .. n - 1 \/ i = n
    BY <1>1
  <2>. QED BY <2>1, <2>2, <2>3, <2>4
<1>13. FrameAgain(plan, s, p)
  <2>1. /\ Len(plan[u].uses) = Len(disk[u].uses) /\ disk[u].uses \in Seq(STRING) /\ Len(disk[u].uses) \in Nat
    BY <1>1, <1>3, <1>4, ResolvedFacts DEF UsesAs
  <2>2. Len(plan[u].uses) - Len(s.uses) = 0 /\ Suffix(disk[u].uses, s.uses)
    BY <1>1, <2>1, SuffixWhole
  <2>3. First(plan[u].uses, 0) = {} /\ IsPos(plan, p, plan[u].from, {})
    BY <1>3, <1>6 DEF First, IsPos
  <2>. QED BY <1>1, <1>4, <2>2, <2>3 DEF FrameAgain
<1>14. \A i \in 1 .. n + 1 : i \in 1 .. n \/ i = n + 1
  BY <1>1
<1>15. \A i \in 1 .. n + 1 : /\ FrameAgain(plan, stack'[i], Height(plan, stack', p, i))
                            /\ plan[stack'[i].file].at <= plan[e].at
  <2>1. \A i \in 1 .. n : /\ FrameAgain(plan, stack'[i], Height(plan, stack', p, i))
                         /\ plan[stack'[i].file].at <= plan[e].at
    BY <1>1, <1>8, <1>12
  <2>2. FrameAgain(plan, stack'[n + 1], Height(plan, stack', p, n + 1))
    BY <1>12, <1>13 DEF s
  <2>3. plan[stack'[n + 1].file].at <= plan[e].at
    <3>1. plan[u].at \in Nat /\ plan[e].at \in Nat
      BY <1>3, <1>4, PlanFacts
    <3>2. plan[u].at <= plan[e].at
      BY <3>1, <1>4, <1>7
    <3>. QED BY <3>2, <1>1 DEF s
  <2>. QED BY <2>1, <2>2, <2>3, <1>14
<1>16. RootsAgain(plan, e, roots, Height(plan, stack', p, 0))
  <2>1. 0 \in 0 .. n
    BY <1>1
  <2>. QED BY <2>1, <1>8, <1>12
<1>17. Resumed(plan, p, e, stack', roots')
  BY <1>1, <1>10, <1>11, <1>15, <1>16 DEF Resumed
<1>. QED BY <1>1, <1>3, <1>17 DEF Again, e

(* What a valid entry brings that did not come yet is as the cache has it.  *)
\* All that a valid entry brings, by its dependencies, is as it was when the
\* entry was made.
LEMMA ValidSpan ==
    ASSUME NEW e \in Files, NEW plan, NEW size, NEW p, NEW gone, NEW tx, NEW c,
           Static(plan, size, e, c), Gathered(plan, size, p, e, gone, tx, c),
           NEW u \in DOMAIN plan, plan[u].from = p, Valid(c, u),
           NEW g \in Between(plan, p, plan[u].at)
    PROVE  Current(c, g) /\ Exists(g) /\ disk[g].time = plan[g].time
<1>1. /\ PlanType(plan) /\ Recorded(plan) /\ DOMAIN c \subseteq DOMAIN plan /\ p \in Nat
  BY DEF Static, Gathered
<1>2. PICK V \in SUBSET DOMAIN c :
          u \in V /\ \A h \in V : Current(c, h) /\ c[h].dependencies \subseteq V
  BY DEF Valid
<1>3. V \in SUBSET Places
  BY <1>1 DEF PlanType, Places
<1>4. ClosedTo(plan, plan[u].at, V)
  <2> SUFFICES ASSUME NEW h \in V \cap DOMAIN plan PROVE Range(plan[h].uses) \subseteq V
    BY DEF ClosedTo
  <2>1. h \in DOMAIN c /\ c[h].dependencies \subseteq V
    BY <1>2
  <2>2. Range(plan[h].uses) \subseteq DOMAIN plan
    BY <1>1, RecordedFacts
  <2>. QED BY <2>1, <2>2 DEF Gathered
<1>5. g \in V
  <2>1. Under(plan, {u}, p, plan[u].at, plan[u].at)
    BY <1>1 DEF Recorded
  <2>2. {u} \subseteq V
    BY <1>2
  <2>3. Between(plan, p, plan[u].at) \subseteq V
    BY <2>1, <2>2, <1>3, <1>4 DEF Under
  <2>. QED BY <2>3
<1>6. Current(c, g) /\ g \in DOMAIN c
  BY <1>2, <1>5
<1>7. g \notin gone
  <2>1. ~(plan[g].at <= p)
    BY <1>1, PlanFacts DEF Between
  <2>. QED BY <2>1 DEF Gathered, Came
<1>8. c[g].time = plan[g].time
  BY <1>6, <1>7 DEF Gathered, Orig
<1>. QED BY <1>6, <1>8 DEF Current

(* What the text of the entry of u brings: the walk is then where the plan  *)
(* had come to to.                                                          *)
Brought(plan, size, p, e, u, gone, to, c) ==
    /\ to \in Nat /\ to <= size
    /\ Came(plan, to) = Came(plan, p) \cup Span(plan, e, u)
    /\ \A g \in Span(plan, e, u) : Current(c, g) /\ Exists(g) /\ disk[g].time = plan[g].time
    /\ \A t \in Came(plan, to) \ (gone \cup {u}), g \in DOMAIN plan :
          g \in Span(plan, e, t) => disk[g].time = plan[g].time
    /\ e \in Came(plan, to) => to = size
    /\ \/ plan[u].at <= p /\ to = p
       \/ p <= plan[u].at /\ to = plan[u].at

\* An entry behind in the plan brings nothing new.
LEMMA BroughtBefore ==
    ASSUME NEW e \in Files, NEW plan, NEW size, NEW p, NEW gone, NEW tx, NEW c,
           Static(plan, size, e, c), Gathered(plan, size, p, e, gone, tx, c),
           NEW u \in DOMAIN plan, u \notin gone, plan[u].at <= p
    PROVE  Brought(plan, size, p, e, u, gone, p, c)
<1>1. /\ PlanType(plan) /\ Recorded(plan) /\ p \in Nat /\ p <= size
      /\ \A g \in DOMAIN plan : plan[g].at <= size
      /\ e \in Came(plan, p) => p = size
  BY DEF Static, Gathered
<1>2. u \in Came(plan, p) /\ u \notin gone
  BY DEF Came
<1>3. Span(plan, e, u) \subseteq Came(plan, p)
  <2>1. CASE u = e
    BY <2>1, <1>1, <1>2 DEF Came, Span
  <2>2. CASE u # e
    BY <2>2, <1>1, PlanFacts DEF Came, Span, Between
  <2>. QED BY <2>1, <2>2
<1>4. \A g \in Span(plan, e, u) : Current(c, g) /\ Exists(g) /\ disk[g].time = plan[g].time
  <2> TAKE g \in Span(plan, e, u)
  <2>1. g \in Came(plan, p) /\ g \in DOMAIN plan
    BY <1>3 DEF Came
  <2>2. Current(c, g)
    BY <2>1 DEF Gathered
  <2>3. disk[g].time = plan[g].time
    BY <2>1, <1>2 DEF Gathered
  <2>. QED BY <2>2, <2>3 DEF Current
<1>5. \A t \in Came(plan, p) \ (gone \cup {u}), g \in DOMAIN plan :
          g \in Span(plan, e, t) => disk[g].time = plan[g].time
  BY DEF Gathered
<1>6. Came(plan, p) = Came(plan, p) \cup Span(plan, e, u)
  BY <1>3
<1>. QED BY <1>1, <1>4, <1>5, <1>6 DEF Brought

\* A valid entry of a module brings the pieces up to where the plan closed
\* it.
LEMMA BroughtPart ==
    ASSUME NEW e \in Files, NEW plan, NEW size, NEW p, NEW gone, NEW tx, NEW c,
           Static(plan, size, e, c), Gathered(plan, size, p, e, gone, tx, c),
           NEW u \in DOMAIN plan, u # e, plan[u].from = p, p < plan[u].at, Valid(c, u),
           \/ plan[u].at < plan[e].at
           \/ u = Prelude /\ p = 0 /\ RootsOf(e) = <<Prelude, e>>
    PROVE  Brought(plan, size, p, e, u, gone, plan[u].at, c)
<1> DEFINE to == plan[u].at
<1>1. /\ PlanType(plan) /\ Recorded(plan) /\ p \in Nat
      /\ \A g \in DOMAIN plan : plan[g].at <= size
  BY DEF Static, Gathered
<1>2. \A g \in DOMAIN plan : plan[g].at \in Nat \ {0} /\ plan[g].from \in Nat
  BY <1>1, RecordedFacts
<1>3. /\ e \in DOMAIN plan /\ size \in Nat
      /\ RootsOf(e) = <<Prelude, e>> => (plan[e].at <= plan[Prelude].at => size = plan[Prelude].at)
  BY SizeFacts
<1>4. to \in Nat /\ to <= size /\ p < to
  BY <1>1, <1>2
<1>5. Span(plan, e, u) = Between(plan, p, to)
  BY DEF Span
<1>6. Came(plan, to) = Came(plan, p) \cup Between(plan, p, to)
  BY <1>1, <1>2, <1>4 DEF Came, Between
<1>7. \A g \in Between(plan, p, to) : Current(c, g) /\ Exists(g) /\ disk[g].time = plan[g].time
  BY ValidSpan
<1>8. e \in Came(plan, to) => to = size /\ p = 0
  BY <1>2, <1>3 DEF Came
<1>9. ASSUME NEW t \in Came(plan, to) \ (gone \cup {u}), NEW g \in DOMAIN plan, g \in Span(plan, e, t)
      PROVE  disk[g].time = plan[g].time
  <2>1. CASE t \in Came(plan, p)
    BY <2>1, <1>9 DEF Gathered
  <2>2. CASE t \in Between(plan, p, to) /\ t # e
    <3>1. g \in Between(plan, plan[t].from, plan[t].at)
      BY <2>2, <1>9 DEF Span
    <3>2. p <= plan[t].from /\ plan[t].at <= to
      BY <2>2, <1>1 DEF Recorded, Between
    <3>3. g \in Between(plan, p, to)
      <4>1. t \in DOMAIN plan /\ plan[t].from < plan[g].at /\ plan[g].at <= plan[t].at
        BY <2>2, <3>1 DEF Between
      <4>. QED BY <4>1, <3>2, <1>1, <1>2, <1>4 DEF Between
    <3>. QED BY <3>3, <1>7
  <2>3. CASE t = e
    <3>1. to = size /\ p = 0
      BY <2>3, <1>8
    <3>2. g \in Between(plan, p, to)
      BY <3>1, <1>1, <1>2 DEF Between
    <3>. QED BY <3>2, <1>7
  <2>. QED BY <2>1, <2>2, <2>3, <1>6
<1>10. /\ Came(plan, to) = Came(plan, p) \cup Span(plan, e, u)
       /\ \A g \in Span(plan, e, u) : Current(c, g) /\ Exists(g) /\ disk[g].time = plan[g].time
  BY <1>5, <1>6, <1>7
<1>11. p <= to
  BY <1>1, <1>4
<1> HIDE DEF to
<1>12. to = plan[u].at
  BY DEF to
<1>13. \A t \in Came(plan, to) \ (gone \cup {u}), g \in DOMAIN plan :
          g \in Span(plan, e, t) => disk[g].time = plan[g].time
  BY <1>9
<1>14. Brought(plan, size, p, e, u, gone, to, c)
  BY <1>4, <1>8, <1>10, <1>11, <1>12, <1>13 DEF Brought
<1>. QED BY <1>14 DEF to

\* A valid entry of the program brings all that is in the plan.
LEMMA BroughtAll ==
    ASSUME NEW e \in Files, NEW plan, NEW size, NEW p, NEW gone, NEW tx, NEW c,
           Static(plan, size, e, c), Gathered(plan, size, p, e, gone, tx, c),
           e \in DOMAIN plan, plan[e].from = p, p < plan[e].at, Valid(c, e),
           \/ RootsOf(e) = <<e>> /\ p = 0
           \/ RootsOf(e) = <<Prelude, e>> /\ p = plan[Prelude].at
    PROVE  Brought(plan, size, p, e, e, gone, plan[e].at, c)
<1> DEFINE to == plan[e].at
<1>1. /\ PlanType(plan) /\ Recorded(plan) /\ p \in Nat
      /\ \A g \in DOMAIN plan : plan[g].at <= size
  BY DEF Static, Gathered
<1>2. \A g \in DOMAIN plan : plan[g].at \in Nat \ {0} /\ plan[g].from \in Nat
  BY <1>1, RecordedFacts
<1>3. to = size
  <2>1. /\ RootsOf(e) = <<e>> => size = plan[e].at
        /\ RootsOf(e) = <<Prelude, e>> => (plan[Prelude].at <= plan[e].at => size = plan[e].at)
    BY SizeFacts
  <2>. QED BY <2>1, <1>1, <1>2
<1>4. to \in Nat /\ p < to
  BY <1>1, <1>2
<1>5. Span(plan, e, e) = DOMAIN plan /\ Came(plan, to) = DOMAIN plan /\ Came(plan, p) \subseteq DOMAIN plan
  BY <1>1, <1>3 DEF Span, Came
<1>6. \A g \in DOMAIN plan : Current(c, g) /\ Exists(g) /\ disk[g].time = plan[g].time
  <2> TAKE g \in DOMAIN plan
  <2>1. CASE plan[g].at <= p
    <3>1. Current(c, g)
      BY <2>1 DEF Came, Gathered
    <3>2. p # 0
      BY <2>1, <1>1, <1>2
    <3>3. RootsOf(e) = <<Prelude, e>> /\ p = plan[Prelude].at
      BY <3>2
    <3>4. Prelude \in Range(RootsOf(e))
      BY <3>3, SizeFacts
    <3>5. disk[g].time = plan[g].time /\ Exists(g)
      BY <2>1, <3>3, <3>4 DEF Static, PreludeAs
    <3>. QED BY <3>1, <3>5
  <2>2. CASE ~(plan[g].at <= p)
    <3>1. g \in Between(plan, p, to)
      BY <2>2, <1>1, <1>2, <1>3 DEF Between
    <3>. QED BY <3>1, ValidSpan
  <2>. QED BY <2>1, <2>2
<1>7. /\ Came(plan, to) = Came(plan, p) \cup Span(plan, e, e)
      /\ \A g \in Span(plan, e, e) : Current(c, g) /\ Exists(g) /\ disk[g].time = plan[g].time
      /\ \A t \in Came(plan, to) \ (gone \cup {e}), g \in DOMAIN plan :
            g \in Span(plan, e, t) => disk[g].time = plan[g].time
  BY <1>5, <1>6
<1>8. p <= to /\ to <= size
  BY <1>1, <1>3, <1>4
<1> HIDE DEF to
<1>9. to = plan[e].at
  BY DEF to
<1>10. Brought(plan, size, p, e, e, gone, to, c)
  BY <1>3, <1>4, <1>7, <1>8, <1>9 DEF Brought
<1>. QED BY <1>10 DEF to

\* The load once more takes the text of a valid entry: none of it is old.
LEMMA AgainBrought ==
    ASSUME IInv, Reuse, call.steady, NEW plan, NEW size, NEW p, AgainLoad(plan, size, p)
    PROVE  \E to : Brought(plan, size, p, call.entry, Target, included, to, cache)
<1> DEFINE e == call.entry
           u == Target
<1>1. Pending /\ Exists(u) /\ Unseen(u) /\ Valid(cache, u) /\ Walking
  BY ReuseFacts DEF IInv, Pending
<1>2. /\ e \in Files /\ e \in DOMAIN plan
      /\ Static(plan, size, e, cache) /\ p \in Nat
      /\ Gathered(plan, size, p, e, included, text, cache)
      /\ Resumed(plan, p, e, stack, roots)
  BY <1>1, AgainFacts
<1>3. /\ u \in DOMAIN plan
      /\ plan[u].at <= p \/ (plan[u].from = p /\ p < plan[u].at)
      /\ stack # <<>> => plan[u].at < plan[e].at
      /\ stack = <<>> =>
            \/ /\ u = e
               /\ \/ RootsOf(e) = <<e>> /\ p = 0
                  \/ RootsOf(e) = <<Prelude, e>> /\ e # Prelude /\ p = plan[Prelude].at
            \/ u = Prelude /\ e # Prelude /\ RootsOf(e) = <<Prelude, e>> /\ p = 0
  BY <1>1, AgainTarget
<1>4. u \notin included /\ (stack # <<>> => u # e)
  <2>1. plan[e].at \in Nat
    BY <1>2, PlanFacts DEF Static
  <2>. QED BY <2>1, <1>1, <1>3 DEF Unseen
<1> HIDE DEF e, u
<1>5. CASE plan[u].at <= p
  <2>1. Brought(plan, size, p, e, u, included, p, cache)
    BY <1>2, <1>3, <1>4, <1>5, BroughtBefore
  <2>. QED BY <2>1 DEF e, u
<1>6. CASE plan[u].from = p /\ p < plan[u].at /\ u # e
  <2>1. Brought(plan, size, p, e, u, included, plan[u].at, cache)
    BY <1>1, <1>2, <1>3, <1>6, BroughtPart
  <2>. QED BY <2>1 DEF e, u
<1>7. CASE plan[u].from = p /\ p < plan[u].at /\ u = e
  <2>1. Brought(plan, size, p, e, e, included, plan[e].at, cache)
    BY <1>1, <1>2, <1>3, <1>4, <1>7, BroughtAll
  <2>. QED BY <2>1, <1>7 DEF e, u
<1>. QED BY <1>3, <1>5, <1>6, <1>7

\* The load once more moves on by all that a valid entry holds.
LEMMA AgainReuse ==
    ASSUME IInv, Reuse, call.steady, NEW plan, NEW size, NEW p, AgainLoad(plan, size, p)
    PROVE  \E to : Again(plan, size, to, call'.entry, stack', roots', included', text', cache')
<1> DEFINE e == call.entry
           u == Target
           content == cache[u].content
           m == Len(text)
<1>1. /\ Pending /\ u \in Files /\ Unseen(u) /\ Exists(u) /\ u \in DOMAIN cache /\ Walking
      /\ stack' = StackAfter(stack, u) /\ roots' = RootsAfter(stack, roots)
      /\ included' = included \cup {u}
      /\ content \in Seq(Piece) /\ Len(content) \in Nat /\ m \in Nat
      /\ Len(text') = m + Len(content)
      /\ \A i \in 1 .. Len(text') : text'[i] = IF i <= m THEN text[i] ELSE content[i - m]
      /\ UNCHANGED <<disk, cache, call>>
  BY ReuseFacts DEF IInv, Pending, CacheEntry
<1>2. /\ e \in Files /\ p \in Nat /\ DiskType
      /\ PlanType(plan) /\ Recorded(plan) /\ UsesAs(plan)
      /\ Followed(plan, RootsOf(e), Len(RootsOf(e)), 0)
      /\ stack \in Seq(Frame) /\ roots \in Seq(Files)
      /\ \A i \in 1 .. Len(stack) : Exists(stack[i].file)
      /\ Static(plan, size, e, cache)
      /\ Gathered(plan, size, p, e, included, text, cache)
      /\ Resumed(plan, p, e, stack, roots)
  BY <1>1, AgainFacts
<1>3. /\ roots # <<>>
      /\ stack # <<>> => stack[Len(stack)].uses # <<>>
      /\ u = IF stack = <<>> THEN Head(roots) ELSE Resolve(stack[Len(stack)].file, Head(stack[Len(stack)].uses))
      /\ u \in DOMAIN plan
  BY <1>1, AgainTarget
<1>4. PICK to : Brought(plan, size, p, e, u, included, to, cache)
  BY AgainBrought
<1>5. Range(content) = Pieces(plan, Span(plan, e, u)) /\ DOMAIN content = 1 .. Len(content)
  <2>1. u \notin included
    BY <1>1 DEF Unseen
  <2>2. Orig(plan, e, cache, u)
    BY <2>1, <1>1, <1>2 DEF Gathered
  <2>3. DOMAIN content = 1 .. Len(content)
    BY <1>1, LenProperties
  <2>. QED BY <2>2, <2>3 DEF Orig
<1> HIDE DEF e, u, content, m
<1>6. /\ to \in Nat /\ to <= size
      /\ Came(plan, to) = Came(plan, p) \cup Span(plan, e, u)
      /\ \A g \in Span(plan, e, u) : Current(cache, g) /\ Exists(g) /\ disk[g].time = plan[g].time
      /\ \A t \in Came(plan, to) \ (included \cup {u}), g \in DOMAIN plan :
            g \in Span(plan, e, t) => disk[g].time = plan[g].time
      /\ e \in Came(plan, to) => to = size
      /\ \/ plan[u].at <= p /\ to = p
         \/ p <= plan[u].at /\ to = plan[u].at
  BY <1>4 DEF Brought
<1>7. Resumed(plan, to, e, StackAfter(stack, u), RootsAfter(stack, roots))
  BY <1>1, <1>2, <1>3, <1>6, AgainAdvance
<1>8. u \in Came(plan, to)
  BY <1>2, <1>3, <1>6, PlanFacts DEF Came
<1>9. /\ {text[i][1] : i \in 1 .. m} = Came(plan, p)
      /\ \A i \in 1 .. m : Exists(text[i][1]) /\ text[i][2] = disk[text[i][1]].time
      /\ included \subseteq Came(plan, p)
      /\ \A g \in Came(plan, p) : Current(cache, g)
      /\ \A g \in DOMAIN cache : g \in included \/ Orig(plan, e, cache, g)
      /\ \A g \in DOMAIN cache :
            \/ cache[g].dependencies = Range(plan[g].uses) /\ (g = e => g \in included)
            \/ g = e /\ cache[g].dependencies = DOMAIN plan
  BY <1>2 DEF Gathered, m
<1>10. \A j \in 1 .. Len(content) : \E g \in Span(plan, e, u) : content[j] = <<g, plan[g].time>>
  BY <1>5 DEF Pieces, Range
<1>11. \A g \in Span(plan, e, u) : \E j \in 1 .. Len(content) : content[j] = <<g, plan[g].time>>
  BY <1>5 DEF Pieces, Range
<1>12. /\ \A i \in 1 .. m : i \in 1 .. Len(text') /\ text'[i] = text[i]
       /\ \A j \in 1 .. Len(content) : m + j \in 1 .. Len(text') /\ text'[m + j] = content[j]
       /\ \A i \in 1 .. Len(text') : i \in 1 .. m \/ \E j \in 1 .. Len(content) : i = m + j
  <2>1. \A i \in 1 .. m : i \in 1 .. Len(text') /\ text'[i] = text[i]
    BY <1>1
  <2>2. \A j \in 1 .. Len(content) : m + j \in 1 .. Len(text') /\ text'[m + j] = content[j]
    <3> TAKE j \in 1 .. Len(content)
    <3>1. m + j \in 1 .. Len(text') /\ ~(m + j <= m) /\ (m + j) - m = j
      BY <1>1
    <3>. QED BY <3>1, <1>1
  <2>3. \A i \in 1 .. Len(text') : i \in 1 .. m \/ (i - m \in 1 .. Len(content) /\ i = m + (i - m))
    BY <1>1
  <2>. QED BY <2>1, <2>2, <2>3
<1>13. {text'[i][1] : i \in 1 .. Len(text')} = Came(plan, to)
  <2>1. ASSUME NEW i \in 1 .. Len(text') PROVE text'[i][1] \in Came(plan, to)
    <3>1. CASE i \in 1 .. m
      BY <3>1, <1>6, <1>9, <1>12
    <3>2. CASE \E j \in 1 .. Len(content) : i = m + j
      BY <3>2, <1>6, <1>10, <1>12
    <3>. QED BY <3>1, <3>2, <1>12
  <2>2. ASSUME NEW g \in Came(plan, to) PROVE \E i \in 1 .. Len(text') : text'[i][1] = g
    <3>1. CASE g \in Came(plan, p)
      <4>1. PICK i \in 1 .. m : g = text[i][1]
        BY <3>1, <1>9
      <4>. QED BY <4>1, <1>12
    <3>2. CASE g \in Span(plan, e, u)
      <4>1. PICK j \in 1 .. Len(content) : content[j] = <<g, plan[g].time>>
        BY <3>2, <1>11
      <4>. QED BY <4>1, <1>12
    <3>. QED BY <3>1, <3>2, <1>6
  <2>. QED BY <2>1, <2>2
<1>14. \A i \in 1 .. Len(text') : Exists(text'[i][1]) /\ text'[i][2] = disk[text'[i][1]].time
  <2> TAKE i \in 1 .. Len(text')
  <2>1. CASE i \in 1 .. m
    BY <2>1, <1>9, <1>12
  <2>2. CASE \E j \in 1 .. Len(content) : i = m + j
    <3>1. PICK g \in Span(plan, e, u) : text'[i] = <<g, plan[g].time>>
      BY <2>2, <1>10, <1>12
    <3>. QED BY <3>1, <1>6
  <2>. QED BY <2>1, <2>2, <1>12
<1>15. \A g \in Came(plan, to) : Current(cache, g)
  BY <1>6, <1>9
<1>16. Gathered(plan, size, to, e, included \cup {u}, text', cache)
  <2>1. included \cup {u} \subseteq Came(plan, to)
    BY <1>6, <1>8, <1>9
  <2>. QED BY <2>1, <1>6, <1>9, <1>13, <1>14, <1>15 DEF Gathered
<1>. QED BY <1>1, <1>2, <1>7, <1>16 DEF Again, e

\* The load once more closes a file where the plan did.
LEMMA CloseAt ==
    ASSUME IInv, Close, call.steady, NEW plan, NEW size, NEW p, AgainLoad(plan, size, p)
    PROVE  LET f == Top.file
               e == call.entry
               to == plan[f].at
           IN /\ f \in DOMAIN plan /\ to \in Nat /\ to <= size /\ p + 1 = to
              /\ plan[f].from \in Nat /\ plan[f].from <= to
              /\ Top.deps = Range(plan[f].uses)
              /\ Came(plan, to) = Came(plan, p) \cup {f}
              /\ e \in Came(plan, to) => to = size
              /\ Resumed(plan, plan[f].from, e, Rest(stack), roots)
<1> DEFINE f == Top.file
           e == call.entry
           to == plan[f].at
           n == Len(stack)
           U == plan[f].uses
           b == Rest(stack)
<1>1. /\ n \in Nat \ {0} /\ Top = stack[n] /\ Top.uses = <<>> /\ Walking /\ stack # <<>>
  BY CloseFacts DEF IInv, Close
<1>2. /\ e \in Files /\ e \in DOMAIN plan /\ p \in Nat /\ p <= size
      /\ PlanType(plan) /\ Recorded(plan)
      /\ stack \in Seq(Frame)
      /\ Static(plan, size, e, cache)
      /\ Gathered(plan, size, p, e, included, text, cache)
      /\ Resumed(plan, p, e, stack, roots)
  BY <1>1, AgainFacts
<1>3. /\ stack # <<>> => stack[1].file = e
      /\ stack # <<>> /\ Prelude \in Range(RootsOf(e)) => plan[Prelude].at < plan[e].at \/ e = Prelude
      /\ \A i \in 1 .. n : /\ FrameAgain(plan, stack[i], Height(plan, stack, p, i))
                          /\ plan[stack[i].file].at <= plan[e].at
      /\ RootsAgain(plan, e, roots, Height(plan, stack, p, 0))
  BY <1>2 DEF Resumed
<1>4. n \in 1 .. n /\ Height(plan, stack, p, n) = p
  BY <1>1 DEF Height
<1>5. f \in DOMAIN plan /\ FrameAgain(plan, Top, p) /\ to <= plan[e].at
  BY <1>1, <1>3, <1>4 DEF FrameAgain
<1>6. /\ U \in Seq(Files) /\ Len(U) \in Nat /\ to \in Nat \ {0} /\ plan[f].from \in Nat /\ plan[f].from < to
      /\ Range(U) \subseteq DOMAIN plan /\ IsPos(plan, to - 1, plan[f].from, Range(U))
  BY <1>2, <1>5, RecordedFacts DEF Recorded
<1>7. First(U, Len(U)) = Range(U)
  <2> HIDE DEF U
  <2>. QED BY <1>6, FirstFacts
<1>8. Top.deps = Range(U) /\ IsPos(plan, p, plan[f].from, Range(U))
  <2>1. Len(U) - Len(Top.uses) = Len(U)
    BY <1>1, <1>6
  <2>. QED BY <2>1, <1>5, <1>7 DEF FrameAgain
<1> HIDE DEF U, to
<1>9. p = to - 1
  <2>1. to - 1 \in Nat
    BY <1>6
  <2>. QED BY <2>1, <1>2, <1>6, <1>8, PosUnique
<1>10. \A g \in DOMAIN plan : plan[g].at \in Nat /\ (plan[g].at = to => g = f)
  BY <1>2, <1>5, PlanFacts DEF Recorded, to
<1>11. Came(plan, to) = Came(plan, p) \cup {f}
  <2>1. ASSUME NEW g \in DOMAIN plan PROVE plan[g].at <= to <=> (plan[g].at <= p \/ g = f)
    <3>1. plan[g].at <= to <=> (plan[g].at <= p \/ plan[g].at = to)
      BY <1>2, <1>6, <1>9, <1>10
    <3>2. plan[f].at = to
      BY DEF to
    <3>. QED BY <3>1, <3>2, <1>10
  <2>. QED BY <2>1, <1>5 DEF Came
<1>12. to <= size
  BY <1>2, <1>5 DEF Static, to
<1>13. e \in Came(plan, to) => to = size
  <2> SUFFICES ASSUME e \in Came(plan, to) PROVE to = size
    OBVIOUS
  <2>1. plan[e].at = to
    BY <1>5, <1>6, <1>10, <1>2 DEF Came
  <2>2. /\ RootsOf(e) = <<e>> => size = plan[e].at
        /\ RootsOf(e) = <<Prelude, e>> =>
              /\ Prelude \in DOMAIN plan /\ Prelude \in Range(RootsOf(e))
              /\ plan[Prelude].at <= plan[e].at => size = plan[e].at
    BY <1>2, SizeFacts
  <2>3. RootsOf(e) = <<e>> \/ (RootsOf(e) = <<Prelude, e>> /\ e # Prelude)
    BY <1>2, RootsSeq
  <2>4. RootsOf(e) = <<Prelude, e>> /\ e # Prelude => plan[Prelude].at <= plan[e].at
    BY <1>1, <1>2, <1>3, <1>10, <2>2
  <2>. QED BY <2>1, <2>2, <2>3, <2>4
<1>14. b \in Seq(Frame) /\ Len(b) = n - 1 /\ \A i \in 1 .. n - 1 : b[i] = stack[i]
  BY <1>1, <1>2, RestFacts
<1> HIDE DEF b
<1>15. \A i \in 0 .. n - 1 : Height(plan, b, plan[f].from, i) = Height(plan, stack, p, i)
  <2> TAKE i \in 0 .. n - 1
  <2>1. Height(plan, stack, p, i) = plan[stack[i + 1].file].from
    BY <1>1 DEF Height
  <2>2. CASE i = n - 1
    <3>1. i + 1 = n /\ i = Len(b)
      BY <2>2, <1>1, <1>14
    <3>. QED BY <2>1, <3>1, <1>1 DEF Height
  <2>3. CASE i # n - 1
    <3>1. i + 1 \in 1 .. n - 1 /\ i # Len(b)
      BY <2>3, <1>1, <1>14
    <3>. QED BY <2>1, <3>1, <1>14 DEF Height
  <2>. QED BY <2>2, <2>3
<1>16. \A i \in 1 .. n - 1 : i \in 1 .. n /\ i \in 0 .. n - 1
  BY <1>1
<1>17. Resumed(plan, plan[f].from, e, b, roots)
  <2>1. b # <<>> => b[1].file = e
    <3>1. b # <<>> => 1 \in 1 .. n - 1
      BY <1>1, <1>14, EmptySeq
    <3>. QED BY <3>1, <1>1, <1>3, <1>14
  <2>2. \A i \in 1 .. Len(b) : /\ FrameAgain(plan, b[i], Height(plan, b, plan[f].from, i))
                              /\ plan[b[i].file].at <= plan[e].at
    BY <1>3, <1>14, <1>15, <1>16
  <2>3. RootsAgain(plan, e, roots, Height(plan, b, plan[f].from, 0))
    <3>1. 0 \in 0 .. n - 1
      BY <1>1
    <3>. QED BY <3>1, <1>3, <1>15
  <2>. QED BY <2>1, <2>2, <2>3, <1>1, <1>3 DEF Resumed
<1>18. p + 1 = to /\ plan[f].from <= to /\ to \in Nat
  BY <1>2, <1>6, <1>9
<1>. QED BY <1>5, <1>6, <1>8, <1>11, <1>12, <1>13, <1>17, <1>18 DEF U, to, b

\* The load once more closes a file and caches it with the text it has now.
LEMMA AgainClose ==
    ASSUME IInv, Close, call.op = "load", call.steady, NEW plan, NEW size, NEW p, AgainLoad(plan, size, p)
    PROVE  \E to : Again(plan, size, to, call'.entry, stack', roots', included', text', cache')
<1> DEFINE f == Top.file
           e == call.entry
           to == plan[f].at
           n == Len(stack)
           b == Rest(stack)
           m == Len(text)
<1>1. /\ n \in Nat \ {0} /\ n \in 1 .. n /\ Top = stack[n] /\ Top \in Frame /\ f \in Files /\ Walking /\ stack # <<>>
      /\ roots # <<>>
      /\ m \in Nat /\ Len(text') = m + 1 /\ text' \in Seq(Piece)
      /\ \A i \in 1 .. m : text'[i] = text[i]
      /\ text'[m + 1] = <<f, Top.time>>
      /\ included' = included \cup {f}
      /\ UNCHANGED <<disk, call>>
  BY CloseFacts DEF IInv, Close, Frame
<1>2. /\ e \in Files /\ e \in DOMAIN plan /\ p \in Nat /\ DiskType
      /\ PlanType(plan) /\ Recorded(plan) /\ UsesAs(plan)
      /\ Followed(plan, RootsOf(e), Len(RootsOf(e)), 0)
      /\ stack \in Seq(Frame) /\ roots \in Seq(Files)
      /\ \A i \in 1 .. Len(stack) : Exists(stack[i].file) /\ stack[i] \in Frame
      /\ Static(plan, size, e, cache)
      /\ Gathered(plan, size, p, e, included, text, cache)
  BY <1>1, AgainFacts
<1>3. /\ f \in DOMAIN plan /\ to \in Nat /\ to <= size
      /\ plan[f].from \in Nat /\ plan[f].from <= to
      /\ Top.deps = Range(plan[f].uses)
      /\ Came(plan, to) = Came(plan, p) \cup {f}
      /\ e \in Came(plan, to) => to = size
      /\ Resumed(plan, plan[f].from, e, b, roots)
  BY CloseAt
<1>4. Exists(f) /\ Top.time = disk[f].time
  BY <1>1 DEF IInv, SteadyInv, AsRead
<1>5. b \in Seq(Frame) /\ Len(b) = n - 1 /\ \A i \in 1 .. n - 1 : b[i] = stack[i]
  BY <1>1, <1>2, RestFacts
<1>6. /\ b = <<>> <=> n = 1
      /\ b # <<>> => n - 1 \in 1 .. n - 1
  BY <1>1, <1>5, EmptySeq
<1>7. f = IF b = <<>> THEN Head(roots) ELSE Resolve(b[Len(b)].file, Head(b[Len(b)].uses))
  <2>1. Chain(stack, roots)
    BY <1>1 DEF IInv, SteadyInv
  <2>2. CASE b = <<>>
    BY <2>1, <2>2, <1>1, <1>6 DEF Chain
  <2>3. CASE b # <<>>
    <3>1. stack[(n - 1) + 1].file = Resolve(stack[n - 1].file, Head(stack[n - 1].uses))
      BY <2>1, <2>3, <1>6 DEF Chain
    <3>2. (n - 1) + 1 = n
      BY <1>1
    <3>. QED BY <2>3, <3>1, <3>2, <1>1, <1>5, <1>6
  <2>. QED BY <2>2, <2>3
<1>8. /\ b # <<>> => b[Len(b)].uses # <<>>
      /\ \A i \in 1 .. Len(b) : Exists(b[i].file)
  <2>1. \A i \in 1 .. n - 1 : i \in 1 .. n
    BY <1>1
  <2>2. \A i \in 1 .. n - 1 : stack[i].uses # <<>>
    BY DEF IInv, TypeOK, Shape
  <2>. QED BY <2>1, <2>2, <1>2, <1>5, <1>6
<1>9. stack' = StackAfter(b, f) /\ roots' = RootsAfter(b, roots)
  BY DEF Close
<1>10. /\ DOMAIN cache' = DOMAIN cache \cup {f}
       /\ \A g \in DOMAIN cache : g # f => cache'[g] = cache[g]
       /\ cache'[f].dependencies = Range(plan[f].uses)
       /\ cache'[f].time = disk[f].time
  <2> DEFINE c == SubSeq(text', Top.from + 1, Len(text'))
  <2>1. cache' = Cached(cache, f, c, Top.deps)
    BY DEF Close
  <2>2. Top.deps \in SUBSET Files /\ CacheType
    BY <1>1 DEF Frame, IInv, TypeOK
  <2>3. c \in Seq(Piece)
    BY CloseContent DEF IInv
  <2>4. /\ Exists(f) /\ Top.deps = Range(plan[f].uses)
        /\ DiskType /\ f \in Files
    BY <1>1, <1>2, <1>3, <1>4
  <2> HIDE DEF c, f
  <2>5. /\ DOMAIN cache' = DOMAIN cache \cup {f}
        /\ \A g \in DOMAIN cache : g # f => cache'[g] = cache[g]
        /\ cache'[f].dependencies = Top.deps
        /\ cache'[f].time = disk[f].time
    BY <2>1, <2>2, <2>3, <2>4, CachedType
  <2>. QED BY <2>4, <2>5
<1> HIDE DEF f, e, to, b, m, n
<1>11. Resumed(plan, to, e, stack', roots')
  <2>1. to = plan[f].at
    BY DEF to
  <2> DEFINE lo == plan[f].from
  <2>2. /\ lo \in Nat /\ lo <= plan[f].at
        /\ Resumed(plan, lo, e, b, roots)
    BY <2>1, <1>3
  <2> HIDE DEF lo
  <2>3. /\ DiskType /\ PlanType(plan) /\ Recorded(plan) /\ UsesAs(plan) /\ e \in Files
        /\ Followed(plan, RootsOf(e), Len(RootsOf(e)), 0)
        /\ b \in Seq(Frame) /\ roots \in Seq(Files) /\ f \in Files /\ Exists(f)
        /\ to \in Nat /\ roots # <<>>
    BY <1>1, <1>2, <1>3, <1>4, <1>5
  <2>4. Resumed(plan, to, e, StackAfter(b, f), RootsAfter(b, roots))
    BY <2>1, <2>2, <2>3, <1>7, <1>8, AgainAdvance
  <2>. QED BY <2>4, <1>9
<1>12. /\ {text[i][1] : i \in 1 .. m} = Came(plan, p)
       /\ \A i \in 1 .. m : Exists(text[i][1]) /\ text[i][2] = disk[text[i][1]].time
       /\ included \subseteq Came(plan, p)
       /\ \A g \in Came(plan, p) : Current(cache, g)
       /\ \A g \in DOMAIN cache : g \in included \/ Orig(plan, e, cache, g)
       /\ \A g \in DOMAIN cache :
             \/ cache[g].dependencies = Range(plan[g].uses) /\ (g = e => g \in included)
             \/ g = e /\ cache[g].dependencies = DOMAIN plan
       /\ \A t \in Came(plan, p) \ included, g \in DOMAIN plan :
             g \in Span(plan, e, t) => disk[g].time = plan[g].time
  BY <1>2 DEF Gathered, m
<1>13. \A i \in 1 .. m + 1 : i \in 1 .. m \/ i = m + 1
  BY <1>1
<1>14. m + 1 \in 1 .. m + 1 /\ \A i \in 1 .. m : i \in 1 .. m + 1
  BY <1>1
<1>15. {text'[i][1] : i \in 1 .. Len(text')} = Came(plan, to)
  <2>1. ASSUME NEW i \in 1 .. m + 1 PROVE text'[i][1] \in Came(plan, to)
    BY <1>1, <1>3, <1>12, <1>13
  <2>2. ASSUME NEW g \in Came(plan, to) PROVE \E i \in 1 .. m + 1 : text'[i][1] = g
    <3>1. CASE g \in Came(plan, p)
      <4>1. PICK i \in 1 .. m : g = text[i][1]
        BY <3>1, <1>12
      <4>. QED BY <4>1, <1>1, <1>14
    <3>2. CASE g = f
      BY <3>2, <1>1, <1>14
    <3>. QED BY <3>1, <3>2, <1>3
  <2>. QED BY <2>1, <2>2, <1>1
<1>16. \A i \in 1 .. Len(text') : Exists(text'[i][1]) /\ text'[i][2] = disk[text'[i][1]].time
  BY <1>1, <1>4, <1>12, <1>13
<1>17. \A g \in Came(plan, to) : Current(cache', g)
  BY <1>3, <1>4, <1>10, <1>12 DEF Current
<1>18. \A g \in DOMAIN cache' : g \in included' \/ Orig(plan, e, cache', g)
  BY <1>1, <1>10, <1>12 DEF Orig
<1>19. \A g \in DOMAIN cache' :
             \/ cache'[g].dependencies = Range(plan[g].uses) /\ (g = e => g \in included')
             \/ g = e /\ cache'[g].dependencies = DOMAIN plan
  BY <1>1, <1>10, <1>12
<1>20. \A t \in Came(plan, to) \ included', g \in DOMAIN plan :
             g \in Span(plan, e, t) => disk[g].time = plan[g].time
  BY <1>1, <1>3, <1>12
<1>21. included' \subseteq Came(plan, to)
  BY <1>1, <1>3, <1>12
<1>22. Gathered(plan, size, to, e, included', text', cache')
  BY <1>3, <1>15, <1>16, <1>17, <1>18, <1>19, <1>20, <1>21 DEF Gathered
<1>23. Static(plan, size, e, cache')
  <2>1. DOMAIN cache' \subseteq DOMAIN plan
    BY <1>2, <1>3, <1>10 DEF Static
  <2>2. PreludeAs(plan, cache) => PreludeAs(plan, cache')
    BY <1>10 DEF PreludeAs
  <2>. QED BY <2>1, <2>2, <1>2 DEF Static
<1>24. Again(plan, size, to, e, stack', roots', included', text', cache')
  BY <1>11, <1>22, <1>23 DEF Again
<1>. QED BY <1>1, <1>24 DEF e

\* The load once more begins with the cache as the plan says.
LEMMA AgainBegin ==
    ASSUME NEW e \in Files, NEW plan, NEW size, Known(plan, size, e, cache)
    PROVE  Again(plan, size, 0, e, <<>>, RootsOf(e), {}, <<>>, cache)
<1> DEFINE U == RootsOf(e)
<1>1. /\ Static(plan, size, e, cache) /\ PlanType(plan) /\ Recorded(plan) /\ size \in Nat
      /\ \A g \in DOMAIN cache :
            /\ Orig(plan, e, cache, g)
            /\ cache[g].dependencies = IF g = e THEN DOMAIN plan ELSE Range(plan[g].uses)
  BY DEF Known, Static
<1>2. Came(plan, 0) = {}
  <2>1. \A g \in DOMAIN plan : plan[g].at \in Nat \ {0}
    BY <1>1, RecordedFacts
  <2>. QED BY <2>1 DEF Came
<1>3. {<<>>[i][1] : i \in 1 .. Len(<<>>)} = {} /\ 1 .. Len(<<>>) = {}
  OBVIOUS
<1>4. Gathered(plan, size, 0, e, {}, <<>>, cache)
  BY <1>1, <1>2, <1>3 DEF Gathered
<1>5. U \in Seq(Files) /\ Len(U) \in Nat /\ First(U, 0) = {}
  BY RootsSeq
<1>6. RootsAgain(plan, e, U, 0)
  <2> HIDE DEF U
  <2>1. Suffix(U, U) /\ Len(U) - Len(U) = 0
    BY <1>5, SuffixWhole
  <2>2. IsPos(plan, 0, 0, {})
    BY DEF IsPos
  <2>. QED BY <2>1, <2>2, <1>5 DEF RootsAgain, U
<1>7. Height(plan, <<>>, 0, 0) = 0
  BY DEF Height
<1>8. Resumed(plan, 0, e, <<>>, U)
  BY <1>3, <1>6, <1>7 DEF Resumed
<1>. QED BY <1>1, <1>4, <1>8 DEF Again

\* The load once more ends: all the files of the plan are there and in the
\* text as they are on disk, and they are those needed.
LEMMA AgainReturn ==
    ASSUME IInv, Return, call.steady, NEW plan, NEW size, NEW p, AgainLoad(plan, size, p)
    PROVE  Loadable(call.entry) /\ Range(text) = OnDisk(NeededBy(call.entry))
<1> DEFINE e == call.entry
           U == RootsOf(e)
           all == DOMAIN plan
<1>1. Walking /\ stack = <<>> /\ roots = <<>> /\ text \in Seq(Piece)
  BY DEF Return, IInv, TypeOK, WalkType
<1>2. /\ e \in Files /\ p \in Nat /\ size \in Nat /\ DiskType
      /\ PlanType(plan) /\ Recorded(plan) /\ UsesAs(plan)
      /\ Static(plan, size, e, cache)
      /\ Gathered(plan, size, p, e, included, text, cache)
      /\ Resumed(plan, p, e, stack, roots)
  BY <1>1, AgainFacts
<1> HIDE DEF e
<1>3. /\ Range(U) \subseteq all /\ IsPos(plan, size, 0, Range(U)) /\ Len(U) \in Nat
      /\ First(U, Len(U)) = Range(U)
  BY <1>2, SizeFacts, RootsSeq
<1> HIDE DEF U
<1>4. IsPos(plan, p, 0, Range(U))
  <2>1. Height(plan, <<>>, p, 0) = p
    BY DEF Height
  <2>2. RootsAgain(plan, e, <<>>, p)
    BY <2>1, <1>1, <1>2 DEF Resumed
  <2>3. Len(U) - Len(<<>>) = Len(U)
    BY <1>3
  <2>. QED BY <2>2, <2>3, <1>3 DEF RootsAgain, U
<1>5. p = size
  BY <1>2, <1>3, <1>4, PosUnique
<1>6. Came(plan, p) = all
  BY <1>2, <1>5 DEF Static, Came
<1>7. \A g \in all : Exists(g)
  BY <1>2, <1>6 DEF Gathered, Current
<1>8. \A g \in all : /\ Uses[g] = Range(plan[g].uses)
                    /\ Uses[g] \subseteq all
                    /\ \A u \in Uses[g] : plan[u].at < plan[g].at
                    /\ plan[g].at \in Nat
  <2> TAKE g \in all
  <2>1. /\ plan[g].uses \in Seq(Files) /\ Range(plan[g].uses) \subseteq all
        /\ \A u \in Range(plan[g].uses) : plan[u].at < plan[g].at
        /\ \A j \in 1 .. Len(plan[g].uses) : plan[g].uses[j] \in Range(plan[g].uses)
        /\ plan[g].at \in Nat
    BY <1>2, RecordedFacts
  <2>2. /\ Exists(g) /\ Len(Resolved(g)) = Len(disk[g].uses) /\ Range(Resolved(g)) = Uses[g]
        /\ Resolved(g) \in Seq(Places) /\ Len(disk[g].uses) = Len(plan[g].uses)
    BY <1>2, <1>7, ResolvedFacts DEF UsesAs
  <2>3. \A j \in 1 .. Len(plan[g].uses) : Resolved(g)[j] = plan[g].uses[j]
    <3> TAKE j \in 1 .. Len(plan[g].uses)
    <3>1. Exists(plan[g].uses[j]) /\ j \in 1 .. Len(disk[g].uses)
      BY <2>1, <2>2, <1>7
    <3>2. Resolved(g)[j] = IF Exists(plan[g].uses[j]) THEN plan[g].uses[j] ELSE Unresolved
      BY <3>1, <2>2, <1>2 DEF UsesAs
    <3>. QED BY <3>1, <3>2
  <2>4. DOMAIN Resolved(g) = 1 .. Len(plan[g].uses) /\ DOMAIN plan[g].uses = 1 .. Len(plan[g].uses)
    BY <2>1, <2>2, LenProperties
  <2>5. Range(Resolved(g)) = Range(plan[g].uses)
    <3>1. \A x : x \in Range(Resolved(g)) <=> \E j \in 1 .. Len(plan[g].uses) : x = Resolved(g)[j]
      BY <2>4 DEF Range
    <3>2. \A x : x \in Range(plan[g].uses) <=> \E j \in 1 .. Len(plan[g].uses) : x = plan[g].uses[j]
      BY <2>4 DEF Range
    <3>3. \A x : x \in Range(Resolved(g)) <=> x \in Range(plan[g].uses)
      BY <2>3, <3>1, <3>2
    <3>. QED BY <3>3
  <2>. QED BY <2>1, <2>2, <2>5
<1>9. all \subseteq Places /\ DOMAIN Uses = DOMAIN disk
  BY <1>2 DEF PlanType, Places, Uses
<1>10. NeededBy(e) \subseteq all
  <2>1. Closed(Uses, all)
    BY <1>8 DEF Closed
  <2>2. Range(U) \subseteq all /\ all \in SUBSET Places
    BY <1>3, <1>9
  <2> HIDE DEF all
  <2>3. Closure(Uses, Range(U)) \subseteq all
    BY <2>1, <2>2, ClosureLeast
  <2>. QED BY <2>3 DEF NeededBy, Needed, U
<1>11. all \subseteq NeededBy(e)
  <2> SUFFICES ASSUME NEW V \in SUBSET Places, Range(U) \subseteq V, Closed(Uses, V)
               PROVE  all \subseteq V
    BY <1>9 DEF NeededBy, Needed, Closure, U
  <2>1. ClosedTo(plan, size, V)
    BY <1>7, <1>8, <1>9 DEF ClosedTo, Closed, Exists
  <2>2. Under(plan, Range(U), 0, size, size)
    BY <1>2, <1>3 DEF Static, Walked, U
  <2>3. Between(plan, 0, size) \subseteq V
    BY <2>1, <2>2 DEF Under
  <2>4. all \subseteq Between(plan, 0, size)
    <3>1. \A g \in all : plan[g].at \in Nat \ {0} /\ plan[g].at <= size
      BY <1>2, RecordedFacts DEF Static
    <3>. QED BY <3>1 DEF Between
  <2>. QED BY <2>3, <2>4
<1>12. ASSUME NEW f \in all PROVE f \notin Needed(Uses[f])
  <2> DEFINE V == {g \in all : plan[g].at < plan[f].at}
  <2>0. \A g \in all : plan[g].at \in Nat
    BY <1>2, PlanFacts
  <2>1. V \in SUBSET Places /\ Uses[f] \subseteq V
    BY <1>8, <1>9
  <2>2. Closed(Uses, V)
    <3> SUFFICES ASSUME NEW g \in V, NEW u \in Uses[g] PROVE u \in V
      BY DEF Closed
    <3>1. u \in all /\ plan[u].at < plan[g].at /\ plan[g].at < plan[f].at
      BY <1>8
    <3>2. plan[u].at \in Nat /\ plan[g].at \in Nat /\ plan[f].at \in Nat
      BY <3>1, <2>0
    <3>3. plan[u].at < plan[f].at
      BY <3>1, <3>2
    <3>. QED BY <3>1, <3>3
  <2>3. f \notin V
    BY <2>0
  <2> HIDE DEF V
  <2>4. Closure(Uses, Uses[f]) \subseteq V
    BY <2>1, <2>2, ClosureLeast
  <2>. QED BY <2>3, <2>4 DEF Needed
<1>13. Range(text) = OnDisk(all)
  <2>1. DOMAIN text = 1 .. Len(text) /\ \A i \in 1 .. Len(text) : text[i] \in Piece
    BY <1>1, LenProperties, ElementOfSeq
  <2>2. /\ {text[i][1] : i \in 1 .. Len(text)} = all
        /\ \A i \in 1 .. Len(text) : text[i][2] = disk[text[i][1]].time
    BY <1>2, <1>6 DEF Gathered
  <2>3. \A i \in 1 .. Len(text) : text[i] = <<text[i][1], disk[text[i][1]].time>>
    BY <2>1, <2>2 DEF Piece
  <2>4. \A q \in Range(text) : q \in OnDisk(all)
    <3> TAKE q \in Range(text)
    <3>1. PICK i \in 1 .. Len(text) : q = text[i]
      BY <2>1 DEF Range
    <3>2. text[i][1] \in all
      BY <2>2
    <3>. QED BY <3>1, <3>2, <2>3 DEF OnDisk
  <2>5. ASSUME NEW g \in all PROVE \E i \in 1 .. Len(text) : text[i] = <<g, disk[g].time>>
    <3>1. PICK i \in 1 .. Len(text) : g = text[i][1]
      BY <2>2
    <3>. QED BY <3>1, <2>3
  <2>6. \A q \in OnDisk(all) : q \in Range(text)
    BY <2>1, <2>5 DEF Range, OnDisk
  <2>. QED BY <2>4, <2>6
<1>14. NeededBy(e) = all
  BY <1>10, <1>11
<1>. QED BY <1>7, <1>12, <1>13, <1>14 DEF Loadable, e

-----------------------------------------------------------------------------
(* The inductive invariant of CacheNeverStale. *)

(* An empty history goes with a clear cache.                                *)
HistoryInv == known = Unresolved => DOMAIN cache = {} /\ ~(Walking /\ call.op = "load")

(* The history names the program while it is loaded for the first time.     *)
FirstInv ==
    (Walking /\ call.op = "load" /\ known \in Files) =>
        /\ call.fresh /\ call.steady /\ known = call.entry
        /\ \E plan : FirstLoad(plan)

(* Between the loads the cache is as the plan says.                         *)
KnownInv ==
    (known \in Files /\ ~(Walking /\ call.op = "load")) =>
        \E plan, size : Known(plan, size, known, cache)

(* The load that CacheNeverStale is about follows the plan.                 *)
AgainInv ==
    (Walking /\ call.op = "load" /\ call.checked /\ ~call.fresh /\ call.steady) =>
        \E plan, size, p : AgainLoad(plan, size, p)

(* When it ends, all is there and nothing is old.                           *)
AgainEnd ==
    (Done /\ call.op = "load" /\ call.checked /\ ~call.fresh /\ call.steady) =>
        Loadable(call.entry) /\ Range(text) = OnDisk(NeededBy(call.entry))

ReloadInv == HistoryInv /\ FirstInv /\ KnownInv /\ AgainInv /\ AgainEnd

(* The invariant proved for CacheNeverStale.                                *)
RInv == IInv /\ ReloadInv

\* What is said of the cache after a step that changes no file.
LEMMA SameStatic ==
    ASSUME disk' = disk, NEW plan, NEW size, NEW e
    PROVE  /\ Static(plan, size, e, cache') => Static(plan, size, e, cache)'
           /\ Known(plan, size, e, cache') => Known(plan, size, e, cache)'
<1>1. \A f : Resolved(f)' = Resolved(f)
  BY DEF Resolved, Resolve, Exists
<1>2. UsesAs(plan)' <=> UsesAs(plan)
  BY <1>1 DEF UsesAs, Exists
<1>3. RootsOf(e)' = RootsOf(e)
  BY DEF RootsOf, Exists
<1>4. PreludeAs(plan, cache') => PreludeAs(plan, cache)'
  BY DEF PreludeAs, Exists
<1>5. Static(plan, size, e, cache') => Static(plan, size, e, cache)'
  BY <1>2, <1>3, <1>4 DEF Static
<1>. QED BY <1>5 DEF Known, Orig

\* What is said of the load once more after a step that changes no file.
LEMMA SameAgain ==
    ASSUME disk' = disk, NEW plan, NEW size, NEW p,
           Again(plan, size, p, call'.entry, stack', roots', included', text', cache')
    PROVE  AgainLoad(plan, size, p)'
<1>1. Static(plan, size, call.entry, cache)'
  <2>1. Static(plan, size, call'.entry, cache')
    BY DEF Again
  <2>2. RootsOf(call.entry)' = RootsOf(call'.entry)
    BY DEF RootsOf, Exists
  <2>3. \A f : Resolved(f)' = Resolved(f)
    BY DEF Resolved, Resolve, Exists
  <2>4. UsesAs(plan)' <=> UsesAs(plan)
    BY <2>3 DEF UsesAs, Exists
  <2>5. PreludeAs(plan, cache') => PreludeAs(plan, cache)'
    BY DEF PreludeAs, Exists
  <2>. QED BY <2>1, <2>2, <2>4, <2>5 DEF Static
<1>2. Gathered(plan, size, p, call.entry, included, text, cache)'
  <2>1. Gathered(plan, size, p, call'.entry, included', text', cache')
    BY DEF Again
  <2>. QED BY <2>1 DEF Gathered, Current, Exists, Orig
<1>3. Resumed(plan, p, call.entry, stack, roots)'
  <2>1. Resumed(plan, p, call'.entry, stack', roots')
    BY DEF Again
  <2>2. RootsOf(call.entry)' = RootsOf(call'.entry)
    BY DEF RootsOf, Exists
  <2>. QED BY <2>1, <2>2 DEF Resumed, FrameAgain, RootsAgain, Height
<1>. QED BY <1>1, <1>2, <1>3 DEF AgainLoad, Again

\* What a step of the walk leaves alone.
LEMMA WalkSame ==
    ASSUME IInv, Skip \/ Reuse \/ Open \/ Close
    PROVE  /\ Walking /\ disk' = disk /\ call' = call /\ known' = known
           /\ call.op # "load" => cache' = cache
<1>1. CASE Skip
  BY <1>1, SkipFacts DEF IInv, Pending
<1>2. CASE Reuse
  BY <1>2, ReuseFacts DEF IInv, Pending
<1>3. CASE Open
  BY <1>3, OpenFacts DEF IInv
<1>4. CASE Close
  BY <1>4, CloseFacts DEF IInv
<1>. QED BY <1>1, <1>2, <1>3, <1>4

\* The first load takes nothing from the cache that it has not gone through.
LEMMA NoReuse ==
    ASSUME IInv, Walking, call.fresh
    PROVE  ~Reuse
<1> SUFFICES ASSUME Reuse PROVE FALSE
  OBVIOUS
<1>1. Target \in DOMAIN cache /\ Unseen(Target) /\ call.op = "load"
  BY ReuseFacts DEF IInv
<1>2. DOMAIN cache \subseteq included
  BY <1>1 DEF IInv, PureInv, Pure
<1>. QED BY <1>1, <1>2 DEF Unseen

\* A step of the walk keeps the invariant.
LEMMA WalkReload ==
    ASSUME RInv, Skip \/ Reuse \/ Open \/ Close
    PROVE  ReloadInv'
<1>1. /\ IInv /\ Walking /\ disk' = disk /\ call' = call /\ known' = known
      /\ call.op # "load" => cache' = cache
      /\ HistoryInv /\ FirstInv /\ KnownInv /\ AgainInv
  BY WalkSame DEF RInv, ReloadInv
<1>2. Walking' /\ ~Done'
  BY <1>1 DEF Walking, Done
<1>3. AgainEnd'
  BY <1>2 DEF AgainEnd
<1>4. CASE call.op = "load"
  <2>1. HistoryInv' /\ KnownInv'
    BY <1>1, <1>2, <1>4 DEF HistoryInv, KnownInv
  <2>2. FirstInv'
    <3> SUFFICES ASSUME known \in Files PROVE (\E plan : FirstLoad(plan))'
      BY <1>1, <1>2, <1>4 DEF FirstInv
    <3>1. PICK plan : call.fresh /\ call.steady /\ FirstLoad(plan)
      BY <1>1, <1>4 DEF FirstInv
    <3>2. \E next : FirstAt(next, call'.entry, stack', roots', included', text', cache')
      <4>1. CASE Skip
        BY <1>1, <3>1, <4>1, FirstSkip
      <4>2. CASE Open
        BY <1>1, <3>1, <4>2, FirstOpen
      <4>3. CASE Close
        BY <1>1, <1>4, <3>1, <4>3, FirstClose
      <4>. QED BY <1>1, <3>1, <4>1, <4>2, <4>3, NoReuse
    <3>3. PICK next : FirstAt(next, call'.entry, stack', roots', included', text', cache')
      BY <3>2
    <3>4. FirstLoad(next)'
      BY <1>1, <3>3, SameFirst
    <3>. QED BY <3>4
  <2>3. AgainInv'
    <3> SUFFICES ASSUME call.checked, ~call.fresh, call.steady
                 PROVE  (\E plan, size, p : AgainLoad(plan, size, p))'
      BY <1>1 DEF AgainInv
    <3>1. PICK plan, size, p : AgainLoad(plan, size, p)
      BY <1>1, <1>4 DEF AgainInv
    <3>2. \E to : Again(plan, size, to, call'.entry, stack', roots', included', text', cache')
      <4>1. CASE Skip
        BY <1>1, <3>1, <4>1, AgainSkip
      <4>2. CASE Open
        BY <1>1, <1>4, <3>1, <4>2, AgainOpen
      <4>3. CASE Close
        BY <1>1, <1>4, <3>1, <4>3, AgainClose
      <4>4. CASE Reuse
        BY <1>1, <3>1, <4>4, AgainReuse
      <4>. QED BY <4>1, <4>2, <4>3, <4>4
    <3>3. PICK to : Again(plan, size, to, call'.entry, stack', roots', included', text', cache')
      BY <3>2
    <3>4. AgainLoad(plan, size, to)'
      BY <1>1, <3>3, SameAgain
    <3>. QED BY <3>4
  <2>. QED BY <1>3, <2>1, <2>2, <2>3 DEF ReloadInv
<1>5. CASE call.op # "load"
  <2>1. HistoryInv' /\ FirstInv' /\ AgainInv'
    BY <1>1, <1>5 DEF HistoryInv, FirstInv, AgainInv
  <2>2. KnownInv'
    <3> SUFFICES ASSUME known \in Files PROVE (\E plan, size : Known(plan, size, known, cache))'
      BY <1>1 DEF KnownInv
    <3>1. PICK plan, size : Known(plan, size, known, cache)
      BY <1>1, <1>5 DEF KnownInv
    <3>2. Known(plan, size, known', cache')
      BY <1>1, <1>5, <3>1
    <3>3. \A e : Known(plan, size, e, cache') => Known(plan, size, e, cache)'
      BY <1>1, SameStatic
    <3>4. Known(plan, size, known', cache') => Known(plan, size, known, cache)'
      BY <1>1, <3>3 DEF Known, Static, Orig
    <3>. QED BY <3>2, <3>4
  <2>. QED BY <1>3, <2>1, <2>2 DEF ReloadInv
<1>. QED BY <1>4, <1>5

\* An error keeps the invariant; after a load it loses the history.
LEMMA FailReload ==
    ASSUME NEW why \in {"circular", "missing"}, RInv, Walking, Fail(why)
    PROVE  ReloadInv'
<1>1. /\ disk' = disk /\ cache' = cache /\ call' = [call EXCEPT !.status = why]
      /\ known' = IF call.op = "load" THEN Several ELSE known
      /\ HistoryInv /\ KnownInv /\ call \in CallType
  BY DEF Fail, RInv, ReloadInv, IInv, TypeOK, CallInv
<1>2. /\ ~Walking' /\ ~Done' /\ call'.op = call.op
      /\ Several \notin Files /\ Several # Unresolved
  <2>1. call'.status = why /\ call'.op = call.op
    BY <1>1 DEF CallType
  <2>2. why # "walking" /\ why # "done"
    OBVIOUS
  <2>3. Several # Unresolved
    BY DEF Several, Unresolved
  <2>. QED BY <2>1, <2>2, <2>3, LoaderAssumption DEF Walking, Done
<1>3. FirstInv' /\ AgainInv' /\ AgainEnd'
  BY <1>2 DEF FirstInv, AgainInv, AgainEnd
<1>4. HistoryInv'
  BY <1>1, <1>2 DEF HistoryInv
<1>5. KnownInv'
  <2> SUFFICES ASSUME known' \in Files PROVE (\E plan, size : Known(plan, size, known, cache))'
    BY DEF KnownInv
  <2>1. call.op # "load" /\ known' = known
    BY <1>1, <1>2
  <2>2. PICK plan, size : Known(plan, size, known, cache)
    BY <1>1, <2>1 DEF KnownInv
  <2>3. \A e : Known(plan, size, e, cache') => Known(plan, size, e, cache)'
    BY <1>1, SameStatic
  <2>4. Known(plan, size, known', cache') => Known(plan, size, known, cache)'
    BY <2>1, <2>3 DEF Known, Static, Orig
  <2>. QED BY <1>1, <2>1, <2>2, <2>4
<1>. QED BY <1>3, <1>4, <1>5 DEF ReloadInv

\* Return keeps the invariant.
LEMMA ReturnReload ==
    ASSUME RInv, Return
    PROVE  ReloadInv'
<1>1. /\ IInv /\ Walking /\ disk' = disk /\ call' = [call EXCEPT !.status = "done"]
      /\ known' = known /\ text' = text /\ call \in CallType
      /\ call.op # "load" => cache' = cache
      /\ HistoryInv /\ FirstInv /\ KnownInv /\ AgainInv
  BY DEF Return, RInv, ReloadInv, IInv, TypeOK, CallInv
<1>2. /\ ~Walking' /\ call'.op = call.op /\ call'.entry = call.entry
      /\ call'.fresh = call.fresh /\ call'.checked = call.checked /\ call'.steady = call.steady
  BY <1>1 DEF CallType, Walking
<1>3. FirstInv' /\ AgainInv'
  BY <1>2 DEF FirstInv, AgainInv
<1>4. HistoryInv'
  BY <1>1, <1>2 DEF HistoryInv
<1>5. KnownInv'
  <2> SUFFICES ASSUME known \in Files PROVE (\E plan, size : Known(plan, size, known, cache))'
    BY <1>1 DEF KnownInv
  <2>1. \E plan, size : Known(plan, size, known', cache')
    <3>1. CASE call.op = "load"
      <4>1. PICK plan : call.fresh /\ call.steady /\ known = call.entry /\ FirstLoad(plan)
        BY <1>1, <3>1 DEF FirstInv
      <4>2. Known(plan, Len(text), call.entry, cache')
        BY <1>1, <3>1, <4>1, FirstReturn
      <4>. QED BY <1>1, <4>1, <4>2
    <3>2. CASE call.op # "load"
      BY <1>1, <3>2 DEF KnownInv
    <3>. QED BY <3>1, <3>2
  <2>2. PICK plan, size : Known(plan, size, known', cache')
    BY <2>1
  <2>3. \A e : Known(plan, size, e, cache') => Known(plan, size, e, cache)'
    BY <1>1, SameStatic
  <2>4. Known(plan, size, known', cache') => Known(plan, size, known, cache)'
    BY <1>1, <2>3 DEF Known, Static, Orig
  <2>. QED BY <2>2, <2>4
<1>6. AgainEnd'
  <2> SUFFICES ASSUME call.op = "load", call.checked, ~call.fresh, call.steady
               PROVE  Loadable(call.entry)' /\ (Range(text) = OnDisk(NeededBy(call.entry)))'
    BY <1>2 DEF AgainEnd
  <2>1. PICK plan, size, p : AgainLoad(plan, size, p)
    BY <1>1 DEF AgainInv
  <2>2. Loadable(call.entry) /\ Range(text) = OnDisk(NeededBy(call.entry))
    BY <1>1, <2>1, AgainReturn
  <2>3. \A f : (Loadable(f)' <=> Loadable(f)) /\ (NeededBy(f)' = NeededBy(f))
    BY <1>1, SameDisk
  <2>4. (Loadable(call.entry)' <=> Loadable(call.entry)) /\ (NeededBy(call.entry)' = NeededBy(call.entry))
    BY <1>2, <2>3, <1>1
  <2>. QED BY <1>1, <2>2, <2>4 DEF OnDisk
<1>. QED BY <1>3, <1>4, <1>5, <1>6 DEF ReloadInv

\* The start of a call keeps the invariant.
LEMMA BeginReload ==
    ASSUME NEW f \in Files, RInv, Load(f) \/ LoadModules(f)
    PROVE  ReloadInv'
<1>1. /\ IInv /\ HistoryInv /\ KnownInv /\ ~Walking /\ disk' = disk
      /\ roots' = RootsOf(f) /\ text' = <<>> /\ stack' = <<>> /\ included' = {}
      /\ call'.entry = f /\ call'.status = "walking" /\ call'.steady = TRUE
      /\ call'.fresh = (DOMAIN cache = {})
      /\ call'.checked = (known \in {Unresolved, f})
  BY DEF Load, LoadModules, Begin, RInv, ReloadInv, IInv, TypeOK, CallInv
<1>2. Walking' /\ ~Done' /\ Several \notin Files /\ f # Unresolved
  BY <1>1, LoaderAssumption DEF Walking, Done
<1>3. AgainEnd'
  BY <1>2 DEF AgainEnd
<1>4. CASE Load(f)
  <2>1. /\ call'.op = "load" /\ cache' = cache
        /\ known' = IF known = Unresolved THEN f ELSE Several
        /\ Several # Unresolved
    BY <1>4 DEF Load, Begin, Several, Unresolved
  <2>2. HistoryInv' /\ KnownInv'
    BY <1>2, <2>1 DEF HistoryInv, KnownInv
  <2>3. FirstInv'
    <3> SUFFICES ASSUME known = Unresolved PROVE FirstInv'
      BY <1>2, <2>1 DEF FirstInv
    <3>1. FirstAt(<<>>, call'.entry, stack', roots', included', text', cache')
      BY <1>1, <2>1, FirstBegin
    <3>2. FirstLoad(<<>>)'
      BY <1>1, <3>1, SameFirst
    <3>3. DOMAIN cache = {}
      BY <1>1 DEF HistoryInv
    <3>. QED BY <1>1, <2>1, <3>2, <3>3 DEF FirstInv
  <2>4. AgainInv'
    <3> SUFFICES ASSUME known \in {Unresolved, f}, DOMAIN cache # {}
                 PROVE  (\E plan, size, p : AgainLoad(plan, size, p))'
      BY <1>1 DEF AgainInv
    <3>1. known = f
      BY <1>1 DEF HistoryInv
    <3>2. PICK plan, size : Known(plan, size, f, cache)
      BY <1>1, <3>1 DEF KnownInv
    <3>3. Again(plan, size, 0, call'.entry, stack', roots', included', text', cache')
      BY <1>1, <2>1, <3>2, AgainBegin
    <3>4. AgainLoad(plan, size, 0)'
      BY <1>1, <3>3, SameAgain
    <3>. QED BY <3>4
  <2>. QED BY <1>3, <2>2, <2>3, <2>4 DEF ReloadInv
<1>5. CASE LoadModules(f)
  <2>1. /\ call'.op = "load_modules" /\ known' = known
        /\ cache' = Restrict(cache, DOMAIN cache \cap DOMAIN disk)
    BY <1>5 DEF LoadModules, Begin
  <2>2. FirstInv' /\ AgainInv'
    BY <2>1 DEF FirstInv, AgainInv
  <2>3. /\ DOMAIN cache' = DOMAIN cache \cap DOMAIN disk
        /\ \A g \in DOMAIN cache' : cache'[g] = cache[g]
    BY <2>1, RestrictFacts
  <2>4. HistoryInv'
    BY <1>1, <2>1, <2>3 DEF HistoryInv
  <2>5. KnownInv'
    <3> SUFFICES ASSUME known \in Files PROVE (\E plan, size : Known(plan, size, known, cache))'
      BY <2>1 DEF KnownInv
    <3>1. PICK plan, size : Known(plan, size, known, cache)
      BY <1>1 DEF KnownInv
    <3>2. /\ DOMAIN cache' \subseteq DOMAIN cache
          /\ \A g \in DOMAIN cache : Exists(g) => g \in DOMAIN cache'
      BY <2>3 DEF Exists
    <3>3. PICK e : e = known
      OBVIOUS
    <3>4. Known(plan, size, e, cache)'
      BY <1>1, <2>3, <3>1, <3>2, <3>3, KnownKept
    <3>. QED BY <2>1, <3>3, <3>4
  <2>. QED BY <1>3, <2>2, <2>4, <2>5 DEF ReloadInv
<1>. QED BY <1>4, <1>5

\* A change of the disk keeps the invariant.
LEMMA ChangeReload ==
    ASSUME NEW f, RInv, Change(f),
           \A g \in DOMAIN disk : g # f => g \in DOMAIN disk' /\ disk'[g] = disk[g]
    PROVE  ReloadInv'
<1>1. /\ IInv /\ HistoryInv /\ FirstInv /\ KnownInv /\ cache' = cache /\ call \in CallType
      /\ call' = IF Walking THEN [call EXCEPT !.steady = FALSE] ELSE NoCall
      /\ known' = IF \/ known = Unresolved
                     \/ ~(Walking /\ call.op = "load") /\ f \notin Needed({Prelude}) /\ SameUses
                  THEN known ELSE Several
  BY DEF Change, RInv, ReloadInv, IInv, TypeOK, CallInv
<1>2. /\ Walking' <=> Walking
      /\ Walking => call'.op = call.op /\ call'.steady = FALSE
      /\ ~Done'
      /\ ~Walking => call'.op = "none"
  BY <1>1 DEF CallType, Walking, Done, NoCall
<1>3. Several \notin Files /\ Unresolved \notin Files /\ Several # Unresolved
  BY LoaderAssumption DEF Several, Unresolved
<1>4. AgainInv' /\ AgainEnd'
  BY <1>2 DEF AgainInv, AgainEnd
<1>5. HistoryInv'
  BY <1>1, <1>2, <1>3 DEF HistoryInv
<1>6. FirstInv'
  BY <1>1, <1>2, <1>3 DEF FirstInv
<1>7. KnownInv'
  <2> SUFFICES ASSUME known' \in Files PROVE (\E plan, size : Known(plan, size, known, cache))'
    BY DEF KnownInv
  <2>1. known' = known /\ ~(Walking /\ call.op = "load") /\ f \notin Needed({Prelude}) /\ SameUses
    BY <1>1, <1>3
  <2>2. PICK e \in Files : e = known
    BY <2>1
  <2>3. PICK plan, size : Known(plan, size, e, cache)
    BY <1>1, <2>1, <2>2 DEF KnownInv
  <2>4. Known(plan, size, e, cache)'
    BY <1>1, <2>1, <2>3, KnownChange
  <2>. QED BY <2>1, <2>2, <2>4
<1>. QED BY <1>4, <1>5, <1>6, <1>7 DEF ReloadInv

\* Every step keeps the invariant.
LEMMA NextReload == RInv /\ [Next]_vars => RInv'
<1> SUFFICES ASSUME RInv, [Next]_vars PROVE ReloadInv'
  BY NextInv DEF RInv
<1>1. IInv
  BY DEF RInv
<1>2. CASE UNCHANGED vars
  <2>1. /\ disk' = disk /\ cache' = cache /\ call' = call /\ known' = known /\ text' = text
        /\ roots' = roots /\ stack' = stack /\ included' = included
        /\ HistoryInv /\ FirstInv /\ KnownInv /\ AgainInv /\ AgainEnd
    BY <1>2 DEF vars, walk, RInv, ReloadInv
  <2>2. (Walking' <=> Walking) /\ (Done' <=> Done)
    BY <2>1 DEF Walking, Done
  <2>3. HistoryInv'
    BY <2>1, <2>2 DEF HistoryInv
  <2>4. FirstInv'
    <3> SUFFICES ASSUME Walking, call.op = "load", known \in Files PROVE (\E plan : FirstLoad(plan))'
      BY <2>1, <2>2 DEF FirstInv
    <3>1. PICK plan : FirstLoad(plan)
      BY <2>1 DEF FirstInv
    <3>2. FirstAt(plan, call'.entry, stack', roots', included', text', cache')
      BY <2>1, <3>1 DEF FirstLoad
    <3>3. FirstLoad(plan)'
      BY <2>1, <3>2, SameFirst
    <3>. QED BY <3>3
  <2>5. KnownInv'
    <3> SUFFICES ASSUME known \in Files, ~(Walking /\ call.op = "load")
                 PROVE  (\E plan, size : Known(plan, size, known, cache))'
      BY <2>1, <2>2 DEF KnownInv
    <3>1. PICK plan, size : Known(plan, size, known, cache)
      BY <2>1 DEF KnownInv
    <3>2. PICK e : e = known
      OBVIOUS
    <3>3. Known(plan, size, e, cache)'
      BY <2>1, <3>1, <3>2, KnownKept
    <3>. QED BY <2>1, <3>2, <3>3
  <2>6. AgainInv'
    <3> SUFFICES ASSUME Walking, call.op = "load", call.checked, ~call.fresh, call.steady
                 PROVE  (\E plan, size, p : AgainLoad(plan, size, p))'
      BY <2>1, <2>2 DEF AgainInv
    <3>1. PICK plan, size, p : AgainLoad(plan, size, p)
      BY <2>1 DEF AgainInv
    <3>2. Again(plan, size, p, call'.entry, stack', roots', included', text', cache')
      BY <2>1, <3>1 DEF AgainLoad
    <3>3. AgainLoad(plan, size, p)'
      BY <2>1, <3>2, SameAgain
    <3>. QED BY <3>3
  <2>7. AgainEnd'
    <3>1. (Loadable(call.entry)' <=> Loadable(call.entry)) /\ (NeededBy(call.entry)' = NeededBy(call.entry))
      BY <2>1, SameDisk
    <3>. QED BY <2>1, <2>2, <3>1 DEF AgainEnd, OnDisk
  <2>. QED BY <2>3, <2>4, <2>5, <2>6, <2>7 DEF ReloadInv
<1>3. CASE \E f \in Entries : Load(f) \/ LoadModules(f)
  BY <1>3, BeginReload, LoaderAssumption
<1>4. CASE Circular
  BY <1>4, FailReload DEF Circular, Pending
<1>5. CASE Missing
  BY <1>5, FailReload DEF Missing, Pending
<1>6. CASE Skip \/ Reuse \/ Open \/ Close
  BY <1>6, WalkReload
<1>7. CASE Return
  BY <1>7, ReturnReload
<1>8. CASE ClearCache
  <2>1. DOMAIN cache' = {} /\ known' = Unresolved /\ call' = NoCall
    BY <1>8 DEF ClearCache
  <2>2. ~Walking' /\ ~Done' /\ Unresolved \notin Files
    BY <2>1, LoaderAssumption DEF NoCall, Walking, Done
  <2>. QED BY <2>1, <2>2 DEF ReloadInv, HistoryInv, FirstInv, KnownInv, AgainInv, AgainEnd
<1>9. CASE \E f \in Files, uses \in UseLists : WriteFile(f, uses)
  <2>1. PICK f \in Files, uses \in UseLists : WriteFile(f, uses)
    BY <1>9
  <2>2. \A g \in DOMAIN disk : g # f => g \in DOMAIN disk' /\ disk'[g] = disk[g]
    BY <2>1 DEF WriteFile, Put
  <2>. QED BY <2>1, <2>2, ChangeReload DEF WriteFile
<1>10. CASE \E f \in DOMAIN disk : RemoveFile(f)
  <2>1. PICK f \in DOMAIN disk : RemoveFile(f)
    BY <1>10
  <2>2. \A g \in DOMAIN disk : g # f => g \in DOMAIN disk' /\ disk'[g] = disk[g]
    BY <2>1, RestrictFacts DEF RemoveFile
  <2>. QED BY <2>1, <2>2, ChangeReload DEF RemoveFile
<1>. QED BY <1>2, <1>3, <1>4, <1>5, <1>6, <1>7, <1>8, <1>9, <1>10 DEF Next

\* The invariant at the start.
LEMMA InitReload == Init => ReloadInv
<1> SUFFICES ASSUME Init PROVE ReloadInv
  OBVIOUS
<1>1. DOMAIN cache = {} /\ known = Unresolved /\ call = NoCall
  BY DEF Init
<1>2. ~Walking /\ ~Done /\ Unresolved \notin Files
  BY <1>1, LoaderAssumption DEF NoCall, Walking, Done
<1>. QED BY <1>1, <1>2 DEF ReloadInv, HistoryInv, FirstInv, KnownInv, AgainInv, AgainEnd

\* The invariant implies the property.
LEMMA InvStale == RInv => CacheNeverStale
<1> SUFFICES ASSUME RInv, call.op = "load", call.checked, call.steady, Ended
             PROVE  /\ Done <=> Loadable(call.entry)
                    /\ Done => Range(text) = OnDisk(NeededBy(call.entry))
  BY DEF CacheNeverStale
<1>1. CASE call.fresh
  BY <1>1, InvOrder DEF RInv, ModulesInOrder
<1>2. CASE ~call.fresh
  <2>1. Done => Loadable(call.entry) /\ Range(text) = OnDisk(NeededBy(call.entry))
    BY <1>2 DEF RInv, ReloadInv, AgainEnd
  <2>2. ~Done => ~Loadable(call.entry)
    BY DEF RInv, IInv, EndInv, Ended, Done
  <2>. QED BY <2>1, <2>2
<1>. QED BY <1>1, <1>2

(***************************************************************************)
(* A program that was loaded once, and is loaded again after files were    *)
(* edited with the same use lines or removed, is loaded exactly when it    *)
(* could be without the cache, with every module it needs and nothing old: *)
(* is_cache_valid finds each entry whose text, or that of a module in it,  *)
(* was changed.                                                            *)
(***************************************************************************)
THEOREM Reload == Spec => []CacheNeverStale
<1>1. Init => RInv
  BY InitType, InitInv, InitReload DEF RInv, IInv
<1>. QED BY <1>1, NextReload, InvStale, PTL DEF Spec

=============================================================================
