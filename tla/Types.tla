-------------------------------- MODULE Types --------------------------------
(***************************************************************************)
(* Type inference (src/src/semantic.rs collect_*_constraints, types/       *)
(* core.rs, types/solver.rs): constraints are collected over the program,  *)
(* sorted and solved, and what they say of a name decides how code         *)
(* generation keeps it.                                                    *)
(*                                                                         *)
(* The type environment has one entry for each NAME: every function's      *)
(* parameters and locals share it, and a later entry replaces an earlier   *)
(* one.  Type parameters (generic constructors, trait bounds) are left     *)
(* out; an annotation is the name of a primitive type, in p of a binding.  *)
(***************************************************************************)
EXTENDS Syntax, TLC

(* enum TypeId: c its variant, n its name, i a variable's number, a the    *)
(* types it is made of (a Func's parameters and then its result).          *)
Ty(c, n, i, a) == [c |-> c, n |-> n, i |-> i, a |-> a]
Prim(p) == Ty("Prim", p, 0, <<>>)
Unknown == Ty("Unknown", "", 0, <<>>)
AnyT == Prim("Any")
TVar(j) == Ty("Var", "", j, <<>>)
ListT(t) == Ty("List", "", 0, <<t>>)
MapT(k, v) == Ty("Map", "", 0, <<k, v>>)
FuncT(args, ret) == Ty("Func", "", 0, args \o <<ret>>)
Adt(t) == Ty("Adt", t, 0, <<>>)
StoreT(s) == Ty("Store", s, 0, <<>>)
ErrorT(e) == Ty("Error", e, 0, <<>>)
Composite == {"List", "Map", "Func", "Adt"}

(* The state of a collection: env the TypeEnv, next the graph's next       *)
(* variable, cons the ConstraintSet, hints the branch types of the ifs     *)
(* that have an else, r the type just found.                               *)
Gather(env) == [env |-> env, next |-> 0, cons |-> <<>>, hints |-> {}, r |-> Unknown]
Typed(st, t) == [st EXCEPT !.r = t]
Fresh(st) == [st EXCEPT !.r = TVar(st.next), !.next = @ + 1]
Need(st, k, ts) == [st EXCEPT !.cons = Append(@, [k |-> k, a |-> ts])]
Note(st, x, t) == [st EXCEPT !.env = (x :> t) @@ @]
LookupT(st, x) == IF x \in DOMAIN st.env THEN st.env[x] ELSE Unknown

(* collect_pattern_bindings: below a constructor or a list everything is   *)
(* Any.                                                                    *)
RECURSIVE NotePattern(_, _, _)
NoteAll(pats, t, st) ==
    LET F[j \in 0 .. Len(pats)] == IF j = 0 THEN st ELSE NotePattern(pats[j], t, F[j - 1]) IN F[Len(pats)]
NotePattern(pat, t, st) ==
    CASE pat.k \in {"PIdentifier", "PRangeBinding"} -> Note(st, pat.n, t)
      [] pat.k = "PRest" -> Note(st, pat.n, ListT(AnyT))
      [] pat.k = "POr" -> NoteAll(pat.a, t, st)
      [] pat.k \in {"PConstructor", "PList"} -> NoteAll(pat.a, AnyT, st)
      [] OTHER -> st

(* What a match arm's pattern asks of the scrutinee's type t.  A           *)
(* constructor's fields take the types of its parameters, which are Any;   *)
(* inside an Or the constructor's own type is not asked for.               *)
RECURSIVE AskPattern(_, _, _, _)
AskPattern(pat, t, st, inOr) ==
    LET ctor == LookupT(st, pat.n)
        elem == IF pat.a = <<>> /\ ~ inOr THEN TVar(st.next) ELSE AnyT
        one == IF pat.a = <<>> /\ ~ inOr THEN Fresh(st) ELSE st
        F[j \in 0 .. Len(pat.a)] == IF j = 0 THEN st ELSE AskPattern(pat.a[j], t, F[j - 1], TRUE)
    IN  CASE pat.k \in {"PInteger", "PRange"} -> Need(st, "Numeric", <<t>>)
          [] pat.k = "PRangeBinding" -> IF inOr THEN st ELSE Note(Need(st, "Numeric", <<t>>), pat.n, t)
          [] pat.k = "PBool" -> Need(st, "Equal", <<t, Prim("Bool")>>)
          [] pat.k = "PString" -> Need(st, "Equal", <<t, Prim("String")>>)
          [] pat.k = "PList" -> NoteAll(pat.a, elem, Need(one, "Equal", <<t, ListT(elem)>>))
          [] pat.k = "PConstructor" ->
               NoteAll(pat.a, AnyT,
                       IF inOr \/ pat.n \notin DOMAIN st.env THEN st
                       ELSE Need(st, "Equal", <<t, IF ctor.c = "Adt" THEN ctor
                                                   ELSE IF ctor.c = "Func" THEN Last1(ctor.a) ELSE AnyT>>))
          [] pat.k = "POr" /\ ~ inOr -> F[Len(pat.a)]
          [] pat.k \in {"PIdentifier", "PRest"} -> NotePattern(pat, t, st)
          [] OTHER -> st

(* has_return_statements: loops over pairs, matches and lambdas are not    *)
(* looked into.                                                            *)
RECURSIVE HasReturn(_)
HasReturn(b) ==
    \E j \in 1 .. Len(b.a) - 1 :
        \/ b.a[j].k = "Return"
        \/ /\ b.a[j].k \in {"If", "While", "For", "ForRange"}
           /\ \E l \in DOMAIN b.a[j].a : b.a[j].a[l].k = "Block" /\ HasReturn(b.a[j].a[l])

(* The result types of methods known by name.                              *)
IntMethods == {"length", "count", "size", "index_of"}
BoolMethods == {"err", "equals", "contains", "any", "all", "is_empty"}
TextMethods == {"trim", "lower", "upper", "to_string", "join", "slice"}
ListMethods == {"split", "map", "filter", "sort", "keys", "values"}
SameMethods == {"push", "pop", "append", "remove", "insert", "clear"}
OpenMethods == {"get", "set", "at", "reduce", "find", "first", "last", "unwrap_or"}
NamedMethods == IntMethods \cup BoolMethods \cup TextMethods \cup ListMethods \cup SameMethods \cup OpenMethods
MethodType(m, target) ==
    CASE m \in IntMethods -> Prim("Int")
      [] m \in BoolMethods -> Prim("Bool")
      [] m \in TextMethods -> Prim("String")
      [] m \in ListMethods -> ListT(Unknown)
      [] m \in SameMethods -> target
      [] OTHER -> Unknown

-----------------------------------------------------------------------------
RECURSIVE GatherE(_, _)
RECURSIVE GatherB(_, _, _)

(* Several expressions in order; r is the sequence of their types.         *)
RECURSIVE GatherAll(_, _)
GatherAll(es, st) ==
    IF es = <<>> THEN Typed(st, <<>>)
    ELSE LET front == GatherAll(Front1(es), st)
             last == IF IsAbsent(Last1(es)) THEN Typed(front, Unknown) ELSE GatherE(Last1(es), front)
         IN  Typed(last, Append(front.r, last.r))

Equated(st, t, types) ==
    [st EXCEPT !.cons = @ \o [j \in DOMAIN types |-> [k |-> "Equal", a |-> <<t, types[j]>>]]]

(* A list's elements have one type; a spread one is a list of it.          *)
GatherList(e, st) ==
    LET elem == Fresh(st)
        F[j \in 0 .. Len(e.a)] ==
            IF j = 0 THEN elem
            ELSE LET s == GatherE(e.a[j], F[j - 1])
                 IN  Need(s, "Equal", <<IF e.a[j].k = "Spread" THEN ListT(elem.r) ELSE elem.r, s.r>>)
    IN  Typed(F[Len(e.a)], ListT(elem.r))

(* Of a map only the keys are constrained; key and value alternate in a.   *)
GatherMap(e, st) ==
    LET key == Fresh(st)
        all == GatherAll(e.a, key)
    IN  Typed(Equated(all, key.r, [j \in 1 .. Len(e.a) \div 2 |-> all.r[2 * j - 1]]), MapT(key.r, AnyT))

(* An Add with a string on either side is a string whatever the other is.  *)
GatherBinary(e, st) ==
    LET s == GatherAll(e.a, st)
        l == s.r[1]
        r == s.r[2]
        numbers == Need(Need(s, "Numeric", <<l>>), "Numeric", <<r>>)
    IN  CASE e.n = "Add" /\ Prim("String") \in {l, r} -> Typed(s, Prim("String"))
          [] e.n = "Add" /\ Prim("String") \notin {l, r} -> Typed(Need(s, "Equal", <<l, r>>), l)
          [] e.n \in {"And", "Or"} ->
               Typed(Need(Need(s, "Boolean", <<l>>), "Boolean", <<r>>), Prim("Bool"))
          [] e.n \in {"Equals", "NotEquals"} -> Typed(Need(s, "Equal", <<l, r>>), Prim("Bool"))
          [] e.n \in {"Greater", "GreaterEq", "Less", "LessEq"} -> Typed(numbers, Prim("Bool"))
          [] OTHER -> Typed(Need(numbers, "Equal", <<l, r>>), l)
GatherUnary(e, st) ==
    LET s == GatherE(e.a[1], st)
    IN  IF e.n = "Not" THEN Typed(Need(s, "Boolean", <<s.r>>), Prim("Bool")) ELSE Need(s, "Numeric", <<s.r>>)

GatherCall(callee, args, st) ==
    LET method == callee.k = "Member" /\ callee.n \in NamedMethods
        target == GatherE(callee.a[1], st)
        known == GatherAll(args, target)
        f == GatherE(callee, IF callee.k = "Member" THEN known ELSE st)
        s == GatherAll(args, f)
        out == Fresh(s)
    IN  IF method THEN Typed(known, MethodType(callee.n, target.r))
        ELSE Typed(Need(out, "Callable", <<f.r>> \o s.r \o <<out.r>>), out.r)

(* Any other property of a value whose type is known makes that type a     *)
(* map.                                                                    *)
GatherMember(e, st) ==
    LET s == GatherE(e.a[1], st)
        v == Fresh(s)
    IN  CASE e.n \in {"length", "count", "size"} -> Typed(s, Prim("Int"))
          [] e.n = "err" -> Typed(s, Prim("Bool"))
          [] e.n \in NamedMethods \ {"length", "count", "size", "err"} -> Typed(s, Unknown)
          [] e.n \notin NamedMethods /\ (s.r \in {AnyT, Unknown} \/ s.r.c = "Var") -> Typed(s, Unknown)
          [] OTHER -> Need(v, "Equal", <<s.r, MapT(Prim("String"), v.r)>>)

(* The arms' bodies have the type of the first one.                        *)
GatherMatch(e, st) ==
    LET v == GatherE(e.a[1], st)
        arms == Tail(e.a)
        Inside(j, s) ==
            LET asked == AskPattern(arms[j].a[1], v.r, s, FALSE)
                guard == IF IsAbsent(arms[j].a[2]) THEN asked ELSE GatherE(arms[j].a[2], asked)
            IN  CASE arms[j].k = "Arm" -> GatherB(arms[j].a[3], guard, <<>>)
                  [] arms[j].k = "Block" -> GatherB(arms[j], s, <<>>)
        F[j \in 0 .. Len(arms)] ==
            IF j = 0 THEN [s |-> v, ts |-> <<>>]
            ELSE IF IsAbsent(arms[j]) THEN F[j - 1]
            ELSE LET one == Inside(j, F[j - 1].s) IN [s |-> one, ts |-> Append(F[j - 1].ts, one.r)]
        all == F[Len(arms)]
    IN  IF all.ts = <<>> THEN Typed(all.s, Prim("Unit"))
        ELSE Typed(Equated(all.s, all.ts[1], Tail(all.ts)), all.ts[1])

(* A lambda is collected in copies of the environment and of the graph:    *)
(* its names are forgotten, its constraints are kept, and the variables it *)
(* made are handed out again.                                              *)
GatherLambda(e, st) ==
    LET F[j \in 0 .. Len(e.p)] ==
            IF j = 0 THEN [s |-> st, ts |-> <<>>]
            ELSE LET one == Fresh(F[j - 1].s)
                 IN  [s |-> Note(one, e.p[j], one.r), ts |-> Append(F[j - 1].ts, one.r)]
        ps == F[Len(e.p)]
        body == GatherB(e.a[1], ps.s, <<>>)
    IN  [ps.s EXCEPT !.env = st.env, !.cons = body.cons, !.r = FuncT(ps.ts, body.r)]

(* The comprehension's variable is in a scope of its own.                  *)
GatherComprehension(e, st) ==
    LET it == GatherE(e.a[Len(e.a) - 1], st)
        elem == Fresh(it)
        inner == Note(Need(elem, "Equal", <<ListT(elem.r), it.r>>), e.p[1], elem.r)
        cond == IF IsAbsent(Last1(e.a)) THEN inner ELSE GatherE(Last1(e.a), inner)
        body == GatherAll(SubSeq(e.a, 1, Len(e.a) - 2), cond)
    IN  [body EXCEPT !.env = it.env,
                     !.r = IF e.k = "ListComprehension" THEN ListT(body.r[1]) ELSE MapT(body.r[1], AnyT)]

GatherPipeline(e, st) ==
    LET s == GatherAll(e.a, st)
        out == Fresh(s)
    IN  CASE e.a[2].k = "Call" -> GatherCall(e.a[2].a[1], <<e.a[1]>> \o Tail(e.a[2].a), st)
          [] e.a[2].k = "Identifier" -> GatherCall(e.a[2], <<e.a[1]>>, st)
          [] OTHER -> Typed(Need(out, "Callable", <<s.r[2], s.r[1], out.r>>), out.r)

LiteralTypes == "Integer" :> Prim("Int") @@ "Float" :> Prim("Float") @@ "Bool" :> Prim("Bool")
                @@ "String" :> Prim("String") @@ "Unit" :> Prim("Unit") @@ "None" :> Prim("None")
                @@ "TaxonomyPath" :> Prim("String")

(* collect_constraints_expr.                                               *)
GatherE(e, st) ==
    LET s == GatherAll(e.a, st)
        cond == Need(Need(s, "Boolean", <<s.r[1]>>), "Equal", <<s.r[2], s.r[3]>>)
    IN  CASE e.k \in DOMAIN LiteralTypes -> Typed(st, LiteralTypes[e.k])
          [] e.k = "Identifier" -> Typed(st, LookupT(st, e.n))
          [] e.k \in {"Unsafe", "Placeholder"} -> Typed(st, Unknown)
          [] e.k = "ErrorValue" -> Typed(st, ErrorT(e.n))
          [] e.k \in {"Spread", "Throw", "ErrorPropagate"} -> Typed(s, s.r[1])
          [] e.k = "List" -> GatherList(e, st)
          [] e.k = "Map" -> GatherMap(e, st)
          [] e.k = "Binary" -> GatherBinary(e, st)
          [] e.k = "Unary" -> GatherUnary(e, st)
          [] e.k = "Call" -> GatherCall(e.a[1], Tail(e.a), st)
          [] e.k = "Member" -> GatherMember(e, st)
          [] e.k = "Index" -> Typed(s, IF s.r[1].c \in {"List", "Map"} THEN Last1(s.r[1].a) ELSE Unknown)
          [] e.k = "Slice" -> Typed(s, s.r[1])
          [] e.k = "Ternary" -> Typed(cond, s.r[2])
          [] e.k = "Match" -> GatherMatch(e, st)
          [] e.k = "Lambda" -> GatherLambda(e, st)
          [] e.k = "Pipeline" -> GatherPipeline(e, st)
          [] e.k \in {"ListComprehension", "MapComprehension"} -> GatherComprehension(e, st)

-----------------------------------------------------------------------------
(* collect_block_constraints.  ret is <<the return type>>, or <<>> inside  *)
(* a match arm and a lambda, where a return asks for nothing.              *)
GatherIf(s, st, ret) ==
    LET F[j \in 0 .. Len(s.a)] ==
            IF j = 0 THEN [s |-> st, ts |-> <<>>]
            ELSE IF IsAbsent(s.a[j]) THEN F[j - 1]
            ELSE IF s.a[j].k # "Block" THEN [F[j - 1] EXCEPT !.s = GatherE(s.a[j], @)]
            ELSE LET before == F[j - 1]
                     b == GatherB(s.a[j], before.s, ret)
                 IN  [s |-> b, ts |-> Append(before.ts, b.r)]
        all == F[Len(s.a)]
    IN  IF IsAbsent(Last1(s.a)) THEN all.s ELSE [all.s EXCEPT !.hints = @ \cup {all.ts}]

Annotated(s) == s.p # <<>>
GatherStmt(s, st, ret) ==
    LET v == GatherE(Last1(s.a), st)
        it == GatherE(s.a[1], st)
        elem == Fresh(it)
        over == Need(elem, "Iterable", <<it.r, elem.r>>)
        F[j \in 0 .. Len(s.p)] == IF j = 0 THEN over ELSE Note(F[j - 1], s.p[j], elem.r)
        range == Note(GatherAll(SubSeq(s.a, 1, 3), st), s.p[1], Prim("Float"))
    IN  CASE s.k = "Binding" ->
               IF Annotated(s) THEN Note(Need(v, "Equal", <<v.r, Prim(s.p[1])>>), s.n, Prim(s.p[1]))
               ELSE Note(v, s.n, v.r)
          [] s.k = "Expression" -> v
          [] s.k = "Return" -> IF ret = <<>> THEN v ELSE Need(v, "Equal", <<v.r, ret[1]>>)
          [] s.k = "If" -> GatherIf(s, st, ret)
          [] s.k = "While" -> GatherB(s.a[2], it, ret)
          [] s.k \in {"For", "ForKV"} -> GatherB(s.a[2], F[Len(s.p)], ret)
          [] s.k = "ForRange" -> GatherB(s.a[4], range, ret)
          [] s.k = "FieldAssign" -> GatherAll(s.a, st)
          [] s.k = "PatternBinding" -> NotePattern(s.a[1], v.r, v)
          [] OTHER -> st
GatherB(b, st, ret) ==
    LET F[j \in 0 .. Len(Stmts(b))] == IF j = 0 THEN st ELSE GatherStmt(b.a[j], F[j - 1], ret)
        done == F[Len(Stmts(b))]
    IN  IF IsAbsent(ValueOf(b)) THEN Typed(done, Prim("Unit")) ELSE GatherE(ValueOf(b), done)

(* collect_function_constraints: a function has a type only once its body  *)
(* is done, so a call before that sees Unknown.                            *)
GatherFunction(f, st) ==
    LET F[j \in 0 .. Len(f.p)] ==
            IF j = 0 THEN [s |-> st, ts |-> <<>>]
            ELSE LET one == Fresh(F[j - 1].s)
                 IN  [s |-> Note(one, f.p[j], one.r), ts |-> Append(F[j - 1].ts, one.r)]
        ps == F[Len(f.p)]
        ret == Fresh(ps.s)
        body == GatherB(f.a[1], ret, <<ret.r>>)
        valued == ~ IsAbsent(ValueOf(f.a[1]))
        done == IF valued /\ HasReturn(f.a[1]) THEN Need(body, "Equal", <<body.r, ret.r>>) ELSE body
    IN  Note(done, f.n, FuncT(ps.ts, IF ~ valued /\ HasReturn(f.a[1]) THEN ret.r ELSE body.r))

(* The environment analyze starts from: types, constructors, actors and    *)
(* the makers of stores.                                                   *)
DeclaredTypes(m) ==
    LET ofType(t) == [c \in {t.n} \cup {v.n : v \in {u \in Elems(t.a) : u.k = "Variant"}} |->
                        LET vs == {u \in Elems(t.a) : u.k = "Variant" /\ u.n = c}
                            fields == Len((CHOOSE u \in vs : TRUE).p)
                        IN  IF vs = {} \/ fields = 0 THEN Adt(t.n)
                            ELSE FuncT([j \in 1 .. fields |-> AnyT], Adt(t.n))]
        ofStore(s) == IF s.i = 1 THEN s.n :> Prim("Actor") ELSE "make_" \o s.n :> FuncT(<<>>, StoreT(s.n))
        enums == SelectSeq(m.types, LAMBDA t : \E v \in Elems(t.a) : v.k = "Variant")
        all == Each(ofType, enums) \o Each(ofStore, m.stores)
        F[j \in 0 .. Len(all)] == IF j = 0 THEN [x \in {} |-> Unknown] ELSE all[j] @@ F[j - 1]
    IN  F[Len(all)]

(* collect_program_constraints: the globals, then the functions.           *)
GatherProgram(m) ==
    LET start == Gather(DeclaredTypes(m))
        G[j \in 0 .. Len(m.globals)] ==
            IF j = 0 THEN start
            ELSE LET s == GatherE(m.globals[j].a[1], G[j - 1]) IN Note(s, m.globals[j].n, s.r)
        F[j \in 0 .. Len(m.functions)] ==
            IF j = 0 THEN G[Len(m.globals)] ELSE GatherFunction(m.functions[j], F[j - 1])
    IN  F[Len(m.functions)]
=============================================================================
