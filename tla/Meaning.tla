------------------------------ MODULE Meaning ------------------------------
(***************************************************************************)
(* What a Coral program means, read off its tree: a reference for the      *)
(* compiler, written as an evaluator with environments instead of          *)
(* temporaries, slots and caches.  Arguments are evaluated in the order    *)
(* they are written, a default in the scope of the function it belongs to, *)
(* and a continue goes on with the next element.                           *)
(***************************************************************************)
EXTENDS Syntax, CoralValues

(* The state of an evaluation: the environment, the globals, the output,   *)
(* the steps left, how control leaves (see Machine) and the last value.    *)
State(env, globals, out, fuel) ==
    [env |-> env, globals |-> globals, out |-> out, fuel |-> fuel, sig |-> "ok", val |-> UnitV]
With(s, v) == [s EXCEPT !.val = v]
Leaves(s, how) == [s EXCEPT !.sig = how]
Tick(s) == IF s.fuel = 0 THEN Leaves(s, "fuel") ELSE [s EXCEPT !.fuel = @ - 1]
Let(s, x, v) == [s EXCEPT !.env = (x :> v) @@ @]
Returned(s) == IF s.sig = "return" THEN Leaves(s, "ok") ELSE s

(* A pattern against a value: [ok, env], the names it binds.               *)
NoMatch == [ok |-> FALSE, env |-> [x \in {} |-> UnitV]]
Matched(env) == [ok |-> TRUE, env |-> env]
Holds(b) == IF b THEN Matched([x \in {} |-> UnitV]) ELSE NoMatch
RECURSIVE Against(_, _)
AgainstAll(ps, vs) ==
    LET ms == [j \in DOMAIN ps |-> Against(ps[j], vs[j])]
        F[j \in 0 .. Len(ps)] == IF j = 0 THEN [x \in {} |-> UnitV] ELSE ms[j].env @@ F[j - 1]
    IN  IF \A j \in DOMAIN ps : ms[j].ok THEN Matched(F[Len(ps)]) ELSE NoMatch
Against(pat, v) ==
    CASE pat.k = "PWildcard" -> Holds(TRUE)
      [] pat.k \in {"PIdentifier", "PRest"} -> Matched(pat.n :> v)
      [] pat.k = "PInteger" -> Holds(v = Num(pat.i))
      [] pat.k = "PBool" -> Holds(v = BoolV(pat.i = 1))
      [] pat.k = "PString" -> Holds(v = Text(pat.n))
      [] pat.k = "PRange" -> Holds(IsNum(v) /\ v.i \in pat.i .. pat.a[1].i)
      [] pat.k = "PRangeBinding" ->
           IF IsNum(v) /\ v.i \in pat.i .. pat.a[1].i THEN Matched(pat.n :> v) ELSE NoMatch
      [] pat.k = "POr" ->
           LET ok == {j \in DOMAIN pat.a : Against(pat.a[j], v).ok}
           IN  IF ok = {} THEN NoMatch ELSE Against(pat.a[CHOOSE j \in ok : \A l \in ok : j <= l], v)
      [] pat.k = "PConstructor" ->
           IF v.t = "tagged" /\ v.n = pat.n /\ Len(v.s) = Len(pat.a) THEN AgainstAll(pat.a, v.s) ELSE NoMatch
      [] pat.k = "PList" ->
           IF v.t # "list" THEN NoMatch
           ELSE IF pat.a # <<>> /\ Last1(pat.a).k = "PRest"
           THEN IF Len(v.s) < Len(pat.a) - 1 THEN NoMatch
                ELSE AgainstAll(pat.a, SubSeq(v.s, 1, Len(pat.a) - 1)
                                        \o <<ListV(SubSeq(v.s, Len(pat.a), Len(v.s)))>>)
           ELSE IF Len(v.s) = Len(pat.a) THEN AgainstAll(pat.a, v.s) ELSE NoMatch

-----------------------------------------------------------------------------
RECURSIVE Eval(_, _, _)
RECURSIVE EvalBlock(_, _, _)
RECURSIVE EvalStmt(_, _, _)
RECURSIVE EvalAll(_, _, _, _)

(* Expressions from left to right; val is the sequence of their values.    *)
EvalAll(es, acc, s, P) ==
    IF s.sig # "ok" THEN s
    ELSE IF es = <<>> THEN With(s, acc)
    ELSE LET one == Eval(Head(es), s, P) IN EvalAll(Tail(es), Append(acc, one.val), one, P)

(* A body run in an environment of its own.                                *)
CallBody(body, env, s, P) ==
    LET e == Returned(EvalBlock(body, State(env, s.globals, s.out, s.fuel - 1), P))
    IN  IF s.fuel = 0 THEN Leaves(s, "fuel")
        ELSE [s EXCEPT !.out = e.out, !.fuel = e.fuel, !.sig = e.sig, !.val = e.val]

(* A call of f with the values of the arguments written; the rest come     *)
(* from the defaults, one parameter after the other.                       *)
RECURSIVE Complete(_, _, _, _)
Complete(f, env, s, P) ==
    LET missing == {q \in DOMAIN f.p : f.p[q] \notin DOMAIN env}
        q == CHOOSE m \in missing : \A l \in missing : m <= l
        d == Eval(f.a[q + 1], [s EXCEPT !.env = env], P)
    IN  IF s.sig # "ok" THEN s
        ELSE IF missing = {} THEN CallBody(f.a[1], env, s, P)
        ELSE Complete(f, (f.p[q] :> d.val) @@ env, [d EXCEPT !.env = s.env], P)
CallFunction(f, names, vals, s, P) ==
    LET Param(j) == IF names[j] = "" THEN f.p[j] ELSE names[j]
        given == {Param(j) : j \in DOMAIN vals}
    IN  Complete(f, [x \in given |-> vals[CHOOSE j \in DOMAIN vals : Param(j) = x]], s, P)

(* The placeholders an argument leaves open: those of a nested call's      *)
(* arguments and of a pipeline's right side are not among them.            *)
AllHoles(e) == {m.i : m \in {h \in Nodes(e) : h.k = "Placeholder"}}
RECURSIVE Holes(_)
Holes(e) ==
    CASE e.k = "Placeholder" -> {e.i}
      [] e.k \in {"Call", "Pipeline"} -> Holes(e.a[1])
      [] OTHER -> UNION {Holes(e.a[j]) : j \in DOMAIN e.a}
HoleName(v) == "$" \o ToString(v)
(* An argument with placeholders stands for a function of them.            *)
Section(e) == [params |-> [j \in 1 .. Cardinality(Holes(e)) |-> HoleName(j - 1)], body |-> BlockOf(e)]
Closure(ps, body, env) == Val("closure", 0, "", <<[params |-> ps, body |-> body], env>>)
CallClosure(v, vals, s, P) ==
    IF v.t = "closure"
    THEN CallBody(v.s[1].body,
                  [x \in Elems(v.s[1].params) |->
                      vals[CHOOSE j \in DOMAIN vals : v.s[1].params[j] = x]] @@ v.s[2], s, P)
    ELSE IF v.t = "function" THEN CallFunction(P.funs[v.n], [j \in DOMAIN vals |-> ""], vals, s, P)
    ELSE With(s, UnitV)

EvalCall(e, first, s, P) ==
    LET f == IF e.a[1].k = "Identifier" THEN e.a[1].n ELSE ""
        written == Each(LAMBDA a : IF Holes(a) = {} \/ first # <<>> \/ HoleName(0) \in DOMAIN s.env THEN a
                                   ELSE Lambda(Section(a).params, Section(a).body), Tail(e.a))
        args == EvalAll(written, first, s, P)
        names == [j \in DOMAIN first |-> ""] \o e.p
        callee == Eval(e.a[1], args, P)
    IN  IF args.sig # "ok" THEN args
        ELSE IF f = "log" THEN [args EXCEPT !.out = Append(@, args.val[1]), !.val = UnitV]
        ELSE IF f \in DOMAIN P.funs THEN CallFunction(P.funs[f], names, args.val, args, P)
        ELSE IF f \in DOMAIN P.ctors THEN With(args, TaggedV(f, args.val))
        ELSE IF callee.sig # "ok" THEN callee ELSE CallClosure(callee.val, args.val, callee, P)

(* A pipeline hands its left value to the right side: in the place of a    *)
(* placeholder, or as the first argument, or as the argument.              *)
EvalPipeline(e, s, P) ==
    LET l == Eval(e.a[1], s, P)
        r == e.a[2]
        piped == [l EXCEPT !.env = (HoleName(0) :> l.val) @@ @]
        f == Eval(r, l, P)
    IN  IF l.sig # "ok" THEN l
        ELSE IF AllHoles(r) # {} THEN [Eval(r, piped, P) EXCEPT !.env = l.env]
        ELSE IF r.k = "Call" THEN EvalCall(r, <<l.val>>, l, P)
        ELSE EvalCall(CallE(r, <<>>), <<l.val>>, l, P)

RECURSIVE EvalArms(_, _, _, _)
EvalArms(arms, v, s, P) ==
    LET arm == Head(arms)
        m == Against(arm.a[1], v)
        inArm == [s EXCEPT !.env = m.env @@ @]
        g == IF IsAbsent(arm.a[2]) THEN With(inArm, BoolV(TRUE)) ELSE Eval(arm.a[2], inArm, P)
    IN  IF Len(arms) = 1 THEN (IF IsAbsent(arm) THEN With(s, Num(0)) ELSE EvalBlock(arm, s, P))
        ELSE IF ~ m.ok THEN EvalArms(Tail(arms), v, s, P)
        ELSE IF g.sig # "ok" THEN g
        ELSE IF Truthy(g.val) THEN EvalBlock(arm.a[3], g, P) ELSE EvalArms(Tail(arms), v, g, P)

(* Elements one after the other; acc collects the values of a              *)
(* comprehension.                                                          *)
RECURSIVE EvalEach(_, _, _, _, _)
EvalEach(e, items, acc, s, P) ==
    LET b == Let(Tick(s), e.p[1], Head(items))
        c == IF IsAbsent(e.a[3]) THEN With(b, BoolV(TRUE)) ELSE Eval(e.a[3], b, P)
        v == Eval(e.a[1], c, P)
    IN  IF items = <<>> THEN With(s, ListV(acc))
        ELSE IF c.sig # "ok" THEN c
        ELSE IF ~ Truthy(c.val) THEN EvalEach(e, Tail(items), acc, c, P)
        ELSE IF v.sig # "ok" THEN v ELSE EvalEach(e, Tail(items), Append(acc, v.val), v, P)

EvalName(x, s, P) ==
    IF x \in DOMAIN s.env THEN With(s, s.env[x])
    ELSE IF x \in DOMAIN s.globals THEN With(s, s.globals[x])
    ELSE IF x \in DOMAIN P.ctors /\ P.ctors[x] = 0 THEN With(s, TaggedV(x, <<>>))
    ELSE IF x \in DOMAIN P.funs THEN With(s, Val("function", 0, x, <<>>)) ELSE Leaves(s, "undef")

Eval(e, s, P) ==
    LET l == Eval(e.a[1], s, P)
        all == EvalAll(e.a, <<>>, s, P)
        r == all.val
        strict == e.k \in {"List", "Index"} \/ e.k = "Unary" \/ (e.k = "Binary" /\ e.n \notin {"And", "Or"})
    IN  IF s.sig # "ok" THEN s
        ELSE IF strict /\ all.sig # "ok" THEN all
        ELSE
        CASE e.k = "Integer" -> With(s, Num(e.i))
          [] e.k = "Bool" -> With(s, BoolV(e.i = 1))
          [] e.k = "String" -> With(s, Text(e.n))
          [] e.k = "None" -> With(s, NoneV)
          [] e.k = "Unit" -> With(s, UnitV)
          [] e.k = "ErrorValue" -> With(s, ErrV(e.n))
          [] e.k = "Identifier" -> EvalName(e.n, s, P)
          [] e.k = "Placeholder" -> EvalName(HoleName(e.i), s, P)
          [] e.k = "Binary" /\ e.n \notin {"And", "Or"} -> With(all, BinV(e.n, r[1], r[2]))
          [] e.k = "Binary" /\ e.n \in {"And", "Or"} ->
               IF l.sig # "ok" THEN l
               ELSE IF Truthy(l.val) # (e.n = "And") THEN With(l, BoolV(e.n = "Or"))
               ELSE LET q == Eval(e.a[2], l, P) IN IF q.sig # "ok" THEN q ELSE With(q, BoolV(Truthy(q.val)))
          [] e.k = "Unary" -> With(all, UnV(e.n, r[1]))
          [] e.k = "List" -> With(all, ListV(r))
          [] e.k = "Index" -> With(all, IF IsNum(r[2]) THEN Nth(r[1], r[2].i) ELSE UnitV)
          [] e.k = "Call" -> EvalCall(e, <<>>, s, P)
          [] e.k = "Pipeline" -> EvalPipeline(e, s, P)
          [] e.k = "Ternary" -> IF l.sig # "ok" THEN l ELSE Eval(e.a[IF Truthy(l.val) THEN 2 ELSE 3], l, P)
          [] e.k = "Match" -> IF l.sig # "ok" THEN l ELSE EvalArms(Tail(e.a), l.val, l, P)
          [] e.k = "Lambda" -> With(s, Closure(e.p, e.a[1], s.env))
          [] e.k = "ListComprehension" ->
               LET it == Eval(e.a[2], s, P)
               IN  IF it.sig # "ok" THEN it
                   ELSE EvalEach(e, IF it.val.t = "list" THEN it.val.s ELSE <<>>, <<>>, it, P)
          [] e.k = "Unsafe" -> EvalBlock(e.a[1], s, P)
          [] e.k = "ErrorPropagate" -> IF l.sig = "ok" /\ IsErr(l.val) THEN Leaves(l, "return") ELSE l

-----------------------------------------------------------------------------
(* Statements.                                                             *)
RECURSIVE EvalIf(_, _, _)
EvalIf(a, s, P) ==
    LET c == Eval(a[1], s, P)
        more == SubSeq(a, 3, Len(a))
    IN  IF c.sig # "ok" THEN c
        ELSE IF Truthy(c.val) THEN EvalBlock(a[2], c, P)
        ELSE IF Len(more) > 1 THEN EvalIf(more, c, P)
        ELSE IF IsAbsent(more[1]) THEN c ELSE EvalBlock(more[1], c, P)

Next1(s) == IF s.sig = "Continue" THEN Leaves(s, "ok") ELSE s
Ended(s) == IF s.sig = "Break" THEN Leaves(s, "ok") ELSE s
RECURSIVE EvalWhile(_, _, _)
EvalWhile(e, s, P) ==
    LET c == Eval(e.a[1], Tick(s), P)
        b == Next1(EvalBlock(e.a[2], c, P))
    IN  IF c.sig # "ok" \/ ~ Truthy(c.val) THEN c
        ELSE IF b.sig # "ok" THEN Ended(b) ELSE EvalWhile(e, b, P)
RECURSIVE EvalLoop(_, _, _, _, _)
EvalLoop(x, items, body, s, P) ==
    LET b == Next1(EvalBlock(body, Let(Tick(s), x, Head(items)), P))
    IN  IF items = <<>> THEN s ELSE IF b.sig # "ok" THEN Ended(b) ELSE EvalLoop(x, Tail(items), body, b, P)
(* The numbers from v on, below w, step by step (step > 0).                *)
RECURSIVE Range3(_, _, _)
Range3(v, w, step) == IF v >= w THEN <<>> ELSE <<Num(v)>> \o Range3(v + step, w, step)

EvalStmt(st, s, P) ==
    LET v == Eval(Last1(st.a), s, P)
        it == Eval(st.a[1], s, P)
        ends == EvalAll(<<st.a[1], st.a[2], IF IsAbsent(st.a[3]) THEN Integer(1) ELSE st.a[3]>>, <<>>, s, P)
    IN  CASE st.k = "Binding" -> IF v.sig = "ok" THEN Let(v, st.n, v.val) ELSE v
          [] st.k = "Expression" -> v
          [] st.k = "Return" -> IF v.sig = "ok" THEN Leaves(v, "return") ELSE v
          [] st.k = "If" -> EvalIf(st.a, s, P)
          [] st.k = "While" -> EvalWhile(st, s, P)
          [] st.k = "For" -> IF it.sig # "ok" THEN it
               ELSE EvalLoop(st.p[1], IF it.val.t = "list" THEN it.val.s ELSE <<>>, st.a[2], it, P)
          [] st.k = "ForRange" -> IF ends.sig # "ok" THEN ends
               ELSE EvalLoop(st.p[1], Range3(ends.val[1].i, ends.val[2].i, ends.val[3].i), st.a[4], ends, P)
          [] st.k \in {"Break", "Continue"} -> Leaves(s, st.k)
          [] st.k = "PatternBinding" ->
               IF v.sig # "ok" THEN v ELSE [v EXCEPT !.env = Against(st.a[1], v.val).env @@ @]

RECURSIVE EvalStmts(_, _, _)
EvalStmts(ss, s, P) ==
    IF ss = <<>> \/ s.sig # "ok" THEN s ELSE EvalStmts(Tail(ss), EvalStmt(Head(ss), s, P), P)
EvalBlock(b, s, P) ==
    LET e == EvalStmts(Stmts(b), s, P)
    IN  IF e.sig # "ok" THEN e
        ELSE IF IsAbsent(ValueOf(b)) THEN With(e, Num(0)) ELSE Eval(ValueOf(b), e, P)

(* The program: its functions, constructors and globals.                   *)
Offers(items) ==
    LET fs == {f \in Elems(items) : f.k = "Function"}
        vs == UNION {{v \in Elems(t.a) : v.k = "Variant"} : t \in {u \in Elems(items) : u.k = "Type"}}
    IN  [funs |-> [x \in {f.n : f \in fs} |-> CHOOSE f \in fs : f.n = x],
         ctors |-> [c \in {v.n : v \in vs} |-> Len((CHOOSE v \in vs : v.n = c).p)]]
RECURSIVE EvalGlobals(_, _, _)
EvalGlobals(ss, s, P) ==
    LET next == EvalStmt(Head(ss), s, P)
    IN  IF ss = <<>> \/ s.sig # "ok" THEN s ELSE EvalGlobals(Tail(ss), [next EXCEPT !.globals = next.env], P)
Meaning(items, fuel) ==
    LET P == Offers(items)
        none == [x \in {} |-> UnitV]
        g == EvalGlobals(SelectSeq(items, LAMBDA i : i.k \in {"Binding", "Expression"}), State(none, none, <<>>, fuel), P)
        m == CallFunction(P.funs["main"], <<>>, <<>>, [g EXCEPT !.env = none], P)
    IN  IF g.sig # "ok" THEN [sig |-> g.sig, val |-> UnitV, out |-> g.out]
        ELSE [sig |-> m.sig, val |-> IF m.sig = "ok" THEN m.val ELSE UnitV, out |-> m.out]
=============================================================================
