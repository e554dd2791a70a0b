------------------------------- MODULE Machine -------------------------------
(***************************************************************************)
(* A whole program compiled (CodeGenerator::compile) and the emitted code  *)
(* executed.  Execution stands for LLVM and the runtime's calling          *)
(* conventions; what a program does is its result and what it prints.      *)
(***************************************************************************)
EXTENDS Codegen

CONSTANT
    Fuel    \* loop iterations and calls after which a run is cut off
ASSUME FuelAssumption == Fuel \in Nat \ {0}

FunctionsOf(items) == {f \in Elems(items) : f.k = "Function"}
GlobalsOf(items) == SelectSeq(items, LAMBDA g : g.k = "Binding")
ConstructorsOf(items) ==
    LET vs == UNION {{v \in Elems(t.a) : v.k = "Variant"} : t \in {u \in Elems(items) : u.k = "Type"}}
    IN  [c \in {v.n : v \in vs} |-> Len((CHOOSE v \in vs : v.n = c).p)]

(* compute_reachable_functions, collect_block_refs, collect_expr_refs:     *)
(* every name that a reachable body or a global's initial value mentions,  *)
(* from main on; the defaults of parameters are not looked into.  Without  *)
(* a main everything is reachable.                                         *)
Refs(e) == {m.n : m \in {q \in Nodes(e) : q.k = "Identifier"}}
RECURSIVE Reach(_, _)
Reach(fs, names) ==
    LET more == names \cup UNION {Refs(f.a[1]) : f \in {g \in fs : g.n \in names}}
    IN  IF more = names THEN names ELSE Reach(fs, more)
Reachable(items) ==
    LET fs == FunctionsOf(items)
        roots == {"main"} \cup UNION {Refs(g.a[1]) : g \in Elems(GlobalsOf(items))}
    IN  IF \E f \in fs : f.n = "main" THEN {f \in fs : f.n \in Reach(fs, roots)} ELSE fs

(* The context of code generation; ty is what type inference found.        *)
Context(items, ty) ==
    LET fs == Reachable(items)
    IN  [funs |-> [x \in {f.n : f \in fs} |-> CHOOSE f \in fs : f.n = x],
         ctors |-> ConstructorsOf(items), globals |-> {g.n : g \in Elems(GlobalsOf(items))},
         ty |-> ty]

(* build_function_body: parameters of type Int are unboxed on entry.       *)
(* build_specialized_function_body does the same with the types of a       *)
(* variant, and converts the result.                                       *)
EmitBody(f, types, ret, lams, cx) ==
    LET ints == {f.p[j] : j \in {l \in DOMAIN f.p : types[l] = Prim("Int")}}
        F[j \in 0 .. Len(f.p)] ==
            IF j = 0 THEN [FnContext(Elems(f.p), lams, f.n, f.n) EXCEPT !.native = ints, !.ret = ret]
            ELSE IF f.p[j] \in ints THEN Put(F[j - 1], Ins("unbox", 0, f.p[j], UnitV, Absent, <<>>, <<>>))
            ELSE F[j - 1]
        body == EmitBlock(f.a[1], F[Len(f.p)], cx)
    IN  IF ret = Prim("Int") /\ body.err = "" THEN ToInt(body) ELSE body

(* Each function, one after the other (lambdas are numbered through the    *)
(* whole program), then the variants, then the globals' initial values.    *)
Add(out, x, f, st) ==
    [out EXCEPT !.funs = (x :> [params |-> f.p, code |-> st.code, r |-> st.r]) @@ @, !.lams = st.lams,
                !.err = IF @ = "" THEN st.err ELSE @]
RECURSIVE EmitFunctions(_, _, _)
EmitFunctions(fs, out, cx) ==
    IF fs = {} THEN out
    ELSE LET f == CHOOSE g \in fs : TRUE
             types == [j \in DOMAIN f.p |-> LocalType(f.p[j], f.n, cx)]
         IN  EmitFunctions(fs \ {f}, Add(out, f.n, f, EmitBody(f, types, Unknown, out.lams, cx)), cx)
RECURSIVE EmitVariants(_, _, _)
EmitVariants(vs, out, cx) ==
    IF vs = {} THEN out
    ELSE LET v == CHOOSE w \in vs : TRUE
             f == cx.funs[v[1]]
             ret == GlobalType(f.n, cx)
             st == EmitBody(f, v[2], IF ret.c = "Func" THEN Last1(ret.a) ELSE Unknown, out.lams, cx)
         IN  EmitVariants(vs \ {v}, Add(out, VariantName(f.n, v[2]), f, st), cx)
VariantsOf(cx) ==
    UNION {{<<x, sig>> : sig \in {t \in cx.ty.mono[x] : Len(t) = Len(cx.funs[x].p)}} :
             x \in DOMAIN cx.ty.mono \cap DOMAIN cx.funs}
CompileProgram(items, ty) ==
    LET cx == Context(items, ty)
        plain == EmitFunctions(Reachable(items),
                               [funs |-> NoCache, lams |-> <<>>, err |-> ""], cx)
        out == EmitVariants(VariantsOf(cx), plain, cx)
        init == EmitStmts(GlobalsOf(items), FnContext({}, out.lams, "", ""), cx)
    IN  [funs |-> out.funs, lams |-> init.lams, init |-> init.code,
         err |-> IF out.err = "" THEN init.err ELSE out.err]

-----------------------------------------------------------------------------
(* emit_match_condition: what the emitted test of a pattern answers, and   *)
(* bind_pattern_variables: the names it stores.  A list pattern's elements *)
(* are read at their own positions even after a rest, and an Or binds the  *)
(* names of its first alternative that matches.                            *)
Trivial(pat) == pat.k \in {"PIdentifier", "PWildcard", "PRest"}
RECURSIVE TestPat(_, _)
TestPat(pat, v) ==
    CASE Trivial(pat) -> TRUE
      [] pat.k = "PInteger" -> Truthy(EqualV(v, Num(pat.i)))
      [] pat.k = "PBool" -> Truthy(EqualV(v, BoolV(pat.i = 1)))
      [] pat.k = "PString" -> Truthy(EqualV(v, Text(pat.n)))
      [] pat.k \in {"PRange", "PRangeBinding"} -> IsNum(v) /\ v.i >= pat.i /\ v.i <= pat.a[1].i
      [] pat.k = "POr" -> \E j \in DOMAIN pat.a : TestPat(pat.a[j], v)
      [] pat.k = "PConstructor" ->
           /\ v.t = "tagged" /\ v.n = pat.n
           /\ \A j \in DOMAIN pat.a : TestPat(pat.a[j], FieldOf(v, j - 1))
      [] pat.k = "PList" ->
           LET rest == \E j \in DOMAIN pat.a : pat.a[j].k = "PRest"
               fixed == Cardinality({j \in DOMAIN pat.a : pat.a[j].k # "PRest"})
           IN  /\ v.t = "list"
               /\ IF rest THEN Len(v.s) >= fixed ELSE Len(v.s) = fixed
               /\ \A j \in DOMAIN pat.a : TestPat(pat.a[j], Nth(v, j - 1))

NoNames == [x \in {} |-> UnitV]
RECURSIVE BindPat(_, _)
BindAll(pats, vals) ==
    LET F[j \in 0 .. Len(pats)] == IF j = 0 THEN NoNames ELSE BindPat(pats[j], vals[j]) @@ F[j - 1]
    IN  F[Len(pats)]
BindPat(pat, v) ==
    CASE pat.k = "PIdentifier" -> pat.n :> v
      [] pat.k = "PRest" -> pat.n :> v
      [] pat.k = "PConstructor" -> BindAll(pat.a, [j \in DOMAIN pat.a |-> FieldOf(v, j - 1)])
      [] pat.k = "PList" ->
           BindAll(pat.a, [j \in DOMAIN pat.a |->
                              IF pat.a[j].k = "PRest" THEN SliceFrom(v, j - 1) ELSE Nth(v, j - 1)])
      [] pat.k = "POr" ->
           LET ok == {j \in DOMAIN pat.a : TestPat(pat.a[j], v)}
           IN  IF ok = {} THEN NoNames ELSE BindPat(pat.a[CHOOSE j \in ok : \A l \in ok : j <= l], v)
      [] OTHER -> NoNames

(* The names a test stores whether or not it succeeds.                     *)
RangeNames(pat) == {m.n : m \in {q \in Nodes(pat) : q.k = "PRangeBinding"}}

-----------------------------------------------------------------------------
(* The state of a run: slots and temporaries of the current frame, the     *)
(* output, the iterations and calls left, the globals, and how control     *)
(* leaves the code: "ok" falls through, "Break", "Continue", "return" with *)
(* val, or a fault: "undef" (an uninitialised slot was read), "fault" (a   *)
(* call of something that is not a closure), "garbage" (a value that is no *)
(* number was converted to an integer, or a slot was read in another       *)
(* representation than it was written in), "fuel".                         *)
Frame(vars, out, fuel, globals) ==
    [vars |-> vars, tmp |-> [t \in {} |-> UnitV], out |-> out, fuel |-> fuel, globals |-> globals,
     sig |-> "ok", val |-> UnitV]
Stop(s, why) == [s EXCEPT !.sig = why]
SetTmp(s, d, v) == [s EXCEPT !.tmp = (d :> v) @@ @]
(* A frame's effects seen by its caller.                                   *)
Resume(s, callee) == [s EXCEPT !.out = callee.out, !.fuel = callee.fuel]
Faults == {"undef", "fault", "garbage", "fuel"}
(* A slot that holds a bare integer.                                       *)
Raw(v) == Val("raw", v.i, "", <<>>)

RECURSIVE Exec(_, _, _)
RECURSIVE Step(_, _, _)
Exec(code, s, pr) ==
    IF code = <<>> \/ s.sig # "ok" THEN s ELSE Exec(Tail(code), Step(Head(code), s, pr), pr)

(* A call of code with parameters; d is where its result goes.             *)
RunFn(fn, names, args, d, s, pr) ==
    LET n == IF Len(names) < Len(args) THEN Len(names) ELSE Len(args)
        vars == [x \in {names[j] : j \in 1 .. n} |->
                    args[CHOOSE j \in 1 .. n : names[j] = x /\ \A l \in j + 1 .. n : names[l] # x]]
        e == Exec(fn.code, Frame(vars, s.out, s.fuel - 1, s.globals), pr)
        r == Resume(s, e)
    IN  IF s.fuel = 0 THEN Stop(s, "fuel")
        ELSE IF e.sig \in Faults THEN Stop(r, e.sig)
        ELSE SetTmp(r, d, IF e.sig = "return" THEN e.val ELSE e.tmp[fn.r])

(* Loops.  The counted loops over a list and over a range advance their    *)
(* counter at the end of the body, which a continue skips; a while and an  *)
(* iterator do not.                                                        *)
Spend(s) == IF s.fuel = 0 THEN Stop(s, "fuel") ELSE [s EXCEPT !.fuel = @ - 1]
Continued(s) == IF s.sig = "Continue" THEN [s EXCEPT !.sig = "ok"] ELSE s
LeaveLoop(s) == IF s.sig = "Break" THEN [s EXCEPT !.sig = "ok"] ELSE s
StoreTo(s, x, v) == [s EXCEPT !.vars = (x :> v) @@ @]

RECURSIVE LoopWhile(_, _, _)
LoopWhile(ins, s, pr) ==
    LET c == Exec(ins.c[1], Spend(s), pr)
        b == Continued(Exec(ins.c[2], c, pr))
    IN  IF c.sig # "ok" \/ ~ Truthy(c.tmp[ins.r[1]]) THEN c
        ELSE IF b.sig # "ok" THEN LeaveLoop(b) ELSE LoopWhile(ins, b, pr)

RECURSIVE LoopOver(_, _, _, _)
LoopOver(ins, items, s, pr) ==
    LET b == Exec(ins.c[1], StoreTo(Spend(s), ins.n, Head(items)), pr)
        counted == ins.o = "forlist"
    IN  IF items = <<>> \/ (~counted /\ Head(items).t \in {"unit", "none"}) THEN s
        ELSE IF b.sig = "Continue" /\ counted THEN LoopOver(ins, items, Continued(b), pr)
        ELSE IF Continued(b).sig # "ok" THEN LeaveLoop(b)
        ELSE LoopOver(ins, Tail(items), Continued(b), pr)

RECURSIVE LoopRange(_, _, _, _, _)
LoopRange(ins, at, to, s, pr) ==
    LET b == Exec(ins.c[1], StoreTo(Spend(s), ins.n, IF ins.v = BoolV(TRUE) THEN Raw(Num(at)) ELSE Num(at)), pr)
        step == s.tmp[ins.r[3]].i
    IN  IF at >= to THEN s
        ELSE IF b.sig = "Continue" THEN LoopRange(ins, at, to, Continued(b), pr)
        ELSE IF b.sig # "ok" THEN LeaveLoop(b)
        ELSE LoopRange(ins, at + step, to, b, pr)

RECURSIVE LoopComp(_, _, _, _, _)
LoopComp(ins, items, acc, s, pr) ==
    LET c == Exec(ins.c[1], StoreTo(Spend(s), ins.n, Head(items)), pr)
        b == Exec(ins.c[2], c, pr)
    IN  IF items = <<>> \/ Head(items).t \in {"unit", "none"} THEN SetTmp(s, ins.d, ListV(acc))
        ELSE IF c.sig # "ok" THEN c
        ELSE IF ~ Truthy(c.tmp[ins.r[2]]) THEN LoopComp(ins, Tail(items), acc, c, pr)
        ELSE IF b.sig # "ok" THEN b
        ELSE LoopComp(ins, Tail(items), Append(acc, b.tmp[ins.r[3]]), b, pr)

Branch(s, pr, code, t, d) ==
    LET e == Exec(code, s, pr) IN IF e.sig = "ok" THEN SetTmp(e, d, e.tmp[t]) ELSE e

(* An arm: its test is known; the guard and the body, or the arms after    *)
(* it.                                                                     *)
ExecArm(ins, s, pr) ==
    LET g == Exec(ins.c[1], s, pr)
        in == Truthy(s.tmp[ins.r[1]])
    IN  CASE in /\ g.sig # "ok" -> g
          [] in /\ g.sig = "ok" /\ Truthy(g.tmp[ins.r[2]]) -> Branch(g, pr, ins.c[2], ins.r[3], ins.d)
          [] OTHER -> Branch(IF in THEN g ELSE s, pr, ins.c[3], ins.r[4], ins.d)

Step(ins, s, pr) ==
    LET args == [j \in DOMAIN ins.r |-> s.tmp[ins.r[j]]]
        Give(v) == SetTmp(s, ins.d, v)
        f == args[1]
    IN  CASE ins.o = "const" -> Give(ins.v)
          [] ins.o \in {"load", "loadint"} ->
               IF ins.n \notin DOMAIN s.vars THEN Stop(s, "undef")
               ELSE IF (s.vars[ins.n].t = "raw") # (ins.o = "loadint") THEN Stop(s, "garbage")
               ELSE Give([s.vars[ins.n] EXCEPT !.t = IF @ = "raw" THEN "number" ELSE @])
          [] ins.o = "toint" -> IF IsNum(args[1]) THEN Give(args[1]) ELSE Stop(s, "garbage")
          [] ins.o = "unbox" ->
               IF ins.n \in DOMAIN s.vars /\ IsNum(s.vars[ins.n]) THEN StoreTo(s, ins.n, Raw(s.vars[ins.n]))
               ELSE Stop(s, "garbage")
          [] ins.o = "global" -> Give(IF ins.n \in DOMAIN s.globals THEN s.globals[ins.n] ELSE Num(0))
          [] ins.o = "store" -> StoreTo(s, ins.n, args[1])
          [] ins.o = "storeint" -> StoreTo(s, ins.n, Raw(args[1]))
          [] ins.o = "bin" -> Give(BinV(ins.n, args[1], args[2]))
          [] ins.o = "fbin" -> Give(FastV(ins.n, args[1], args[2]))
          [] ins.o = "fneg" -> IF IsNum(args[1]) THEN Give(NegV(args[1])) ELSE Stop(s, "garbage")
          [] ins.o = "un" -> Give(UnV(ins.n, args[1]))
          [] ins.o = "list" -> Give(ListV(<<>> \o args))
          [] ins.o = "tagged" -> Give(TaggedV(ins.n, <<>> \o args))
          [] ins.o = "index" -> Give(IF IsNum(args[2]) THEN Nth(args[1], args[2].i) ELSE UnitV)
          [] ins.o = "log" -> SetTmp([s EXCEPT !.out = Append(@, args[1])], ins.d, UnitV)
          [] ins.o = "closure" -> Give(ClosureV(ins.v.i, <<>> \o args))
          [] ins.o = "fnref" -> Give(Val("function", 0, ins.n, <<>>))
          [] ins.o = "call" -> RunFn(pr.funs[ins.n], pr.funs[ins.n].params, args, ins.d, s, pr)
          [] ins.o = "invoke" ->
               CASE f.t = "closure" ->
                      RunFn(pr.lams[f.i], pr.lams[f.i].caps \o pr.lams[f.i].params, f.s \o Tail(<<>> \o args),
                            ins.d, s, pr)
                 [] f.t = "function" -> RunFn(pr.funs[f.n], pr.funs[f.n].params, Tail(<<>> \o args), ins.d, s, pr)
                 [] OTHER -> Give(UnitV)
          [] ins.o \in {"And", "Or"} ->
               IF Truthy(args[1]) # (ins.o = "And") THEN Give(BoolV(ins.o = "Or"))
               ELSE LET e == Exec(ins.c[1], s, pr)
                    IN  IF e.sig = "ok" THEN SetTmp(e, ins.d, BoolV(Truthy(e.tmp[ins.r[2]]))) ELSE e
          [] ins.o = "if" ->
               IF Truthy(s.tmp[ins.r[1]]) THEN Branch(s, pr, ins.c[1], ins.r[2], ins.d)
               ELSE Branch(s, pr, ins.c[2], ins.r[3], ins.d)
          [] ins.o = "test" ->
               [Give(BoolV(TestPat(ins.x, args[1]))) EXCEPT
                   !.vars = [x \in RangeNames(ins.x) |-> args[1]] @@ @]
          [] ins.o = "bind" -> [s EXCEPT !.vars = BindPat(ins.x, args[1]) @@ @]
          [] ins.o = "arm" -> ExecArm(ins, s, pr)
          [] ins.o = "while" -> LoopWhile(ins, s, pr)
          [] ins.o \in {"forlist", "foriter"} ->
               LoopOver(ins, IF args[1].t = "list" THEN args[1].s ELSE <<>>, s, pr)
          [] ins.o = "forrange" -> LoopRange(ins, args[1].i, args[2].i, s, pr)
          [] ins.o = "comp" -> LoopComp(ins, IF args[1].t = "list" THEN args[1].s ELSE <<>>, <<>>, s, pr)
          [] ins.o = "propagate" -> IF IsErr(args[1]) THEN [Stop(s, "return") EXCEPT !.val = args[1]] ELSE s
          [] ins.o = "return" -> [Stop(s, "return") EXCEPT !.val = args[1]]
          [] ins.o \in {"Break", "Continue"} -> Stop(s, ins.o)

(* What a program does: main's result after the globals' initial values,   *)
(* and the output.                                                         *)
Outcome(sig, val, out) == [sig |-> sig, val |-> val, out |-> out]
RECURSIVE InitGlobals(_, _, _)
InitGlobals(code, s, pr) ==
    LET next == Step(Head(code), s, pr)
    IN  IF code = <<>> \/ s.sig # "ok" THEN s ELSE InitGlobals(Tail(code), [next EXCEPT !.globals = next.vars], pr)
RunProgram(pr) ==
    LET g == InitGlobals(pr.init, Frame(NoNames, <<>>, Fuel, NoNames), pr)
        m == RunFn(pr.funs["main"], <<>>, <<>>, 0, [g EXCEPT !.tmp = NoNames], pr)
    IN  IF g.sig # "ok" THEN Outcome(g.sig, UnitV, g.out)
        ELSE IF m.sig # "ok" THEN Outcome(m.sig, UnitV, m.out) ELSE Outcome("ok", m.tmp[0], m.out)
=============================================================================
