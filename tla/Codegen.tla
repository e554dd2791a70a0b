------------------------------- MODULE Codegen -------------------------------
(***************************************************************************)
(* Code generation (src/src/codegen/mod.rs, closures.rs, match_adt.rs):    *)
(* from the analysed and folded tree to instructions over numbered         *)
(* temporaries and named stack slots, with the cache of common             *)
(* subexpressions that emit_expression keeps.                              *)
(*                                                                         *)
(* Basic blocks are kept as nested code sequences: an instruction is       *)
(* [o operation, d destination, n name, v constant, x pattern or names,    *)
(* r operands, c code].                                                    *)
(***************************************************************************)
EXTENDS Types, CoralValues

Ins(o, d, n, v, x, r, c) == [o |-> o, d |-> d, n |-> n, v |-> v, x |-> x, r |-> r, c |-> c]

(* FunctionContext and the code generator's counters while one function is *)
(* emitted.  cache is cse_cache, keyed by the expression itself (the       *)
(* source's key is its text), with the temporary and the region it was     *)
(* computed in; vars is variable_allocas; temps is variables, the bindings *)
(* made while a default argument is emitted; native is unboxed_vars, the   *)
(* slots that hold a bare integer; fn is fn_name ("" in a lambda) and cur  *)
(* current_fn_name; ret is specialized_return_type; r is the last result.  *)
NoCache == [e \in {} |-> 0]
FnContext(names, lams, fn, cur) ==
    [code |-> <<>>, next |-> 1, cache |-> NoCache, vars |-> names, temps |-> NoCache, native |-> {},
     fn |-> fn, cur |-> cur, ret |-> Unknown, region |-> <<>>, lams |-> lams, err |-> "",
     r |-> 0]

Fail(st, why) == IF st.err = "" THEN [st EXCEPT !.err = why] ELSE st
Put(st, ins) == [st EXCEPT !.code = Append(@, ins)]
Def(st, o, n, v, x, r, c) ==
    [Put(st, Ins(o, st.next, n, v, x, r, c)) EXCEPT !.r = st.next, !.next = @ + 1]
Const(st, v) == Def(st, "const", "", v, Absent, <<>>, <<>>)
Zero(st) == Const(st, Num(0))

(* A nested basic block: its own code, an empty cache, a region of its     *)
(* own.                                                                    *)
ClearCache(st) == [st EXCEPT !.cache = NoCache]
Enter(st) == [st EXCEPT !.code = <<>>, !.region = Append(@, st.next), !.next = @ + 1]
Leave(inner, st) == [inner EXCEPT !.code = st.code, !.region = st.region]
Dominates(reg, use) == Len(reg) <= Len(use) /\ SubSeq(use, 1, Len(reg)) = reg

(* expr_cache_key: operators and calls of pure functions whose leaves are  *)
(* names and literals.                                                     *)
PureFunctions == {"len", "length", "abs", "min", "max", "is_number", "type_of"}
RECURSIVE HasKey(_)
HasKeyInner(e) == e.k \in {"Identifier", "Integer", "Bool", "String"} \/ HasKey(e)
HasKey(e) ==
    \/ e.k \in {"Binary", "Unary"} /\ \A j \in DOMAIN e.a : HasKeyInner(e.a[j])
    \/ /\ e.k = "Call" /\ e.a[1].k = "Identifier" /\ e.a[1].n \in PureFunctions
       /\ \A j \in 2 .. Len(e.a) : HasKeyInner(e.a[j])
Mentions(e, x) == \E m \in Nodes(e) : m.k = "Identifier" /\ m.n = x

(* A store to x drops the cached expressions that mention it.              *)
Forget(st, x) ==
    [st EXCEPT !.cache = [e \in {f \in DOMAIN @ : ~ Mentions(f, x)} |-> @[e]]]
StoreVar(st, x, t) == [Put(st, Ins("store", 0, x, UnitV, Absent, <<t>>, <<>>)) EXCEPT !.vars = @ \cup {x}]

(* store_variable_native_int: only the store that makes the slot records   *)
(* that it holds a bare integer.                                           *)
StoreInt(st, x, t) ==
    [Put(st, Ins("storeint", 0, x, UnitV, Absent, <<t>>, <<>>)) EXCEPT
        !.vars = @ \cup {x}, !.native = IF x \in st.vars THEN @ ELSE @ \cup {x}]
(* unbox_to_native_int.                                                    *)
ToInt(st) == Def(st, "toint", "", UnitV, Absent, <<st.r>>, <<>>)

(* pattern_has_bindings, collect_pattern_locals.                           *)
PatternNames(pat) ==
    {m.n : m \in {q \in Nodes(pat) : q.k \in {"PIdentifier", "PRest", "PRangeBinding"}}}

-----------------------------------------------------------------------------
(* collect_captures_expr and collect_captures_block: the names an          *)
(* expression reads that are not local to it, in order, with repetitions.  *)
(* Neither a pattern's names nor a comprehension's variable count as       *)
(* local, and an unsafe block is not looked into.                          *)
RECURSIVE FreeE(_, _)
RECURSIVE FreeB(_, _)
FreeE(e, locals) ==
    CASE e.k = "Identifier" -> IF e.n \in locals THEN <<>> ELSE <<e.n>>
      [] e.k = "Block" -> FreeB(e.a, locals)
      [] e.k = "Lambda" -> FreeE(e.a[1], locals \cup Elems(e.p))
      [] e.k = "Unsafe" \/ e.k \in Patterns -> <<>>
      [] e.k = "ListComprehension" -> FreeE(e.a[2], locals) \o FreeE(e.a[1], locals) \o FreeE(e.a[3], locals)
      [] OTHER -> Flat(Each(LAMBDA c : FreeE(c, locals), e.a))

(* What a statement adds to the locals of the rest of its block; a loop    *)
(* variable is added before the loop's body.                               *)
LocalsOf(s) ==
    CASE s.k = "Binding" -> {s.n}
      [] s.k \in {"For", "ForKV", "ForRange"} -> Elems(s.p)
      [] s.k = "PatternBinding" -> PatternNames(s.a[1])
      [] OTHER -> {}
FreeB(ss, locals) ==
    IF ss = <<>> THEN <<>>
    ELSE LET s == Head(ss)
             loop == s.k \in {"For", "ForKV", "ForRange"}
             heads == Flat(Each(LAMBDA c : FreeE(c, locals), IF loop THEN Front1(s.a) ELSE s.a))
             body == IF loop THEN FreeE(Last1(s.a), locals \cup LocalsOf(s)) ELSE <<>>
         IN  heads \o body \o FreeB(Tail(ss), locals \cup LocalsOf(s))

RECURSIVE Distinct(_)
Distinct(s) ==
    IF s = <<>> THEN <<>>
    ELSE LET d == Distinct(Front1(s))
         IN  IF Last1(s) \in Elems(d) THEN d ELSE Append(d, Last1(s))

(* determine_lambda_captures: those of them that the enclosing function    *)
(* has.                                                                    *)
Captures(lam, st) ==
    SelectSeq(Distinct(FreeE(lam.a[1], Elems(lam.p))),
              LAMBDA x : x \in st.vars \cup DOMAIN st.temps)

-----------------------------------------------------------------------------
(* What the rest of the program offers: cx.funs its reachable functions by *)
(* name, cx.ctors the arity of each constructor, cx.globals, and cx.ty     *)
(* what type inference found (InferTypes).                                 *)
LocalType(x, fn, cx) ==
    IF fn \in DOMAIN cx.ty.locals /\ x \in DOMAIN cx.ty.locals[fn] THEN cx.ty.locals[fn][x] ELSE Unknown
GlobalType(x, cx) == IF x \in DOMAIN cx.ty.env THEN cx.ty.env[x] ELSE Unknown
ReturnType(x, cx) == IF x \in DOMAIN cx.ty.rets THEN cx.ty.rets[x] ELSE Unknown

(* expr_is_int: such an expression is emitted natively, past the cache.    *)
RECURSIVE IsInt(_, _, _)
IsInt(e, st, cx) ==
    \/ e.k = "Integer"
    \/ e.k = "Identifier" /\ e.n \in st.native
    \/ e.k = "Binary" /\ e.n \in {"Add", "Sub", "Mul"} /\ \A j \in {1, 2} : IsInt(e.a[j], st, cx)
    \/ e.k = "Unary" /\ e.n = "Neg" /\ IsInt(e.a[1], st, cx)
    \/ e.k = "Call" /\ e.a[1].k = "Identifier" /\ ReturnType(e.a[1].n, cx) = Prim("Int")
Comparisons == {"Less", "LessEq", "Greater", "GreaterEq", "Equals", "NotEquals"}
NativeOp(e, st, cx) ==
    /\ e.k = "Binary" /\ e.n \in Comparisons \cup {"Add", "Sub", "Mul"}
    /\ IsInt(e.a[1], st, cx) /\ IsInt(e.a[2], st, cx)

(* expr_is_numeric: by the type its name has anywhere in the program, or   *)
(* in this function; a Sub or Mul of anything is taken for a number.       *)
RECURSIVE IsNumeric(_, _, _)
IsNumeric(e, st, cx) ==
    \/ e.k = "Integer"
    \/ /\ e.k = "Identifier"
       /\ {GlobalType(e.n, cx), LocalType(e.n, st.cur, cx)} \cap {Prim("Int"), Prim("Float")} # {}
    \/ e.k = "Unary" /\ e.n = "Neg" /\ IsNumeric(e.a[1], st, cx)
    \/ e.k = "Binary" /\ e.n \in {"Sub", "Mul"}
    \/ e.k = "Binary" /\ e.n = "Add" /\ \A j \in {1, 2} : IsNumeric(e.a[j], st, cx)
    \/ e.k = "Ternary" /\ \A j \in {2, 3} : IsNumeric(e.a[j], st, cx)
    \/ e.k = "Call" /\ e.a[1].k = "Identifier" /\ e.a[1].n \in {"abs", "min", "max", "length"}

(* infer_call_arg_type, and the variant of f that takes such arguments:    *)
(* its name, or "".                                                        *)
ArgType(e, st, cx) ==
    CASE e.k \in {"Integer", "Bool"} -> LiteralTypes[e.k]
      [] e.k = "Identifier" ->
           IF e.n \in st.native THEN Prim("Int")
           ELSE IF LocalType(e.n, st.fn, cx) # Unknown THEN LocalType(e.n, st.fn, cx) ELSE GlobalType(e.n, cx)
      [] e.k = "Call" /\ e.a[1].k = "Identifier" -> ReturnType(e.a[1].n, cx)
      [] e.k \in {"Binary", "Unary"} /\ IsInt(e, st, cx) -> Prim("Int")
      [] OTHER -> Unknown
VariantName(f, sig) ==
    LET F[j \in 0 .. Len(sig)] ==
            IF j = 0 THEN f
            ELSE F[j - 1] \o (IF sig[j].n \in {"Int", "Float", "Bool"} THEN "_" \o sig[j].n ELSE "_Box")
    IN  F[Len(sig)]
Variant1(f, args, st, cx) ==
    LET sig == Each(LAMBDA e : ArgType(e, st, cx), args)
    IN  IF /\ f \in DOMAIN cx.ty.mono /\ sig \in cx.ty.mono[f]
           /\ f \in DOMAIN cx.funs /\ Len(sig) = Len(cx.funs[f].p)
        THEN VariantName(f, sig) ELSE ""

(* Mutant: named arguments are passed in the order given.                  *)
ResolveAsGiven(f, args, names) == [args |-> args, err |-> ""]
(* resolve_named_args: positional arguments, then named ones, then         *)
(* defaults; <<>> and a reason when it fails.                              *)
ResolveNamed(f, args, names) ==
    LET pos == IF \A j \in DOMAIN names : names[j] = "" THEN Len(names)
               ELSE (CHOOSE j \in DOMAIN names : names[j] # "" /\ \A l \in 1 .. j - 1 : names[l] = "") - 1
        Given(q) == {j \in pos + 1 .. Len(args) : names[j] = f.p[q]} \cup
                    (IF q <= pos THEN {q} ELSE {})
        Slot(q) == IF Given(q) = {} THEN f.a[q + 1] ELSE args[CHOOSE j \in Given(q) : TRUE]
    IN  CASE pos > Len(f.p) -> [args |-> <<>>, err |-> "too many arguments"]
          [] \E j \in pos + 1 .. Len(args) : names[j] \notin Elems(f.p) ->
               [args |-> <<>>, err |-> "unknown parameter"]
          [] \E q \in DOMAIN f.p : Cardinality(Given(q)) > 1 -> [args |-> <<>>, err |-> "duplicate argument"]
          [] \E q \in DOMAIN f.p : IsAbsent(Slot(q)) -> [args |-> <<>>, err |-> "missing argument"]
          [] OTHER -> [args |-> Each(Slot, [q \in DOMAIN f.p |-> q]), err |-> ""]

-----------------------------------------------------------------------------
RECURSIVE EmitE(_, _, _)
RECURSIVE EmitNative(_, _, _)
RECURSIVE EmitBlock(_, _, _)
RECURSIVE EmitStmts(_, _, _)

(* Several expressions in order; r is the sequence of their results.       *)
RECURSIVE EmitAll(_, _, _)
EmitAll(es, st, cx) ==
    IF es = <<>> THEN [st EXCEPT !.r = <<>>]
    ELSE LET front == EmitAll(Front1(es), st, cx)
             last == EmitE(Last1(es), front, cx)
         IN  [last EXCEPT !.r = Append(front.r, last.r)]

(* The arguments of a variant: an Int is emitted natively.                 *)
RECURSIVE EmitTyped(_, _, _, _)
EmitTyped(es, types, st, cx) ==
    IF es = <<>> THEN [st EXCEPT !.r = <<>>]
    ELSE LET front == EmitTyped(Front1(es), types, st, cx)
             last == IF types[Len(es)] = Prim("Int") THEN EmitNative(Last1(es), front, cx)
                     ELSE EmitE(Last1(es), front, cx)
         IN  [last EXCEPT !.r = Append(front.r, last.r)]

(* load_variable: slot, default-argument binding, global, constructor      *)
(* without fields, function as a closure.                                  *)
LoadVar(x, st, cx) ==
    CASE x \in st.vars ->
           Def(st, IF x \in st.native THEN "loadint" ELSE "load", x, UnitV, Absent, <<>>, <<>>)
      [] x \notin st.vars /\ x \in DOMAIN st.temps -> [st EXCEPT !.r = st.temps[x]]
      [] x \notin st.vars \cup DOMAIN st.temps /\ x \in cx.globals ->
           Def(st, "global", x, UnitV, Absent, <<>>, <<>>)
      [] x \notin st.vars \cup DOMAIN st.temps \cup cx.globals /\ x \in DOMAIN cx.ctors /\ cx.ctors[x] = 0 ->
           Def(st, "tagged", x, UnitV, Absent, <<>>, <<>>)
      [] x \notin st.vars \cup DOMAIN st.temps \cup cx.globals /\ x \notin DOMAIN cx.ctors
         /\ x \in DOMAIN cx.funs -> Def(st, "fnref", x, UnitV, Absent, <<>>, <<>>)
      [] OTHER -> Fail(st, "unknown variable")

(* emit_lambda and build_lambda_invoke: captured values are copied into    *)
(* the closure, and into slots of their names when it is called.           *)
EmitLambda(e, st, cx) ==
    LET caps == Captures(e, st)
        vals == EmitAll(Each(Ident, caps), st, cx)
        inner == EmitBlock(e.a[1], FnContext(Elems(caps) \cup Elems(e.p), st.lams, "", st.cur), cx)
        lam == [params |-> e.p, caps |-> caps, code |-> inner.code, r |-> inner.r]
        made == Def([vals EXCEPT !.lams = Append(inner.lams, lam)], "closure", "",
                    Num(Len(inner.lams) + 1), Absent, vals.r, <<>>)
    IN  IF inner.err = "" THEN made ELSE Fail(made, inner.err)

(* Default arguments are emitted in the caller, with the parameters before *)
(* them bound unless the caller has bound such a name itself.              *)
RECURSIVE EmitDefaults(_, _, _, _)
EmitDefaults(f, vals, st, cx) ==
    LET q == Len(vals) + 1
        fresh == {f.p[j] : j \in DOMAIN vals} \ DOMAIN st.temps
        bound == [st EXCEPT !.temps =
                     @ @@ [x \in fresh |-> vals[CHOOSE j \in DOMAIN vals : f.p[j] = x]]]
        one == EmitE(f.a[q + 1], bound, cx)
    IN  IF q > Len(f.p) THEN [st EXCEPT !.r = vals]
        ELSE IF IsAbsent(f.a[q + 1]) THEN Fail(st, "missing argument")
        ELSE EmitDefaults(f, Append(vals, one.r), [one EXCEPT !.temps = st.temps], cx)

(* A call of a function, a constructor or a closure, looked up in this     *)
(* order.  log stands for the built-in functions with an effect.         *)
EmitCall(e, st, cx) ==
    LET f == e.a[1].n
        named == \E j \in DOMAIN e.p : e.p[j] # ""
        direct == e.a[1].k = "Identifier"
        resolved == IF named /\ direct /\ f \in DOMAIN cx.funs
                    THEN ResolveNamed(cx.funs[f], Tail(e.a), e.p)
                    ELSE [args |-> Tail(e.a), err |-> IF named THEN "named arguments need a function" ELSE ""]
        args == EmitAll(resolved.args, st, cx)
        full == EmitDefaults(cx.funs[f], args.r, args, cx)
        variant == Variant1(f, resolved.args, st, cx)
        special == EmitTyped(resolved.args, Each(LAMBDA a : ArgType(a, st, cx), resolved.args), st, cx)
        callee == EmitE(e.a[1], st, cx)
        closureArgs == EmitAll(Tail(e.a), callee, cx)
    IN  CASE resolved.err # "" -> Fail(st, resolved.err)
          [] resolved.err = "" /\ direct /\ f = "log" -> Def(args, "log", "", UnitV, Absent, args.r, <<>>)
          [] resolved.err = "" /\ direct /\ f # "log" /\ f \in DOMAIN cx.funs /\ variant # "" ->
               Def(special, "call", variant, UnitV, Absent, special.r, <<>>)
          [] resolved.err = "" /\ direct /\ f # "log" /\ f \in DOMAIN cx.funs /\ variant = "" ->
               IF full.err # "" THEN full ELSE Def(full, "call", f, UnitV, Absent, full.r, <<>>)
          [] direct /\ f \notin DOMAIN cx.funs \cup {"log"} /\ f \in DOMAIN cx.ctors ->
               IF Len(args.r) = cx.ctors[f] THEN Def(args, "tagged", f, UnitV, Absent, args.r, <<>>)
               ELSE Fail(st, "constructor arity")
          [] direct /\ f \notin DOMAIN cx.funs \cup DOMAIN cx.ctors \cup st.vars \cup DOMAIN st.temps \cup {"log"} ->
               Fail(st, "unknown function")
          [] OTHER -> Def(closureArgs, "invoke", "", UnitV, Absent, <<callee.r>> \o closureArgs.r, <<>>)

(* emit_logical_binary and emit_ternary: only the ternary's branches start *)
(* with an empty cache.                                                    *)
EmitLogical(e, st, cx) ==
    LET l == EmitE(e.a[1], st, cx)
        r == EmitE(e.a[2], Enter(l), cx)
    IN  Def(Leave(r, l), e.n, "", UnitV, Absent, <<l.r, r.r>>, <<r.code>>)
EmitTernary(e, st, cx) ==
    LET c == EmitE(e.a[1], st, cx)
        t == EmitE(e.a[2], ClearCache(Enter(c)), cx)
        f == EmitE(e.a[3], ClearCache(Enter(Leave(t, c))), cx)
    IN  Def(Leave(f, c), "if", "", UnitV, Absent, <<c.r, t.r, f.r>>, <<t.code, f.code>>)

(* emit_match: arms are tried in order; a failed pattern or guard goes on  *)
(* to the next one, and without a default the value is 0.                  *)
RECURSIVE EmitArms(_, _, _, _)
EmitArms(arms, v, st, cx) ==
    LET arm == Head(arms)
        test == Def(st, "test", "", UnitV, arm.a[1], <<v>>, <<>>)
        bound == Put([ClearCache(Enter(test)) EXCEPT !.vars = @ \cup PatternNames(arm.a[1])],
                     Ins("bind", 0, "", UnitV, arm.a[1], <<v>>, <<>>))
        guard == IF IsAbsent(arm.a[2]) THEN Const(bound, BoolV(TRUE)) ELSE EmitE(arm.a[2], bound, cx)
        body == EmitBlock(arm.a[3], Enter(guard), cx)
        rest == EmitArms(Tail(arms), v, Enter(Leave(body, test)), cx)
    IN  IF arms = <<>> THEN st
        ELSE IF Len(arms) = 1
        THEN (IF IsAbsent(arm) THEN Zero(ClearCache(st)) ELSE EmitBlock(arm, ClearCache(st), cx))
        ELSE Def(Leave(rest, test), "arm", "", UnitV, Absent,
                 <<test.r, guard.r, body.r, rest.r>>, <<guard.code, body.code, rest.code>>)
EmitMatch(e, st, cx) ==
    LET v == EmitE(e.a[1], st, cx) IN EmitArms(Tail(e.a), v.r, v, cx)

(* emit_expression_as_native_int: what is not an integer by its form is    *)
(* emitted as a value and unboxed.                                         *)
EmitNative(e, st, cx) ==
    LET l == EmitNative(e.a[1], st, cx)
        r == EmitNative(e.a[2], l, cx)
    IN  CASE e.k = "Integer" -> Const(st, Num(e.i))
          [] e.k = "Identifier" -> IF e.n \in st.native THEN LoadVar(e.n, st, cx) ELSE ToInt(LoadVar(e.n, st, cx))
          [] e.k = "Binary" /\ e.n \in {"Add", "Sub", "Mul"} /\ NativeOp(e, st, cx) ->
               Def(r, "bin", e.n, UnitV, Absent, <<l.r, r.r>>, <<>>)
          [] e.k = "Unary" /\ e.n = "Neg" /\ IsInt(e.a[1], st, cx) ->
               Def(l, "un", e.n, UnitV, Absent, <<l.r>>, <<>>)
          [] OTHER -> ToInt(EmitE(e, st, cx))

(* A binary operator: natively, on bare floats, or by the runtime.         *)
EmitBinary(e, st, cx) ==
    LET l == EmitNative(e.a[1], st, cx)
        r == EmitNative(e.a[2], l, cx)
        sub == EmitAll(e.a, st, cx)
        fast == IsNumeric(e.a[1], st, cx) /\ IsNumeric(e.a[2], st, cx)
    IN  IF NativeOp(e, st, cx) THEN Def(r, "bin", e.n, UnitV, Absent, <<l.r, r.r>>, <<>>)
        ELSE Def(sub, IF fast THEN "fbin" ELSE "bin", e.n, UnitV, Absent, sub.r, <<>>)

(* A list comprehension is a loop over the iterable; its variable's slot   *)
(* outlives it.                                                            *)
EmitComprehension(e, st, cx) ==
    LET it == EmitE(e.a[2], st, cx)
        inner == [ClearCache(Enter(it)) EXCEPT !.vars = @ \cup Elems(e.p)]
        cond == IF IsAbsent(e.a[3]) THEN Const(inner, BoolV(TRUE)) ELSE EmitE(e.a[3], inner, cx)
        body == EmitE(e.a[1], Enter(cond), cx)
    IN  Def(Leave(body, it), "comp", e.p[1], UnitV, Absent,
            <<it.r, cond.r, body.r>>, <<cond.code, body.code>>)

(* emit_expression_inner.                                                  *)
EmitInner(e, st, cx) ==
    LET sub == EmitAll(e.a, st, cx)
    IN  CASE e.k = "Integer" -> Const(st, Num(e.i))
          [] e.k = "Bool" -> Const(st, BoolV(e.i = 1))
          [] e.k = "String" -> Const(st, Text(e.n))
          [] e.k = "None" -> Const(st, NoneV)
          [] e.k = "Unit" -> Const(st, UnitV)
          [] e.k = "ErrorValue" -> Const(st, ErrV(e.n))
          [] e.k = "Identifier" -> LoadVar(e.n, st, cx)
          [] e.k = "Binary" /\ e.n \in {"And", "Or"} -> EmitLogical(e, st, cx)
          [] e.k = "Binary" /\ e.n \notin {"And", "Or"} -> EmitBinary(e, st, cx)
          [] e.k = "Unary" ->
               Def(sub, IF e.n = "Neg" /\ IsNumeric(e.a[1], st, cx) THEN "fneg" ELSE "un", e.n,
                   UnitV, Absent, sub.r, <<>>)
          [] e.k = "List" -> Def(sub, "list", "", UnitV, Absent, sub.r, <<>>)
          [] e.k = "Index" -> Def(sub, "index", "", UnitV, Absent, sub.r, <<>>)
          [] e.k = "Call" -> EmitCall(e, st, cx)
          [] e.k = "Ternary" -> EmitTernary(e, st, cx)
          [] e.k = "Match" -> EmitMatch(e, st, cx)
          [] e.k = "Lambda" -> EmitLambda(e, st, cx)
          [] e.k = "ListComprehension" -> EmitComprehension(e, st, cx)
          [] e.k = "Unsafe" -> EmitBlock(e.a[1], st, cx)
          [] e.k = "ErrorPropagate" ->
               Put(sub, Ins("propagate", 0, "", UnitV, Absent, sub.r, <<>>))
          [] OTHER -> Fail(st, "not lowered")

(* emit_expression: through the cache.  LLVM refuses code in which a value *)
(* is used where its computation does not dominate.                        *)
EmitE(e, st, cx) ==
    LET hit == st.cache[e]
        fresh == EmitInner(e, st, cx)
        r == IF e.k = "ErrorPropagate" THEN [fresh EXCEPT !.r = @[1]] ELSE fresh
    IN  IF ~ HasKey(e) THEN r
        ELSE IF e \in DOMAIN st.cache
        THEN IF Dominates(hit.region, st.region) THEN [st EXCEPT !.r = hit.t]
             ELSE Fail(st, "does not dominate")
        ELSE [r EXCEPT !.cache = (e :> [t |-> r.r, region |-> st.region]) @@ @]

-----------------------------------------------------------------------------
(* try_emit_condition_i1: the condition of an if or while that compares     *)
(* numbers, or denies such a comparison, is emitted past the cache.         *)
Compares(e, st, cx) ==
    /\ e.k = "Binary" /\ e.n \in Comparisons
    /\ NativeOp(e, st, cx) \/ (IsNumeric(e.a[1], st, cx) /\ IsNumeric(e.a[2], st, cx))
RECURSIVE PastCache(_, _, _)
PastCache(e, st, cx) ==
    \/ e.k = "Bool" \/ Compares(e, st, cx)
    \/ e.k = "Unary" /\ e.n = "Not" /\ PastCache(e.a[1], st, cx)
RECURSIVE EmitCond(_, _, _)
EmitCond(e, st, cx) ==
    LET inner == EmitCond(e.a[1], st, cx)
    IN  IF ~ PastCache(e, st, cx) THEN EmitE(e, st, cx)
        ELSE IF e.k = "Unary" THEN Def(inner, "un", e.n, UnitV, Absent, <<inner.r>>, <<>>)
        ELSE EmitInner(e, st, cx)

(* An If, whose condition leads to c: the cache is cleared before each      *)
(* body.  It is not before the condition of an elif, which goes through the *)
(* cache with what the body before it left there.                           *)
RECURSIVE EmitBranches(_, _, _)
EmitBranches(a, c, cx) ==
    LET t == EmitBlock(a[2], ClearCache(Enter(c)), cx)
        after == Enter(Leave(t, c))
        more == SubSeq(a, 3, Len(a))
        e == IF Len(more) > 1 THEN EmitBranches(more, EmitE(more[1], after, cx), cx)
             ELSE IF IsAbsent(more[1]) THEN Zero(after)
             ELSE EmitBlock(more[1], ClearCache(after), cx)
    IN  Def(Leave(e, c), "if", "", UnitV, Absent, <<c.r, t.r, e.r>>, <<t.code, e.code>>)
EmitIf(a, st, cx) == EmitBranches(a, EmitCond(a[1], st, cx), cx)

(* A While: the header's condition is emitted with the cache of what comes *)
(* before the loop, whatever the body stores; nothing is cleared at the    *)
(* exit.                                                                   *)
EmitWhile(s, st, cx) ==
    LET head == EmitCond(s.a[1], Enter(st), cx)
        body == EmitBlock(s.a[2], ClearCache(Enter(Leave(head, st))), cx)
    IN  Put(Leave(body, st), Ins("while", 0, "", UnitV, Absent, <<head.r>>, <<head.code, body.code>>))

(* expr_is_known_list: such a loop counts indexes and re-reads the list;   *)
(* any other asks an iterator, which ends at the first element whose tag   *)
(* is unit.                                                                *)
KnownList(e, st, cx) ==
    \/ e.k = "List"
    \/ e.k = "Identifier" /\ "List" \in {LocalType(e.n, st.fn, cx).c, GlobalType(e.n, cx).c}
EmitFor(s, st, cx) ==
    LET it == EmitE(s.a[1], st, cx)
        body == EmitBlock(s.a[2], [ClearCache(Enter(it)) EXCEPT !.vars = @ \cup Elems(s.p)], cx)
    IN  Put(Leave(body, it), Ins(IF KnownList(s.a[1], st, cx) THEN "forlist" ELSE "foriter", 0, s.p[1],
                                 UnitV, Absent, <<it.r>>, <<body.code>>))

(* A range whose ends and step are integers by their form counts bare      *)
(* integers, any other one floats.                                         *)
EmitForRange(s, st, cx) ==
    LET es == <<s.a[1], s.a[2], IF IsAbsent(s.a[3]) THEN Integer(1) ELSE s.a[3]>>
        native == \A j \in DOMAIN es : IsInt(es[j], st, cx)
        ends == IF native THEN EmitTyped(es, [j \in DOMAIN es |-> Prim("Int")], st, cx) ELSE EmitAll(es, st, cx)
        x == s.p[1]
        inner == [ClearCache(Enter(ends)) EXCEPT
                     !.native = IF native /\ x \notin ends.vars THEN @ \cup {x} ELSE @, !.vars = @ \cup {x}]
        body == EmitBlock(s.a[4], inner, cx)
    IN  Put(Leave(body, ends), Ins("forrange", 0, x, BoolV(native), Absent, ends.r, <<body.code>>))

EmitStmt(s, st, cx) ==
    LET v == EmitE(Last1(s.a), st, cx)
        w == EmitNative(s.a[1], st, cx)
    IN  CASE s.k = "Binding" ->
               Forget(IF LocalType(s.n, st.fn, cx) = Prim("Int") THEN StoreInt(w, s.n, w.r)
                      ELSE StoreVar(v, s.n, v.r), s.n)
          [] s.k = "Expression" -> v
          [] s.k = "Return" ->
               LET r == IF st.ret = Prim("Int") THEN ToInt(v) ELSE v
               IN  Put(r, Ins("return", 0, "", UnitV, Absent, <<r.r>>, <<>>))
          [] s.k = "If" -> ClearCache(EmitIf(s.a, st, cx))
          [] s.k = "While" -> EmitWhile(s, st, cx)
          [] s.k = "For" -> EmitFor(s, st, cx)
          [] s.k = "ForRange" -> EmitForRange(s, st, cx)
          [] s.k \in {"Break", "Continue"} -> Put(st, Ins(s.k, 0, "", UnitV, Absent, <<>>, <<>>))
          [] s.k = "PatternBinding" ->
               [Put(v, Ins("bind", 0, "", UnitV, s.a[1], <<v.r>>, <<>>))
                   EXCEPT !.vars = @ \cup PatternNames(s.a[1])]

(* emit_block: nothing after a Return is emitted; a block without a value  *)
(* has the value 0.                                                        *)
EmitStmts(ss, st, cx) ==
    IF ss = <<>> THEN st
    ELSE LET one == EmitStmt(Head(ss), st, cx)
         IN  IF Head(ss).k = "Return" \/ one.err # "" THEN one ELSE EmitStmts(Tail(ss), one, cx)
EmitBlock(b, st, cx) ==
    LET body == EmitStmts(Stmts(b), st, cx)
        ended == \E j \in DOMAIN Stmts(b) : Stmts(b)[j].k = "Return"
    IN  IF body.err # "" THEN body
        ELSE IF ended \/ IsAbsent(ValueOf(b)) THEN Zero(body) ELSE EmitE(ValueOf(b), body, cx)
=============================================================================
