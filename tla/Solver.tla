-------------------------------- MODULE Solver --------------------------------
(***************************************************************************)
(* Solving the constraints of type inference (src/src/types/solver.rs) and *)
(* what analysis hands to code generation from the solution                *)
(* (semantic.rs collect_resolved_variable_types, collect_monomorph_info).  *)
(***************************************************************************)
EXTENDS Types

(* Bindings followed before a type is given up as Any; 100 in the source.  *)
(* Nothing but a cyclic binding gets this deep.                            *)
ResolveDepth == 12

(* resolve.  g is the graph: the type each variable is bound to.           *)
RECURSIVE ResolveAt(_, _, _)
ResolveAt(t, g, depth) ==
    CASE depth > ResolveDepth -> AnyT
      [] depth <= ResolveDepth /\ t.c = "Var" ->
           IF t.i \in DOMAIN g THEN ResolveAt(g[t.i], g, depth + 1) ELSE t
      [] depth <= ResolveDepth /\ t.c \in Composite ->
           [t EXCEPT !.a = Each(LAMBDA u : ResolveAt(u, g, depth + 1), @)]
      [] OTHER -> t
Resolve(t, g) == ResolveAt(t, g, 0)
Bind(g, v, t) == (v :> t) @@ g

(* occurs, of a resolved type.                                             *)
RECURSIVE Occurs(_, _)
Occurs(v, t) == t = TVar(v) \/ \E j \in DOMAIN t.a : Occurs(v, t.a[j])

(* unify: the graph afterwards, and whether the types agree.  Every pair   *)
(* of components is unified whether or not an earlier one failed.          *)
Solved(g, ok) == [g |-> g, ok |-> ok]
Number == {Prim("Int"), Prim("Float")}
Loose(t) == t \in {AnyT, Prim("None"), Unknown}
RECURSIVE Unify(_, _, _)
UnifyAll(as, bs, g) ==
    LET F[j \in 0 .. Len(as)] ==
            IF j = 0 THEN Solved(g, TRUE)
            ELSE LET one == Unify(as[j], bs[j], F[j - 1].g) IN Solved(one.g, F[j - 1].ok /\ one.ok)
    IN  F[Len(as)]
Unify(x, y, g) ==
    LET a == Resolve(x, g)
        b == Resolve(y, g)
        BindTo(v, t) == IF Occurs(v, t) THEN Solved(g, FALSE) ELSE Solved(Bind(g, v, t), TRUE)
    IN  CASE a = b \/ {a, b} = Number \/ Loose(a) \/ Loose(b) -> Solved(g, TRUE)
          [] a # b /\ ~ Loose(a) /\ ~ Loose(b) /\ a.c = "Var" -> BindTo(a.i, b)
          [] a # b /\ ~ Loose(a) /\ ~ Loose(b) /\ a.c # "Var" /\ b.c = "Var" -> BindTo(b.i, a)
          [] {a, b} # Number /\ ~ Loose(a) /\ ~ Loose(b) /\ "Var" \notin {a.c, b.c} ->
               IF "Error" \in {a.c, b.c} THEN Solved(g, TRUE)
               ELSE IF a.c = b.c /\ a.c \in Composite /\ a.n = b.n /\ Len(a.a) = Len(b.a)
               THEN UnifyAll(a.a, b.a, g) ELSE Solved(g, FALSE)

(* Mutant: the variable is tested before it is resolved.                   *)
EnforceUnresolved(t, good, default, g) ==
    IF t.c = "Var" THEN Solved(Bind(g, t.i, default), TRUE)
    ELSE Solved(g, t \in good \cup {AnyT, Unknown} \/ t.c = "Error")
(* enforce_numeric and enforce_boolean: a free variable becomes a Float,   *)
(* or a Bool.                                                              *)
Enforce(t, good, default, g) ==
    LET r == Resolve(t, g)
    IN  IF r.c = "Var" THEN Solved(Bind(g, r.i, default), TRUE)
        ELSE Solved(g, r \in good \cup {AnyT, Unknown} \/ r.c = "Error")

(* An iterable is a map, whose keys it yields, or a list.                  *)
SolveIterable(t, elem, g) ==
    LET r == Resolve(t, g)
    IN  CASE r.c = "Map" -> Unify(elem, r.a[1], g)
          [] r \in {AnyT, Unknown} -> Unify(elem, r, g)
          [] OTHER -> Unify(t, ListT(elem), g)

(* solve_callable: missing arguments are allowed, surplus ones are not.  A *)
(* free variable is bound without the occurs check.                        *)
SolveCallable(c, g) ==
    LET f == Resolve(c[1], g)
        args == SubSeq(c, 2, Len(c) - 1)
        params == Front1(f.a)
    IN  CASE f.c = "Func" ->
               IF Len(args) > Len(params) THEN Solved(g, FALSE)
               ELSE UnifyAll(Append(SubSeq(params, 1, Len(args)), Last1(f.a)), Append(args, Last1(c)), g)
          [] f.c = "Var" -> Solved(Bind(g, f.i, FuncT(args, Last1(c))), TRUE)
          [] OTHER -> Solved(g, f \in {Unknown, AnyT})

(* solve_constraints: in the order of their kinds, whatever the order they *)
(* were collected in; a failed one does not stop the others.               *)
SolveOne(c, g) ==
    CASE c.k = "Equal" -> Unify(c.a[1], c.a[2], g)
      [] c.k = "Numeric" -> Enforce(c.a[1], Number, Prim("Float"), g)
      [] c.k = "Boolean" -> Enforce(c.a[1], {Prim("Bool")}, Prim("Bool"), g)
      [] c.k = "Iterable" -> SolveIterable(c.a[1], c.a[2], g)
      [] c.k = "Callable" -> SolveCallable(c.a, g)
InOrder(cs) ==
    LET Of(ks) == SelectSeq(cs, LAMBDA c : c.k \in ks)
    IN  Of({"Equal"}) \o Of({"Numeric", "Boolean"}) \o Of({"Iterable"}) \o Of({"Callable"})
Solve(cs) ==
    LET s == InOrder(cs)
        F[j \in 0 .. Len(s)] ==
            IF j = 0 THEN Solved([v \in {} |-> Unknown], TRUE)
            ELSE LET before == F[j - 1]
                     one == SolveOne(s[j], before.g)
                 IN  Solved(one.g, before.ok /\ one.ok)
    IN  F[Len(s)]

-----------------------------------------------------------------------------
(* collect_resolved_variable_types and collect_block_variable_types: what  *)
(* the solved environment says of the names of one function, in the order  *)
(* of its statements.  A range's variable is an Int whatever the           *)
(* environment says.                                                       *)
Specializable(t) == t \in Number \cup {Prim("Bool")} \/ t.c \in {"Store", "List"}
RECURSIVE LocalTypes(_, _, _)
LocalTypes(b, env, found) ==
    LET Known(x, old) ==
            IF x \in DOMAIN env /\ Specializable(env[x]) THEN (x :> env[x]) @@ old ELSE old
        Inner(s, old) ==
            LET F[j \in 0 .. Len(s.a)] ==
                    IF j = 0 THEN old
                    ELSE IF s.a[j].k = "Block" THEN LocalTypes(s.a[j], env, F[j - 1]) ELSE F[j - 1]
            IN  F[Len(s.a)]
        Named(s, old) ==
            LET F[j \in 0 .. Len(s.p)] == IF j = 0 THEN old ELSE Known(s.p[j], F[j - 1]) IN F[Len(s.p)]
        One(s, old) ==
            CASE s.k = "Binding" -> Known(s.n, old)
              [] s.k \in {"If", "While"} -> Inner(s, old)
              [] s.k \in {"For", "ForKV"} -> Inner(s, Named(s, old))
              [] s.k = "ForRange" -> Inner(s, (s.p[1] :> Prim("Int")) @@ old)
              [] OTHER -> old
        F[j \in 0 .. Len(Stmts(b))] == IF j = 0 THEN found ELSE One(b.a[j], F[j - 1])
    IN  F[Len(Stmts(b))]
LocalsOfFunction(f, env) ==
    LET ps == {x \in Elems(f.p) : x \in DOMAIN env /\ Specializable(env[x])}
    IN  LocalTypes(f.a[1], env, [x \in ps |-> env[x]])

(* infer_expr_type: the type of an argument seen from the environment      *)
(* alone.                                                                  *)
RECURSIVE StaticType(_, _)
StaticType(e, env) ==
    LET l == StaticType(e.a[1], env)
        r == StaticType(e.a[2], env)
    IN  CASE e.k \in {"Integer", "Float", "Bool", "String"} -> LiteralTypes[e.k]
          [] e.k = "Identifier" -> IF e.n \in DOMAIN env THEN env[e.n] ELSE Unknown
          [] e.k = "Call" ->
               IF e.a[1].k = "Identifier" /\ e.a[1].n \in DOMAIN env /\ env[e.a[1].n].c = "Func"
               THEN Last1(env[e.a[1].n].a) ELSE Unknown
          [] e.k = "Binary" /\ e.n \in {"Add", "Sub", "Mul"} ->
               IF {l, r} = {Prim("Int")} THEN Prim("Int")
               ELSE IF {l, r} \subseteq Number THEN Prim("Float") ELSE Unknown
          [] e.k = "Binary" /\ e.n \notin {"Add", "Sub", "Mul"} -> Prim("Bool")
          [] e.k = "Unary" -> IF e.n = "Not" THEN Prim("Bool") ELSE l
          [] e.k = "Ternary" -> IF StaticType(e.a[2], env) = StaticType(e.a[3], env)
                                THEN StaticType(e.a[2], env) ELSE Unknown
          [] OTHER -> Unknown

(* collect_monomorph_info: the argument types a function is called with,   *)
(* when all are specializable; a function that calls itself, or is called  *)
(* in more than MaxProfiles ways, gets no variants.                        *)
MaxProfiles == 4
CallsTo(x, m) ==
    LET roots == {f.a[1] : f \in Elems(m.functions)} \cup {g.a[1] : g \in Elems(m.globals)}
    IN  {c \in UNION {Nodes(e) : e \in roots} : c.k = "Call" /\ c.a[1].k = "Identifier" /\ c.a[1].n = x}
Profiles(x, m, env) ==
    {s \in {Each(LAMBDA e : StaticType(e, env), Tail(c.a)) : c \in CallsTo(x, m)} :
        s # <<>> /\ \A j \in DOMAIN s : Specializable(s[j])}
SelfCalling(f) ==
    \E c \in Nodes(f.a[1]) : c.k = "Call" /\ c.a[1].k = "Identifier" /\ c.a[1].n = f.n
Candidates(m, env) ==
    LET fs == {f \in Elems(m.functions) : ~ SelfCalling(f) /\ Cardinality(Profiles(f.n, m, env)) <= MaxProfiles}
    IN  [x \in {f.n : f \in fs} |-> Profiles(x, m, env)]

(* The part of the SemanticModel that inference fills: the resolved        *)
(* environment, each function's locals and result, the variants, and       *)
(* whether the constraints could be solved.                                *)
InferTypes(m) ==
    LET c == GatherProgram(m)
        s == Solve(c.cons)
        env == [x \in DOMAIN c.env |-> Resolve(c.env[x], s.g)]
        fs == Elems(m.functions)
        rets == {f \in fs : env[f.n].c = "Func" /\ Specializable(Last1(env[f.n].a))}
    IN  [ok |-> s.ok, env |-> env, hints |-> {Each(LAMBDA t : Resolve(t, s.g), h) : h \in c.hints},
         locals |-> [x \in {f.n : f \in fs} |-> LocalsOfFunction(CHOOSE f \in fs : f.n = x, env)],
         rets |-> [x \in {f.n : f \in rets} |-> Last1(env[x].a)],
         mono |-> Candidates(m, env)]

(* check_branch_type_consistency: the ifs one of whose branches has a type *)
(* that does not go with the first one's.                                  *)
BranchesAgree(a, b) ==
    a = b \/ {a, b} = Number \/ \E t \in {a, b} : Loose(t) \/ t.c = "Var"
BranchWarnings(hints) == {h \in hints : \E j \in DOMAIN h : ~ BranchesAgree(h[1], h[j])}
=============================================================================
