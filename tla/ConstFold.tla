----------------------------- MODULE ConstFold -----------------------------
(***************************************************************************)
(* Constant folding (src/src/compiler.rs, ConstFolder): literals are       *)
(* evaluated at compile time, an If on a literal is replaced by the branch *)
(* taken, and expression statements without an effect are dropped.  The    *)
(* folder visits neither match arms, pipelines and comprehensions nor the  *)
(* methods of types and stores.                                            *)
(***************************************************************************)
EXTENDS Syntax, TLC

IsLit(e, k) == e.k = k
BothLit(e, k) == \A j \in DOMAIN e.a : e.a[j].k = k
Truth(b) == b.i = 1

(* Division and remainder of integers truncate towards zero, as i64 does.  *)
Abs(x) == IF x < 0 THEN 0 - x ELSE x
Quot(x, y) == IF (x < 0) = (y < 0) THEN Abs(x) \div Abs(y) ELSE 0 - (Abs(x) \div Abs(y))
Rem(x, y) == x - y * Quot(x, y)

(* fold_expr on a Binary whose operands are folded already; whatever is    *)
(* not listed, a comparison of strings say, stays.                         *)
FoldBinary(e) ==
    LET l == e.a[1]
        r == e.a[2]
        ints == BothLit(e, "Integer")
        bools == BothLit(e, "Bool")
    IN  CASE ints /\ e.n = "Add" -> Integer(l.i + r.i)
          [] ints /\ e.n = "Sub" -> Integer(l.i - r.i)
          [] ints /\ e.n = "Mul" -> Integer(l.i * r.i)
          [] ints /\ e.n = "Div" /\ r.i # 0 -> Integer(Quot(l.i, r.i))
          [] ints /\ e.n = "Mod" /\ r.i # 0 -> Integer(Rem(l.i, r.i))
          [] ints /\ e.n = "Equals" -> Bool(l.i = r.i)
          [] ints /\ e.n = "Less" -> Bool(l.i < r.i)
          [] ints /\ e.n = "LessEq" -> Bool(l.i <= r.i)
          [] ints /\ e.n = "Greater" -> Bool(l.i > r.i)
          [] ints /\ e.n = "GreaterEq" -> Bool(l.i >= r.i)
          [] bools /\ e.n = "And" -> Bool(Truth(l) /\ Truth(r))
          [] bools /\ e.n = "Or" -> Bool(Truth(l) \/ Truth(r))
          [] bools /\ e.n = "Equals" -> Bool(Truth(l) = Truth(r))
          [] BothLit(e, "String") /\ e.n = "Add" -> Str(l.n \o r.n)
          [] OTHER -> e

FoldUnary(e) ==
    LET x == e.a[1]
    IN  CASE e.n = "Neg" /\ x.k = "Integer" -> Integer(0 - x.i)
          [] e.n = "Not" /\ x.k = "Bool" -> Bool(~ Truth(x))
          [] OTHER -> e

FoldTernary(e) ==
    IF e.a[1].k # "Bool" THEN e ELSE IF Truth(e.a[1]) THEN e.a[2] ELSE e.a[3]

(* eval_math_const and eval_math_const2 on integers, then length,          *)
(* assert_static and to_string.  A list literal's length is folded         *)
(* whatever its elements do.                                               *)
FoldCall(e) ==
    LET f == IF e.a[1].k = "Identifier" THEN e.a[1].n ELSE ""
        args == Tail(e.a)
        one == Len(args) = 1
        int1 == one /\ args[1].k = "Integer"
        int2 == Len(args) = 2 /\ args[1].k = "Integer" /\ args[2].k = "Integer"
    IN  CASE f = "abs" /\ int1 -> Integer(Abs(args[1].i))
          [] f \in {"floor", "ceil", "round"} /\ int1 -> args[1]
          [] f = "min" /\ int2 -> Integer(IF args[1].i < args[2].i THEN args[1].i ELSE args[2].i)
          [] f = "max" /\ int2 -> Integer(IF args[1].i > args[2].i THEN args[1].i ELSE args[2].i)
          [] f = "length" /\ one /\ args[1].k = "String" -> Integer(Len(args[1].n))
          [] f = "length" /\ one /\ args[1].k = "List" -> Integer(Len(args[1].a))
          [] f = "assert_static" /\ args # <<>> /\ args[1].k = "Bool" -> UnitE
          [] f = "to_string" /\ int1 -> Str(ToString(args[1].i))
          [] f = "to_string" /\ one /\ args[1].k = "Bool" -> Str(IF Truth(args[1]) THEN "true" ELSE "false")
          [] f = "to_string" /\ one /\ args[1].k = "String" -> args[1]
          [] OTHER -> e

FoldMember(e) ==
    CASE e.n = "length" /\ e.a[1].k = "String" -> Integer(Len(e.a[1].n))
      [] e.n = "length" /\ e.a[1].k = "List" -> Integer(Len(e.a[1].a))
      [] OTHER -> e

(* The builtins without an effect (is_pure_builtin), and the statements    *)
(* that may be dropped (is_pure_dead_expression).                          *)
PureBuiltins == {"sqrt", "abs", "floor", "ceil", "round", "pow", "min", "max", "clamp", "is_number",
                 "is_string", "is_bool", "is_list", "is_map", "is_none", "is_err", "is_some",
                 "length", "to_string", "number_to_string", "char_at", "char_code", "from_char_code"}
(* Mutant: a call whose value is not used is dead.                         *)
DeadWithCalls(e) == e.k \in {"Integer", "Bool", "String", "Unit", "Identifier", "Call"}
RECURSIVE DeadExpr(_)
DeadExpr(e) ==
    \/ e.k \in {"Integer", "Bool", "String", "Unit", "Identifier"}
    \/ e.k \in {"Binary", "Unary", "List", "Map", "Member", "Index"} /\ \A j \in DOMAIN e.a : DeadExpr(e.a[j])
    \/ /\ e.k = "Call" /\ e.a[1].k = "Identifier" /\ e.a[1].n \in PureBuiltins
       /\ \A j \in 2 .. Len(e.a) : DeadExpr(e.a[j])

RECURSIVE FoldE(_)
RECURSIVE FoldBlock(_)
RECURSIVE FoldIf(_)

(* A branch put in place of its If: its value becomes a statement.         *)
Inlined(b) == Stmts(b) \o (IF IsAbsent(ValueOf(b)) THEN <<>> ELSE <<ExprS(ValueOf(b))>>)

(* The If arm of fold_block; a is condition, body, the elifs' and the else *)
(* body.  A false head falls to the next elif; once an elif's condition is *)
(* not a literal, it and all after it are kept.                            *)
FoldIf(a) ==
    LET c == FoldE(a[1])
        more == SubSeq(a, 3, Len(a))
    IN  CASE c = Bool(TRUE) -> Inlined(FoldBlock(a[2]))
          [] c = Bool(FALSE) /\ Len(more) > 1 -> FoldIf(more)
          [] c = Bool(FALSE) /\ Len(more) = 1 ->
               IF IsAbsent(more[1]) THEN <<>> ELSE Inlined(FoldBlock(more[1]))
          [] OTHER -> <<Node("If", "", 0, <<>>, <<c>> \o Each(FoldE, Tail(a)))>>

FoldStmt(s) ==
    CASE s.k = "If" -> FoldIf(s.a)
      [] s.k \in {"Break", "Continue"} -> <<s>>
      [] s.k = "FieldAssign" -> <<[s EXCEPT !.a[2] = FoldE(@)]>>
      [] s.k = "PatternBinding" -> <<[s EXCEPT !.a[2] = FoldE(@)]>>
      [] OTHER -> <<[s EXCEPT !.a = Each(FoldE, @)]>>

FoldBlock(b) ==
    LET kept == SelectSeq(Flat(Each(FoldStmt, Stmts(b))),
                          LAMBDA s : ~ (s.k = "Expression" /\ DeadExpr(s.a[1])))
    IN  Block(kept, FoldE(ValueOf(b)))

(* fold_expr.                                                              *)
FoldE(e) ==
    LET f == [e EXCEPT !.a = Each(FoldE, @)]
    IN  CASE e.k = "Block" -> FoldBlock(e)
          [] e.k = "Binary" -> FoldBinary(f)
          [] e.k = "Unary" -> FoldUnary(f)
          [] e.k = "Ternary" -> FoldTernary(f)
          [] e.k = "Call" -> FoldCall(f)
          [] e.k = "Member" -> FoldMember(f)
          [] e.k \in {"List", "Map", "Index"} -> f
          [] e.k = "Lambda" -> [e EXCEPT !.a[1] = FoldBlock(@)]
          [] OTHER -> e

(* The error of an assert_static whose condition folds to false, found     *)
(* where the folder goes.                                                  *)
RECURSIVE StaticErrors(_)
FailsStatically(e) ==
    /\ e.k = "Call" /\ e.a[1] = Ident("assert_static") /\ Len(e.a) > 1
    /\ FoldE(e.a[2]) = Bool(FALSE)
TakenBranches(a) ==
    LET c == FoldE(a[1])
        more == SubSeq(a, 3, Len(a))
    IN  CASE c = Bool(TRUE) -> {a[1], a[2]}
          [] c = Bool(FALSE) -> {a[1]} \cup (IF Len(more) > 1 THEN {Node("If", "", 0, <<>>, more)} ELSE Elems(more))
          [] OTHER -> Elems(a)
Visited(e) ==
    CASE e.k = "If" -> TakenBranches(e.a)
      [] e.k \in {"FieldAssign", "PatternBinding"} -> {e.a[2]}
      [] e.k = "Lambda" -> {e.a[1]}
      [] e.k \in {"Block", "Binary", "Unary", "Ternary", "Call", "Member", "List", "Map", "Index", "Binding",
                  "Expression", "Return", "While", "For", "ForKV", "ForRange"} -> Elems(e.a)
      [] OTHER -> {}
StaticErrors(e) == FailsStatically(e) \/ \E c \in Visited(e) : StaticErrors(c)

(* fold_expressions: the globals' values and the free functions' bodies.   *)
FoldProgram(items) ==
    Each(LAMBDA it : CASE it.k = "Binding" -> [it EXCEPT !.a[1] = FoldE(@)]
                       [] it.k = "Function" -> [it EXCEPT !.a[1] = FoldBlock(@)]
                       [] OTHER -> it, items)
=============================================================================
