------------------------------- MODULE Printer -------------------------------
(***************************************************************************)
(* Programs written out as lines of words, with the fewest parentheses     *)
(* that the precedence of the operators allows: a reference for the lexer  *)
(* and the parser, which have to read the same program back.               *)
(***************************************************************************)
EXTENDS Lexer

W(n) == <<Word(IF n \in Symbols THEN "symbol" ELSE "name", n, 0, <<>>)>>
Capital(n) == <<Word("name", n, 1, <<>>)>>
Comma == W(",")
RECURSIVE Joined(_)
Joined(wss) == IF wss = <<>> THEN <<>> ELSE IF Len(wss) = 1 THEN wss[1] ELSE wss[1] \o Comma \o Joined(Tail(wss))

(* How tightly an operator binds, the loosest first.                       *)
Written == [o \in {"Or", "And", "BitOr", "BitXor", "BitAnd", "Equals", "NotEquals", "Greater", "GreaterEq",
                   "Less", "LessEq", "ShiftLeft", "ShiftRight", "Add", "Sub", "Mul", "Div", "Mod"} |->
    CASE o = "Or" -> <<2, "or">> [] o = "And" -> <<3, "and">> [] o = "BitOr" -> <<4, "|">>
      [] o = "BitXor" -> <<5, "^">> [] o = "BitAnd" -> <<6, "&">> [] o = "Equals" -> <<7, "is">>
      [] o = "NotEquals" -> <<7, "isnt">> [] o = "Greater" -> <<8, ">">> [] o = "GreaterEq" -> <<8, ">=">>
      [] o = "Less" -> <<8, "<">> [] o = "LessEq" -> <<8, "<=">> [] o = "ShiftLeft" -> <<9, "<<">>
      [] o = "ShiftRight" -> <<9, ">>">> [] o = "Add" -> <<10, "+">> [] o = "Sub" -> <<10, "-">>
      [] o = "Mul" -> <<11, "*">> [] o = "Div" -> <<11, "/">> [] o = "Mod" -> <<11, "%">>]
Tightness(e) ==
    CASE e.k \in {"Ternary", "ErrorPropagate", "Lambda"} -> 0
      [] e.k = "Pipeline" -> 1
      [] e.k = "Binary" -> Written[e.n][1]
      [] e.k = "Unary" -> 12
      [] OTHER -> 13

RECURSIVE PatternW(_)
PatternW(p) ==
    LET subs == Joined(Each(PatternW, p.a))
    IN  CASE p.k = "PInteger" -> <<Word("number", "", p.i, <<>>)>>
          [] p.k = "PBool" -> W(IF p.i = 1 THEN "true" ELSE "false")
          [] p.k = "PString" -> <<Word("string", p.n, 0, <<>>)>>
          [] p.k = "PIdentifier" -> W(p.n)
          [] p.k = "PWildcard" -> W("_")
          [] p.k = "PList" -> W("[") \o subs \o W("]")
          [] p.k = "PConstructor" -> Capital(p.n) \o (IF p.a = <<>> THEN <<>> ELSE W("(") \o subs \o W(")"))
          [] p.k = "POr" -> PatternW(p.a[1]) \o W("or") \o PatternW(p.a[2])
          [] p.k = "PRange" -> <<Word("number", "", p.i, <<>>)>> \o W("to") \o PatternW(p.a[1])
          [] p.k = "PRangeBinding" ->
               W(p.n) \o W("from") \o <<Word("number", "", p.i, <<>>)>> \o W("to") \o PatternW(p.a[1])
          [] p.k = "PRest" -> W("...") \o W(p.n)

RECURSIVE ExprW(_, _)
RECURSIVE InW(_)
ParamsW(e) ==
    W("(") \o Joined([j \in DOMAIN e.p |->
        W(e.p[j]) \o (IF IsAbsent(e.a[j + 1]) THEN <<>> ELSE W("?") \o ExprW(e.a[j + 1], 0))]) \o W(")")
ArgsW(e) ==
    Joined([j \in DOMAIN e.p |-> (IF e.p[j] = "" THEN <<>> ELSE W(e.p[j]) \o W(":")) \o ExprW(e.a[j + 1], 0)])
ForW(e, it, c) ==
    W("for") \o W(e.p[1]) \o W("in") \o ExprW(it, 0) \o (IF IsAbsent(c) THEN <<>> ELSE W("if") \o ExprW(c, 0))
InW(e) ==
    LET a == e.a
    IN  CASE e.k = "Integer" -> <<Word("number", "", e.i, <<>>)>>
          [] e.k = "Bool" -> W(IF e.i = 1 THEN "true" ELSE "false")
          [] e.k = "String" -> <<Word("string", e.n, 0, <<>>)>>
          [] e.k = "None" -> W("none")
          [] e.k = "Unit" -> W("(") \o W(")")
          [] e.k = "Placeholder" -> <<Word("hole", "", IF e.i = 0 THEN -1 ELSE e.i, <<>>)>>
          [] e.k = "Identifier" -> W(e.n)
          [] e.k = "ErrorValue" -> W("err") \o W(e.n)
          [] e.k = "Binary" -> ExprW(a[1], Written[e.n][1]) \o W(Written[e.n][2]) \o ExprW(a[2], Written[e.n][1] + 1)
          [] e.k = "Unary" -> W(IF e.n = "Neg" THEN "-" ELSE "!") \o ExprW(a[1], 12)
          [] e.k = "Call" -> ExprW(a[1], 13) \o W("(") \o ArgsW(e) \o W(")")
          [] e.k = "Member" -> ExprW(a[1], 13) \o W(".") \o W(e.n)
          [] e.k = "Index" -> ExprW(a[1], 13) \o W("[") \o ExprW(a[2], 0) \o W("]")
          [] e.k = "Slice" -> ExprW(a[1], 13) \o W("[") \o ExprW(a[2], 0) \o W("to") \o ExprW(a[3], 0) \o W("]")
          [] e.k = "List" -> W("[") \o Joined(Each(InW, a)) \o W("]")
          [] e.k = "Spread" -> W("...") \o ExprW(a[1], 0)
          [] e.k = "Map" ->
               W("map") \o W("(") \o Joined([j \in 1 .. Len(a) \div 2 |->
                   ExprW(a[2 * j - 1], 12) \o W("is") \o ExprW(a[2 * j], 0)]) \o W(")")
          [] e.k = "ListComprehension" -> W("[") \o ExprW(a[1], 0) \o ForW(e, a[2], a[3]) \o W("]")
          [] e.k = "MapComprehension" ->
               W("map") \o W("(") \o ExprW(a[1], 12) \o W("is") \o ExprW(a[2], 0) \o ForW(e, a[3], a[4]) \o W(")")
          [] e.k = "Ternary" -> ExprW(a[1], 1) \o W("?") \o ExprW(a[2], 1) \o W("!") \o ExprW(a[3], 0)
          [] e.k = "Pipeline" -> ExprW(a[1], 1) \o W("~") \o ExprW(a[2], 2)
          [] e.k = "ErrorPropagate" -> ExprW(a[1], 1) \o W("!") \o W("return") \o W("err")
          [] e.k = "Lambda" -> W("*") \o W("fn") \o ParamsW(e) \o ExprW(ValueOf(a[1]), 0)
ExprW(e, min) == IF Tightness(e) >= min THEN InW(e) ELSE W("(") \o InW(e) \o W(")")

-----------------------------------------------------------------------------
At4(w, ws) == Line(w, IF w = 0 THEN "" ELSE "spaces", ws)
(* Expressions that are written as blocks and end a line of their own.     *)
Blocky(e) ==
    \/ e.k \in {"Match", "Unsafe"}
    \/ e.k = "Lambda" /\ (Stmts(e.a[1]) # <<>> \/ ValueOf(e.a[1]).k \in {"Match", "Unsafe", "Absent"})

(* A line that begins with a name and `is` would be a binding.             *)
LooksBound(es) == Len(es) > 1 /\ es[1].c = "name" /\ es[2].n = "is"

(* The lines of an expression that ends the line begun with ws, and of a   *)
(* block.                                                                  *)
RECURSIVE TailL(_, _, _)
RECURSIVE StmtL(_, _)
BlockL(b, w) ==
    Flat(Each(LAMBDA s : StmtL(s, w), Stmts(b)))
    \o (IF IsAbsent(ValueOf(b)) THEN <<>> ELSE TailL(<<>>, ValueOf(b), w))
BodyL(ws, b, w) == <<At4(w, ws)>> \o BlockL(b, w + 4)
ArmL(arm, w) ==
    LET guard == IF IsAbsent(arm.a[2]) THEN <<>> ELSE W("if") \o ExprW(arm.a[2], 1)
        ws == PatternW(arm.a[1]) \o guard \o W("?")
        b == arm.a[3]
    IN  IF Stmts(b) = <<>> /\ ~ Blocky(ValueOf(b)) THEN <<At4(w, ws \o ExprW(ValueOf(b), 0))>> ELSE BodyL(ws, b, w)
DefaultL(b, w) ==
    IF IsAbsent(b) THEN <<>>
    ELSE IF Stmts(b) = <<>> /\ ~ Blocky(ValueOf(b)) THEN <<At4(w, W("!") \o ExprW(ValueOf(b), 0))>>
    ELSE BodyL(W("!"), b, w)
TailL(ws, e, w) ==
    CASE e.k = "Match" ->
           <<At4(w, ws \o W("match") \o ExprW(e.a[1], 0))>>
           \o Flat(Each(LAMBDA arm : ArmL(arm, w + 4), Arms(e))) \o DefaultL(Last1(e.a), w + 4)
      [] e.k = "Unsafe" -> BodyL(ws \o W("unsafe"), e.a[1], w)
      [] e.k = "Lambda" /\ Blocky(e) -> BodyL(ws \o W("*") \o W("fn") \o ParamsW(e), e.a[1], w)
      [] OTHER ->
           LET es == ExprW(e, 0)
           IN  <<At4(w, ws \o (IF ws = <<>> /\ LooksBound(es) THEN W("(") \o es \o W(")") ELSE es))>>
RECURSIVE ElifL(_, _, _)
ElifL(word, a, w) ==
    IF Len(a) > 1 THEN BodyL(W(word) \o ExprW(a[1], 0), a[2], w) \o ElifL("elif", SubSeq(a, 3, Len(a)), w)
    ELSE IF IsAbsent(a[1]) THEN <<>> ELSE BodyL(W("else"), a[1], w)
StmtL(s, w) ==
    LET a == s.a
        step == IF IsAbsent(a[3]) THEN <<>> ELSE W("step") \o ExprW(a[3], 0)
    IN  CASE s.k = "Binding" -> TailL(W(s.n) \o W("is"), a[1], w)
          [] s.k = "PatternBinding" -> TailL(PatternW(a[1]) \o W("is"), a[2], w)
          [] s.k = "FieldAssign" -> TailL(ExprW(a[1], 13) \o W(".") \o W(s.n) \o W("is"), a[2], w)
          [] s.k = "Expression" -> TailL(<<>>, a[1], w)
          [] s.k = "Return" -> TailL(W("return"), a[1], w)
          [] s.k = "If" -> ElifL("if", a, w)
          [] s.k = "While" -> BodyL(W("while") \o ExprW(a[1], 0), a[2], w)
          [] s.k = "For" -> BodyL(W("for") \o W(s.p[1]) \o W("in") \o ExprW(a[1], 0), a[2], w)
          [] s.k = "ForKV" -> BodyL(W("for") \o Joined(<<W(s.p[1]), W(s.p[2])>>) \o W("in") \o ExprW(a[1], 0), a[2], w)
          [] s.k = "ForRange" ->
               BodyL(W("for") \o W(s.p[1]) \o W("in") \o ExprW(a[1], 0) \o W("to") \o ExprW(a[2], 0) \o step, a[4], w)
          [] s.k = "Break" -> <<At4(w, W("break"))>>
          [] s.k = "Continue" -> <<At4(w, W("continue"))>>

(* Items.                                                                  *)
FunctionL(f, w) ==
    LET head == W(IF f.i = 2 THEN "@" ELSE "*") \o W(f.n) \o ParamsW(f)
    IN  IF IsAbsent(f.a[1]) THEN <<At4(w, head)>> ELSE BodyL(head, f.a[1], w)
FieldL(f, w) ==
    <<At4(w, (IF f.i = 1 THEN W("&") ELSE <<>>) \o W(f.n)
             \o (IF IsAbsent(f.a[1]) THEN <<>> ELSE W("?") \o ExprW(f.a[1], 0)))>>
RECURSIVE MemberL(_, _)
MemberL(m, w) ==
    CASE m.k = "Function" -> FunctionL(m, w)
      [] m.k = "Field" -> FieldL(m, w)
      [] m.k = "Variant" ->
           <<At4(w, Capital(m.n) \o (IF m.p = <<>> THEN <<>> ELSE W("(") \o Joined(Each(W, m.p)) \o W(")")))>>
      [] m.k = "ErrorDefinition" -> <<At4(w, W("err") \o W(m.n))>> \o Flat(Each(LAMBDA c : MemberL(c, w + 4), m.a))
      [] OTHER -> <<>>
WithW(ts) == IF ts = <<>> THEN <<>> ELSE W("with") \o Joined(Each(W, ts))
Uses(it) == Each(LAMBDA t : t.n, SelectSeq(it.a, LAMBDA t : t.k = "With"))
ItemL(it) ==
    LET ms == Flat(Each(LAMBDA m : MemberL(m, 4), it.a))
        enum == \E j \in DOMAIN it.a : it.a[j].k = "Variant"
        heads == CASE it.k = "Type" -> W(IF enum THEN "enum" ELSE "type")
                   [] it.k = "Store" -> IF it.i = 2 THEN W("persist") \o W("store")
                                        ELSE W(IF it.i = 1 THEN "actor" ELSE "store")
                   [] it.k = "TraitDefinition" -> W("trait")
                   [] it.k = "Extension" -> W("extend")
    IN  CASE it.k = "Function" -> FunctionL(it, 0)
          [] it.k \in {"Binding", "Expression"} -> StmtL(it, 0)
          [] it.k = "ErrorDefinition" -> MemberL(it, 0)
          [] it.k = "ExternFunction" ->
               <<At4(0, W("extern") \o W("fn") \o W(it.n) \o W("(") \o Joined(Each(W, it.p)) \o W(")"))>>
          [] OTHER -> <<At4(0, heads \o W(it.n) \o WithW(IF it.k = "TraitDefinition" THEN it.p ELSE Uses(it)))>> \o ms
ProgramL(items) == Flat(Each(ItemL, items))
=============================================================================
