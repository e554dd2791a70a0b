-------------------------------- MODULE Lower --------------------------------
(***************************************************************************)
(* Placeholder lowering (src/src/lower.rs): an argument with placeholders  *)
(* becomes a lambda over them, a pipeline becomes a call.                  *)
(***************************************************************************)
EXTENDS Syntax

(* The outcome of lowering one expression: the expression, the normalised  *)
(* indexes of the placeholders still open in it, and the first diagnostic  *)
(* ("" for none).                                                          *)
Lowered(e, open, err) == [e |-> e, open |-> open, err |-> err]
Normalize(v) == IF v = 0 THEN 1 ELSE v

(* PlaceholderInfo::merge_option over the outcomes of the children; the    *)
(* first diagnostic wins.                                                  *)
FirstErr(rs) ==
    LET bad == {j \in DOMAIN rs : rs[j].err # ""}
    IN  IF bad = {} THEN "" ELSE rs[CHOOSE j \in bad : \A l \in bad : j <= l].err
OpenOf(rs) == UNION {rs[j].open : j \in DOMAIN rs}

(* The kinds replace_placeholder_in_expr and expr_contains_placeholder     *)
(* look into.                                                              *)
PipeKinds == {"Binary", "Unary", "Call", "Member", "Index", "List", "Map", "Ternary", "Throw"}

RECURSIVE ContainsPlaceholder(_)
ContainsPlaceholder(e) ==
    \/ e.k = "Placeholder"
    \/ e.k \in PipeKinds /\ \E j \in DOMAIN e.a : ContainsPlaceholder(e.a[j])

RECURSIVE ReplaceInPipe(_, _)
ReplaceInPipe(e, by) ==
    CASE e.k = "Placeholder" -> by
      [] e.k \in PipeKinds ->
           LET Sub(c) == ReplaceInPipe(c, by)
               r == [e EXCEPT !.a = Each(Sub, @)]
           IN  IF e.k = "Call" THEN [r EXCEPT !.p = [j \in DOMAIN @ |-> ""]] ELSE r
      [] OTHER -> e

(* The parameter that stands for a placeholder.                            *)
ArgNames == <<"_arg0", "_arg1", "_arg2">>

(* replace_placeholders and replace_block_placeholders: a lambda, and the  *)
(* kinds lower_expression does not look into, are left alone; a call loses *)
(* its argument names.                                                     *)
NotReplaced == {"Lambda", "Slice", "Spread", "ErrorPropagate", "Unsafe", "Pipeline",
                "ListComprehension", "MapComprehension"} \cup Patterns

RECURSIVE ReplacePlaceholders(_)
ReplacePlaceholders(e) ==
    CASE e.k = "Placeholder" -> Ident(ArgNames[Normalize(e.i)])
      [] e.k \in NotReplaced -> e
      [] OTHER ->
           LET r == [e EXCEPT !.a = Each(ReplacePlaceholders, @)]
           IN  IF e.k = "Call" THEN [r EXCEPT !.p = [j \in DOMAIN @ |-> ""]] ELSE r

(* wrap_placeholder_lambda: placeholders are contiguous from $ or $1.      *)
WrapLambda(r) ==
    LET top == CHOOSE m \in r.open : \A v \in r.open : v <= m
    IN  IF r.err = "" /\ r.open # {}
        THEN IF r.open = 1 .. top
             THEN Lowered(Lambda(SubSeq(ArgNames, 1, top),
                                 BlockOf(ReplacePlaceholders(r.e))), {}, "")
             ELSE Lowered(r.e, {}, "missing placeholder")
        ELSE r

(* expect_no_placeholders.                                                 *)
Closed(r) ==
    IF r.err = "" /\ r.open # {} THEN Lowered(r.e, {}, "placeholder outside a call") ELSE r

(* Kinds whose placeholders are those of their children ...                *)
OpenKinds == {"Binary", "Unary", "List", "Map", "Throw", "Member", "Index", "Ternary"}
(* ... whose children's placeholders are forgotten ...                     *)
ForgetfulKinds == {"ListComprehension", "MapComprehension"}
(* ... and whose children may have none.                                   *)
ClosedKinds == {"Block", "Binding", "Expression", "Return", "If", "While", "For", "ForKV",
                "ForRange", "FieldAssign", "Function", "Type", "Store", "Extension",
                "PatternBinding", "Field"}

RECURSIVE LowerE(_)

Rebuilt(e, rs, open) == Lowered([e EXCEPT !.a = Each(LAMBDA r : r.e, rs)], open, FirstErr(rs))

(* lower_call: every argument that holds placeholders becomes a lambda.    *)
LowerCall(e) ==
    LET f == LowerE(e.a[1])
        callee == IF f.err = "" /\ f.open # {}
                  THEN Lowered(f.e, {}, "placeholder in function position") ELSE f
        args == Each(LAMBDA c : WrapLambda(LowerE(c)), Tail(e.a))
    IN  Rebuilt(e, <<callee>> \o args, {})

(* lower_pipeline: left is the placeholder of right's arguments, or else   *)
(* its first argument.                                                     *)
LowerPipeline(e) ==
    LET l == Closed(LowerE(e.a[1]))
        r == e.a[2]
        hole == \E j \in 2 .. Len(r.a) : ContainsPlaceholder(r.a[j])
        Fill(c) == ReplaceInPipe(c, l.e)
    IN  CASE l.err # "" -> l
          [] r.k = "Call" ->
               LowerE(CallE(r.a[1], IF hole THEN Each(Fill, Tail(r.a)) ELSE <<l.e>> \o Tail(r.a)))
          [] r.k = "Identifier" -> LowerE(CallE(r, <<l.e>>))
          [] OTHER -> Lowered(e, {}, "pipeline needs a call")

(* lower_match: only the value's placeholders stay open; a guard's are     *)
(* forgotten.                                                              *)
LowerArm(arm) ==
    LET guard == LowerE(arm.a[2])
    IN  Rebuilt(arm, <<Lowered(arm.a[1], {}, ""), guard, LowerE(arm.a[3])>>, {})
LowerMatch(e) ==
    LET rs == Each(LAMBDA c : IF c.k = "Arm" THEN LowerArm(c) ELSE LowerE(c), e.a)
    IN  Rebuilt(e, rs, rs[1].open)

(* lower_expression, lower_statement, lower_block and lower_item.          *)
LowerE(e) ==
    CASE e.k = "Placeholder" -> Lowered(e, {Normalize(e.i)}, "")
      [] e.k = "Call" -> LowerCall(e)
      [] e.k = "Pipeline" -> LowerPipeline(e)
      [] e.k = "Match" -> LowerMatch(e)
      [] e.k = "Lambda" -> Rebuilt(e, <<LowerE(e.a[1])>> \o
                                      Each(LAMBDA d : Lowered(d, {}, ""), Tail(e.a)), {})
      [] e.k \in OpenKinds ->
           LET rs == Each(LowerE, e.a) IN Rebuilt(e, rs, OpenOf(rs))
      [] e.k \in ForgetfulKinds -> Rebuilt(e, Each(LowerE, e.a), {})
      [] e.k \in ClosedKinds -> Rebuilt(e, Each(LAMBDA c : Closed(LowerE(c)), e.a), {})
      [] OTHER -> Lowered(e, {}, "")

(* lower_program.                                                          *)
LowerProgram(items) ==
    LET rs == Each(LAMBDA c : Closed(LowerE(c)), items)
    IN  [items |-> Each(LAMBDA r : r.e, rs), err |-> FirstErr(rs)]
=============================================================================
