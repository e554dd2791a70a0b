-------------------------------- MODULE Parser --------------------------------
(***************************************************************************)
(* The recursive-descent parser (src/src/parser.rs).  A parsing function   *)
(* is an operator on the parser's state: ts the tokens, i the index of the *)
(* current one, depth layout_depth, pend the first error that parsing went *)
(* on after (pending_error), err the error being returned ("" for none), r *)
(* the result.  Once err is set every operator leaves the state alone,     *)
(* which is what the source's ? does.  Spans are left out, and so are a    *)
(* parameter's annotation, type parameters and what follows the name in an *)
(* annotation once they are read.                                          *)
(***************************************************************************)
EXTENDS Lexer

ParserOn(ts) == [ts |-> ts, i |-> 1, depth |-> 0, pend |-> "", err |-> "", r |-> Absent]

(* peek_kind, check, advance, matches, expect, error_here.                 *)
TokAt(st, q) == IF st.i + q <= Len(st.ts) THEN st.ts[st.i + q] ELSE Layout("Eof")
Peek(st) == TokAt(st, 0).k
At(st, k) == Peek(st) = k
PFail(st, why) == IF st.err = "" THEN [st EXCEPT !.err = why] ELSE st
Adv(st) == IF st.err = "" THEN [st EXCEPT !.i = @ + 1] ELSE st
Opt(st, k) == IF At(st, k) THEN Adv(st) ELSE st
Expect(st, k) == IF At(st, k) THEN Adv(st) ELSE PFail(st, k)
Got(st, v) == IF st.err = "" THEN [st EXCEPT !.r = v] ELSE st
RECURSIVE SkipNL(_)
SkipNL(st) == IF At(st, "Newline") /\ st.err = "" THEN SkipNL(Adv(st)) ELSE st

(* consume_identifier, consume_identifier_or_keyword; r is the name.       *)
Name(st) == IF At(st, "Identifier") THEN Got(Adv(st), TokAt(st, 0).n) ELSE PFail(st, "identifier")
NotNames == {"extend", "do", "end", "const"}
NameOrKeyword(st) ==
    IF At(st, "Identifier") \/ Peek(st) \in Keywords \ NotNames THEN Got(Adv(st), TokAt(st, 0).n)
    ELSE PFail(st, "identifier")

-----------------------------------------------------------------------------
(* Layout.  record_error keeps the first error and goes on.                *)
Record(st, why) == IF st.err = "" /\ st.pend = "" THEN [st EXCEPT !.pend = why] ELSE st
RECURSIVE Recover(_)
Recover(st) ==
    IF st.err # "" \/ Peek(st) \in {"Eof", "Indent", "Dedent", "type", "store", "persist", "match", "*"} THEN st
    ELSE IF At(st, "Newline") THEN Adv(st) ELSE Recover(Adv(st))
Deeper(st) == [Adv(st) EXCEPT !.depth = @ + 1]
(* leave_layout_block and the advance past the Dedent.                     *)
LeaveBlock(st) ==
    IF st.err # "" THEN st
    ELSE Adv(IF st.depth = 0 THEN Record(st, "unexpected dedent") ELSE [st EXCEPT !.depth = @ - 1])
MissingDedent(st) ==
    IF st.err # "" THEN st
    ELSE [Recover(Record(st, "missing dedent")) EXCEPT !.depth = IF @ > 0 THEN @ - 1 ELSE 0]

(* consume_indent_with_recovery; without the Indent the body is empty.     *)
NoBody(st) == ~ At(st, "Indent")
OpenBody(st) == IF st.err # "" THEN st ELSE IF NoBody(st) THEN Recover(Record(st, "indent")) ELSE Deeper(st)

-----------------------------------------------------------------------------
(* Lookahead (peek_is_binding and the like).                               *)
RECURSIVE AfterNL(_, _)
AfterNL(st, q) == IF TokAt(st, q).k = "Newline" THEN AfterNL(st, q + 1) ELSE TokAt(st, q).k
RECURSIVE AnnotationEnds(_, _)
AnnotationEnds(st, q) ==
    IF TokAt(st, q).k \in {"Identifier", ".", "Newline"} THEN AnnotationEnds(st, q + 1) ELSE TokAt(st, q).k = "is"
RECURSIVE BindingAt(_, _)
BindingAt(st, q) ==
    CASE TokAt(st, q).k = "is" -> TRUE
      [] TokAt(st, q).k = ":" -> AnnotationEnds(st, q + 1)
      [] TokAt(st, q).k = "Newline" -> BindingAt(st, q + 1)
      [] OTHER -> FALSE
IsBinding(st) == At(st, "Identifier") /\ BindingAt(st, 1)

(* The bracket that opens before q closes on this line, and an `is` comes  *)
(* next.                                                                   *)
RECURSIVE ClosedThenIs(_, _, _, _, _)
ClosedThenIs(st, q, open, close, depth) ==
    LET k == TokAt(st, q).k
    IN  CASE k \in {"Newline", "Eof"} -> FALSE
          [] k = close /\ depth = 1 -> AfterNL(st, q + 1) = "is"
          [] OTHER -> ClosedThenIs(st, q + 1, open, close,
                                   depth + (IF k = open THEN 1 ELSE IF k = close THEN -1 ELSE 0))
IsPatternBinding(st) ==
    \/ At(st, "[") /\ ClosedThenIs(st, 1, "[", "]", 1)
    \/ /\ At(st, "Identifier") /\ TokAt(st, 0).i = 1 /\ TokAt(st, 1).k = "("
       /\ ClosedThenIs(st, 2, "(", ")", 1)

AugmentedOps == [k \in {"+=", "-=", "*=", "/="} |->
                    CASE k = "+=" -> "Add" [] k = "-=" -> "Sub" [] k = "*=" -> "Mul" [] k = "/=" -> "Div"]
SelfField(st) ==
    At(st, "Identifier") /\ TokAt(st, 0).n = "self" /\ TokAt(st, 1).k = "." /\ TokAt(st, 2).k = "Identifier"

-----------------------------------------------------------------------------
RECURSIVE ParseE(_)
RECURSIVE ParsePipeline(_)
RECURSIVE ParseUnary(_)
RECURSIVE ParsePrimary(_)
RECURSIVE ParseBlock(_)
RECURSIVE ParseStmt(_)
RECURSIVE ParsePattern(_)

(* A block's lines, up to the token that ends it: an expression that is    *)
(* not the last line is a statement.                                       *)
AddLine(acc, s) == Append(acc, s)
BlockFrom(lines) ==
    IF lines # <<>> /\ Last1(lines).k = "Expression" THEN Block(Front1(lines), Last1(lines).a[1])
    ELSE Block(lines, Absent)
RECURSIVE BlockLines(_, _)
BlockLines(st0, acc) ==
    LET st == SkipNL(st0)
        s == ParseStmt(st)
    IN  CASE st.err # "" -> st
          [] st.err = "" /\ At(st, "Dedent") -> Got(LeaveBlock(st), BlockFrom(acc))
          [] st.err = "" /\ At(st, "Eof") -> Got(MissingDedent(st), BlockFrom(acc))
          [] OTHER -> IF s.err # "" THEN s ELSE BlockLines(s, AddLine(acc, s.r))
ParseBlock(st) ==
    IF st.err # "" THEN st
    ELSE IF NoBody(st) THEN Got(OpenBody(st), Block(<<>>, Absent)) ELSE BlockLines(OpenBody(st), <<>>)

(* parse_do_end_block: a lambda without parameters.  A Dedent ends the     *)
(* lines, the `end` is still expected.                                     *)
RECURSIVE DoLines(_, _)
DoLines(st0, acc) ==
    LET st == SkipNL(st0)
        s == ParseStmt(st)
        done == Lambda(<<>>, BlockFrom(acc))
    IN  CASE st.err # "" -> st
          [] st.err = "" /\ At(st, "end") -> Got(Adv(st), done)
          [] st.err = "" /\ At(st, "Dedent") -> Got(Expect(SkipNL(LeaveBlock(st)), "end"), done)
          [] st.err = "" /\ At(st, "Eof") -> PFail(st, "end")
          [] OTHER -> IF s.err # "" THEN s ELSE DoLines(s, AddLine(acc, s.r))
ParseDo(st) ==
    LET in == SkipNL(Adv(st)) IN DoLines(IF At(in, "Indent") THEN Deeper(in) ELSE in, <<>>)

(* A body that is a block on the next line or an expression on this one;   *)
(* a newline without an indent is an empty body.                           *)
InlineOrBlock(st) ==
    LET next == Adv(st)
        e == ParseE(st)
    IN  IF ~ At(st, "Newline") THEN Got(e, BlockOf(e.r))
        ELSE IF At(next, "Indent") THEN ParseBlock(next) ELSE Got(next, Block(<<>>, Absent))

(* Lists in brackets (parse_list_literal, parse_arguments,                 *)
(* parse_map_literal): elements may be on lines of their own, indented     *)
(* once more.                                                              *)
OpenLines(st) == IF At(st, "Indent") THEN Deeper(st) ELSE st
CloseLines(st0, indented) ==
    LET st == SkipNL(st0) IN IF indented /\ At(st, "Dedent") /\ st.err = "" THEN LeaveBlock(st) ELSE st

ParseElement(st) ==
    LET e == ParseE(Adv(st)) IN IF At(st, "...") THEN Got(e, Spread(e.r)) ELSE ParseE(st)

(* `for x in e if c` after the first element of a list or map.             *)
ParseFor(st, close) ==
    LET x == Name(Adv(st))
        it == ParseE(Expect(x, "in"))
        c == IF At(it, "if") THEN ParseE(Adv(it)) ELSE Got(it, Absent)
    IN  Got(Expect(c, close), [x |-> x.r, it |-> it.r, c |-> c.r])

RECURSIVE ListItems(_, _, _)
ListItems(st0, acc, indented) ==
    LET st == SkipNL(st0)
        e == ParseElement(st)
        after == SkipNL(e)
    IN  CASE st.err # "" -> st
          [] st.err = "" /\ indented /\ At(st, "Dedent") -> Got(Expect(LeaveBlock(st), "]"), ListE(acc))
          [] OTHER ->
               IF e.err # "" THEN e
               ELSE IF acc = <<>> /\ At(e, "for")
               THEN LET f == ParseFor(e, "]") IN Got(f, ListComp(f.r.x, e.r, f.r.it, f.r.c))
               ELSE IF At(after, ",") THEN ListItems(Adv(after), Append(acc, e.r), indented)
               ELSE Got(Expect(CloseLines(after, indented), "]"), ListE(Append(acc, e.r)))
ParseList(st) ==
    LET in == Adv(st)
        nl == SkipNL(in)
    IN  IF At(in, "]") THEN Got(Adv(in), ListE(<<>>)) ELSE ListItems(OpenLines(nl), <<>>, At(nl, "Indent"))

RECURSIVE MapItems(_, _, _)
MapItems(st0, acc, indented) ==
    LET st == SkipNL(st0)
        key == ParseUnary(st)
        colon == SkipNL(key)
        val == ParseE(SkipNL(IF At(colon, ":") THEN Adv(colon) ELSE Expect(colon, "is")))
        after == SkipNL(val)
        all == acc \o <<key.r, val.r>>
    IN  CASE st.err # "" -> st
          [] st.err = "" /\ indented /\ At(st, "Dedent") -> Got(Expect(LeaveBlock(st), ")"), MapE(acc))
          [] OTHER ->
               IF val.err # "" THEN val
               ELSE IF acc = <<>> /\ At(val, "for")
               THEN LET f == ParseFor(val, ")") IN Got(f, MapComp(f.r.x, key.r, val.r, f.r.it, f.r.c))
               ELSE IF At(after, ",") THEN MapItems(SkipNL(Adv(after)), all, indented)
               ELSE Got(Expect(CloseLines(after, indented), ")"), MapE(all))
ParseMap(st) ==
    LET in == SkipNL(Expect(st, "("))
        open == OpenLines(in)
    IN  IF At(open, ")") THEN Got(Adv(open), MapE(<<>>)) ELSE MapItems(open, <<>>, At(in, "Indent"))

(* parse_arguments; r is the arguments and their names.  A newline not     *)
(* followed by an indent is taken as well, and no positional argument may  *)
(* follow a named one.                                                     *)
RECURSIVE ArgItems(_, _, _, _)
ArgItems(st0, args, names, indented) ==
    LET st == IF indented THEN SkipNL(st0) ELSE st0
        named == At(st, "Identifier") /\ TokAt(st, 1).k = ":"
        e == ParseE(IF named THEN Adv(Adv(st)) ELSE st)
        ns == Append(names, IF named THEN TokAt(st, 0).n ELSE "")
        seen == \E j \in DOMAIN names : names[j] # ""
        close == IF indented THEN CloseLines(e, TRUE) ELSE e
    IN  CASE st.err # "" -> st
          [] st.err = "" /\ indented /\ At(st, "Dedent") -> Got(LeaveBlock(st), [args |-> args, names |-> names])
          [] OTHER ->
               IF ~ named /\ seen THEN PFail(st, "positional after named")
               ELSE IF e.err # "" THEN e
               ELSE IF At(e, ",") THEN ArgItems(Adv(e), Append(args, e.r), ns, indented)
               ELSE Got(Expect(close, ")"), [args |-> Append(args, e.r), names |-> ns])
ParseArgs(st) ==
    LET nl == Opt(st, "Newline")
        indented == At(st, "Newline") /\ At(nl, "Indent")
    IN  IF At(st, ")") THEN Got(Adv(st), [args |-> <<>>, names |-> <<>>])
        ELSE ArgItems(IF indented THEN Deeper(nl) ELSE nl, <<>>, <<>>, indented)

-----------------------------------------------------------------------------
(* parse_template_literal: the fragments added up, from a string on.       *)
RECURSIVE Fragments(_, _, _)
Fragments(fs, acc, st) ==
    LET f == Head(fs)
        toks == Lex(<<Line(0, "", f.ws)>>, FALSE)
        e == ParseE(SkipNL(ParserOn(toks.ts)))
        end == SkipNL(e)
        part == IF f.hole THEN e.r ELSE Str(f.n)
    IN  IF fs = <<>> THEN Got(st, acc)
        ELSE IF f.hole /\ toks.err # "" THEN PFail(st, toks.err)
        ELSE IF f.hole /\ (e.err # "" \/ ~ At(end, "Eof") \/ e.pend # "") THEN PFail(st, "interpolation")
        ELSE Fragments(Tail(fs),
                       IF IsAbsent(acc)
                       THEN (IF part.k = "String" THEN part ELSE Binary("Add", Str(""), part))
                       ELSE Binary("Add", acc, part), st)

(* parse_error_name and the path after !!.                                 *)
RECURSIVE PathRest(_)
PathRest(st) ==
    LET x == Name(Adv(st)) IN IF At(st, ":") THEN PathRest(Got(x, st.r \o ":" \o x.r)) ELSE st
ErrorName(st) ==
    IF At(st, "String") THEN Got(Adv(st), TokAt(st, 0).n) ELSE PathRest(Name(st))

(* Parameters: the names and the defaults.                                 *)
RECURSIVE TypePath(_)
RECURSIVE TypeArgs(_)
TypeName(st) == IF At(st, "ptr") THEN Got(Adv(st), "ptr") ELSE Name(st)
TypeArgs(st) ==
    LET one == TypePath(st)
    IN  IF st.err # "" THEN st
        ELSE IF At(st, "]") THEN Adv(st)
        ELSE IF At(one, ",") THEN TypeArgs(Adv(one)) ELSE Expect(one, "]")
TypePath(st) ==
    LET x == TypeName(st)
        more == IF At(x, ".") THEN TypePath(Adv(x)) ELSE IF At(x, "[") THEN TypeArgs(Adv(x)) ELSE x
    IN  IF x.err # "" THEN x ELSE Got(more, x.r)
Annotation(st) == IF At(st, ":") THEN TypePath(Adv(st)) ELSE Got(st, "")

RECURSIVE Params(_, _, _, _)
Params(st, names, defaults, keywords) ==
    LET x == IF keywords THEN NameOrKeyword(st) ELSE Name(st)
        t == Annotation(x)
        d == IF At(t, "?") THEN ParseE(Adv(t)) ELSE Got(t, Absent)
        ns == Append(names, x.r)
        ds == Append(defaults, d.r)
    IN  IF st.err # "" THEN st
        ELSE IF At(st, ")") /\ names = <<>> THEN Got(Adv(st), [p |-> <<>>, d |-> <<>>])
        ELSE IF d.err # "" THEN d
        ELSE IF At(d, ",") THEN Params(Adv(d), ns, ds, keywords) ELSE Got(Expect(d, ")"), [p |-> ns, d |-> ds])

ParseLambda(st) ==
    LET ps == Params(Expect(Expect(Adv(st), "fn"), "("), <<>>, <<>>, FALSE)
        e == ParseE(ps)
        body == IF At(ps, "Newline") THEN ParseBlock(Adv(ps)) ELSE Got(e, BlockOf(e.r))
    IN  IF ps.err # "" THEN ps ELSE Got(body, Node("Lambda", "", 0, ps.r.p, <<body.r>> \o ps.r.d))

-----------------------------------------------------------------------------
(* parse_match_expression and parse_when_expression.                       *)
RECURSIVE OrPatterns(_, _)
OrPatterns(st, acc) ==
    LET p == ParsePattern(Adv(st))
    IN  IF ~ At(st, "or") \/ st.err # "" THEN Got(st, IF Len(acc) = 1 THEN acc[1] ELSE POr(acc))
        ELSE IF p.err # "" THEN p ELSE OrPatterns(p, Append(acc, p.r))
RECURSIVE MatchArms(_, _, _, _)
MatchArms(st0, v, acc, default) ==
    LET st == SkipNL(st0)
        d == InlineOrBlock(Adv(st))
        p == ParsePattern(st)
        pat == OrPatterns(p, <<p.r>>)
        g == IF Peek(pat) \in {"if", "when"} THEN ParsePipeline(Adv(pat)) ELSE Got(pat, Absent)
        b == InlineOrBlock(Expect(g, "?"))
        done == Match(v, acc, default)
    IN  CASE st.err # "" -> st
          [] st.err = "" /\ At(st, "Dedent") -> Got(LeaveBlock(st), done)
          [] st.err = "" /\ At(st, "Eof") -> Got(MissingDedent(st), done)
          [] st.err = "" /\ At(st, "!") -> IF d.err # "" THEN d ELSE MatchArms(d, v, acc, d.r)
          [] OTHER -> IF p.err # "" THEN p ELSE IF b.err # "" THEN b
                      ELSE MatchArms(b, v, Append(acc, Arm(pat.r, g.r, b.r)), default)
ParseMatch(st) ==
    LET v == ParseE(Adv(st))
        nl == Expect(v, "Newline")
    IN  IF nl.err # "" THEN nl
        ELSE IF NoBody(nl) THEN Got(OpenBody(nl), Match(v.r, <<>>, Absent))
        ELSE MatchArms(OpenBody(nl), v.r, <<>>, Absent)

(* The arms of a when become nested ternaries; a later `_` replaces an     *)
(* earlier one wherever it stands.                                         *)
WhenChain(arms, base) ==
    LET F[j \in 1 .. Len(arms) + 1] ==
            IF j > Len(arms) THEN base ELSE Ternary(arms[j][1], arms[j][2], F[j + 1])
    IN  F[1]
RECURSIVE WhenArms(_, _, _)
WhenArms(st0, acc, default) ==
    LET st == SkipNL(st0)
        d == ParseE(Expect(Adv(st), "?"))
        c == ParsePipeline(st)
        v == ParseE(Expect(c, "?"))
    IN  CASE st.err # "" -> st
          [] st.err = "" /\ At(st, "Dedent") -> Got(LeaveBlock(st), WhenChain(acc, default))
          [] st.err = "" /\ At(st, "Eof") -> Got(MissingDedent(st), WhenChain(acc, default))
          [] st.err = "" /\ TokAt(st, 0).n = "_" -> IF d.err # "" THEN d ELSE WhenArms(d, acc, d.r)
          [] OTHER -> IF v.err # "" THEN v ELSE WhenArms(v, Append(acc, <<c.r, v.r>>), default)
ParseWhen(st) ==
    LET nl == Expect(Adv(st), "Newline")
    IN  IF nl.err # "" THEN nl
        ELSE IF NoBody(nl) THEN Got(OpenBody(nl), NoneE) ELSE WhenArms(OpenBody(nl), <<>>, NoneE)

(* parse_match_pattern.                                                    *)
RECURSIVE SubPatterns(_, _, _)
SubPatterns(st, close, acc) ==
    LET p == ParsePattern(st)
        rest == Name(Adv(st))
        all == Append(acc, p.r)
    IN  CASE st.err # "" -> st
          [] st.err = "" /\ At(st, close) -> Got(Adv(st), acc)
          [] st.err = "" /\ close = "]" /\ At(st, "...") ->
               Got(Expect(Opt(rest, ","), close), Append(acc, PRest(rest.r)))
          [] OTHER -> IF p.err # "" THEN p
                      ELSE IF At(p, ",") THEN SubPatterns(Adv(p), close, all) ELSE Got(Expect(p, close), all)
Bound(st) ==
    IF At(st, "Integer") THEN Got(Adv(st), TokAt(st, 0).i)
    ELSE IF At(st, "-") /\ TokAt(st, 1).k = "Integer" THEN Got(Adv(Adv(st)), 0 - TokAt(st, 1).i)
    ELSE PFail(st, "range pattern")
NamedPattern(st) ==
    LET x == TokAt(st, 0).n
        next == Adv(st)
        fields == SubPatterns(Adv(next), ")", <<>>)
        lo == Bound(Adv(next))
        hi == Bound(Expect(lo, "to"))
    IN  CASE x = "_" -> Got(next, PWild)
          [] x # "_" /\ At(next, "(") -> Got(fields, PCtor(x, fields.r))
          [] x # "_" /\ ~ At(next, "(") /\ TokAt(st, 0).i = 1 -> Got(next, PCtor(x, <<>>))
          [] x # "_" /\ TokAt(st, 0).i = 0 /\ At(next, "Identifier") /\ TokAt(next, 0).n = "from" ->
               Got(hi, PRange(x, lo.r, hi.r))
          [] OTHER -> Got(next, PIdent(x))
ParsePattern(st) ==
    LET t == TokAt(st, 0)
        next == Adv(st)
        list == SubPatterns(next, "]", <<>>)
        hi == Adv(next)
    IN  CASE st.err # "" -> st
          [] t.k = "Integer" ->
               IF ~ At(next, "to") THEN Got(next, PInt(t.i))
               ELSE IF At(hi, "Integer") THEN Got(Adv(hi), PRange("", t.i, TokAt(hi, 0).i))
               ELSE PFail(st, "range pattern")
          [] t.k \in {"true", "false"} -> Got(next, PBool(t.k = "true"))
          [] t.k = "String" -> Got(next, PStr(t.n))
          [] t.k = "[" -> Got(list, PList(list.r))
          [] t.k = "Identifier" -> NamedPattern(st)
          [] OTHER -> PFail(st, "pattern")

-----------------------------------------------------------------------------
(* parse_primary.  A comma in parentheses makes a list.                    *)
RECURSIVE TupleItems(_, _)
TupleItems(st, acc) ==
    LET e == ParseE(st)
        after == SkipNL(e)
        more == SkipNL(Adv(after))
    IN  IF st.err # "" THEN st
        ELSE IF At(st, ")") THEN Got(Adv(st), ListE(acc))
        ELSE IF e.err # "" THEN e
        ELSE IF At(after, ",") THEN TupleItems(more, Append(acc, e.r))
        ELSE Got(Expect(after, ")"), ListE(Append(acc, e.r)))
ParseParens(st) ==
    LET in == SkipNL(Adv(st))
        e == ParseE(in)
    IN  IF At(in, ")") THEN Got(Adv(in), UnitE)
        ELSE IF At(e, ",") THEN TupleItems(SkipNL(Adv(e)), <<e.r>>) ELSE Expect(e, ")")

(* parse_inline_asm: a template and inputs.                                *)
RECURSIVE AsmInputs(_, _)
AsmInputs(st, acc) ==
    LET e == ParseE(Expect(Name(st), ":"))
    IN  IF st.err # "" THEN st
        ELSE IF At(st, ")") THEN Got(Adv(st), acc)
        ELSE IF At(e, ",") THEN AsmInputs(SkipNL(Adv(e)), Append(acc, e.r))
        ELSE Got(Expect(e, ")"), Append(acc, e.r))
ParseAsm(st) ==
    LET open == Expect(Adv(st), "(")
        after == Expect(open, "String")
        ins == IF At(after, ",") THEN AsmInputs(SkipNL(Adv(after)), <<>>) ELSE Got(Expect(after, ")"), <<>>)
    IN  Got(ins, Node("InlineAsm", TokAt(open, 0).n, 0, <<>>, ins.r))

NamelikeKeywords == {"actor", "store", "persist", "type", "fn", "is", "isnt", "extern", "ptr", "enum",
                     "trait", "with", "to", "step", "in"}
ParsePrimary(st) ==
    LET t == TokAt(st, 0)
        next == Adv(st)
        path == PathRest(Name(next))
        err == ErrorName(next)
        block == ParseBlock(Expect(next, "Newline"))
        ptr == ParsePrimary(next)
    IN  CASE st.err # "" -> st
          [] t.k \in {"Integer", "Placeholder"} -> Got(next, Node(t.k, "", t.i, <<>>, <<>>))
          [] t.k \in {"true", "false"} -> Got(next, Bool(t.k = "true"))
          [] t.k = "none" -> Got(next, NoneE)
          [] t.k \in {"String", "Bytes"} -> Got(next, Leaf(t.k, t.n))
          [] t.k = "Template" -> Fragments(t.x, Absent, next)
          [] t.k = "Identifier" /\ t.n = "map" /\ At(next, "(") -> ParseMap(next)
          [] t.k \in NamelikeKeywords \/ (t.k = "Identifier" /\ ~ (t.n = "map" /\ At(next, "("))) -> Got(next, Ident(t.n))
          [] t.k = "*" -> IF At(next, "fn") THEN ParseLambda(st) ELSE PFail(st, "*")
          [] t.k = "!!" -> Got(path, Leaf("TaxonomyPath", path.r))
          [] t.k = "match" -> ParseMatch(st)
          [] t.k = "when" -> ParseWhen(st)
          [] t.k = "unsafe" -> Got(block, Unsafe(block.r))
          [] t.k = "asm" -> ParseAsm(st)
          [] t.k = "err" -> Got(err, ErrorValue(err.r))
          [] t.k = "(" -> ParseParens(st)
          [] t.k = "[" -> ParseList(st)
          [] t.k = "@" -> Got(ptr, Node("PtrLoad", "", 0, <<>>, <<ptr.r>>))
          [] OTHER -> PFail(st, "expression")

(* parse_call: calls, do blocks, members, subscripts and slices, as long   *)
(* as the next token goes on.                                              *)
RECURSIVE Postfix(_)
Postfix(st) ==
    LET e == st.r
        args == ParseArgs(Adv(st))
        nl == SkipNL(args)
        do == ParseDo(nl)
        block == ParseDo(st)
        member == NameOrKeyword(Adv(st))
        ix == ParseE(Adv(st))
        end == ParseE(Adv(ix))
    IN  CASE st.err # "" -> st
          [] st.err = "" /\ At(st, "(") ->
               IF args.err # "" THEN args
               ELSE IF At(nl, "do")
               THEN Postfix(Got(do, CallNamed(e, Append(args.r.args, do.r), Append(args.r.names, ""))))
               ELSE Postfix(Got(args, CallNamed(e, args.r.args, args.r.names)))
          [] st.err = "" /\ At(st, "do") ->
               IF e.k \in {"Identifier", "Member", "Call"} THEN Postfix(Got(block, CallE(e, <<block.r>>)))
               ELSE PFail(Adv(st), "callable")
          [] st.err = "" /\ At(st, ".") -> Postfix(Got(member, Member(e, member.r)))
          [] st.err = "" /\ At(st, "[") ->
               IF At(ix, "to") THEN Postfix(Got(Expect(end, "]"), Slice(e, ix.r, end.r)))
               ELSE Postfix(Got(Expect(ix, "]"), Index(e, ix.r)))
          [] OTHER -> st

ParseUnary(st) ==
    LET e == ParseUnary(Adv(st))
    IN  CASE st.err # "" -> st
          [] st.err = "" /\ At(st, "!") /\ TokAt(st, 1).k = "!!" -> Got(e, Throw(e.r))
          [] st.err = "" /\ At(st, "-") -> Got(e, Unary("Neg", e.r))
          [] st.err = "" /\ At(st, "!") /\ TokAt(st, 1).k # "!!" -> Got(e, Unary("Not", e.r))
          [] OTHER -> Postfix(ParsePrimary(st))

(* parse_logic_or down to parse_factor: each level is a loop over its      *)
(* operators, so all of them associate to the left.                        *)
OpNames == [k \in {"or", "and", "|", "^", "&", "is", "isnt", ">", ">=", "<", "<=", "<<", ">>", "+", "-",
                   "*", "/", "%"} |->
              CASE k = "or" -> "Or" [] k = "and" -> "And" [] k = "|" -> "BitOr" [] k = "^" -> "BitXor"
                [] k = "&" -> "BitAnd" [] k = "is" -> "Equals" [] k = "isnt" -> "NotEquals"
                [] k = ">" -> "Greater" [] k = ">=" -> "GreaterEq" [] k = "<" -> "Less" [] k = "<=" -> "LessEq"
                [] k = "<<" -> "ShiftLeft" [] k = ">>" -> "ShiftRight" [] k = "+" -> "Add" [] k = "-" -> "Sub"
                [] k = "*" -> "Mul" [] k = "/" -> "Div" [] k = "%" -> "Mod"]
OpLevels == <<{"or"}, {"and"}, {"|"}, {"^"}, {"&"}, {"is", "isnt"}, {">", ">=", "<", "<="}, {"<<", ">>"},
              {"+", "-"}, {"*", "/", "%"}>>
RECURSIVE ParseLevel(_, _)
RECURSIVE LevelRest(_, _)
(* Mutant: one operator of a level is taken at most.                       *)
OneOperator(l, st) ==
    LET rhs == ParseLevel(l + 1, Adv(st))
    IN  IF st.err # "" \/ Peek(st) \notin OpLevels[l] THEN st
        ELSE Got(rhs, Binary(OpNames[Peek(st)], st.r, rhs.r))
LevelRest(l, st) ==
    LET rhs == ParseLevel(l + 1, Adv(st))
    IN  IF st.err # "" \/ Peek(st) \notin OpLevels[l] THEN st
        ELSE LevelRest(l, Got(rhs, Binary(OpNames[Peek(st)], st.r, rhs.r)))
ParseLevel(l, st) == IF l > Len(OpLevels) THEN ParseUnary(st) ELSE LevelRest(l, ParseLevel(l + 1, st))

RECURSIVE PipeRest(_)
PipeRest(st) ==
    LET rhs == ParseLevel(1, Adv(st))
    IN  IF st.err # "" \/ ~ At(st, "~") THEN st ELSE PipeRest(Got(rhs, Pipeline(st.r, rhs.r)))
ParsePipeline(st) == PipeRest(ParseLevel(1, st))

(* parse_ternary_or_propagate.  A ? before a return, break, continue or    *)
(* the end of the line belongs to the statement.                           *)
ParseE(st) ==
    LET c == ParsePipeline(st)
        guard == TokAt(c, 1).k \in {"return", "break", "continue", "Newline"}
        t == ParsePipeline(Adv(c))
        f == ParseE(Expect(t, "!"))
        err == ErrorName(Adv(Adv(c)))
    IN  CASE c.err # "" -> c
          [] c.err = "" /\ At(c, "?") -> IF guard THEN c ELSE Got(f, Ternary(c.r, t.r, f.r))
          [] c.err = "" /\ At(c, "!") /\ TokAt(c, 1).k = "return" ->
               Got(Expect(Adv(Adv(c)), "err"), Propagate(c.r))
          [] c.err = "" /\ At(c, "!") /\ TokAt(c, 1).k = "err" ->
               Got(err, Ternary(c.r, NoneE, ErrorValue(err.r)))
          [] OTHER -> c

-----------------------------------------------------------------------------
(* Statements.                                                             *)
ParseBinding(st) ==
    LET x == Name(st)
        t == Annotation(x)
        e == ParseE(SkipNL(Expect(t, "is")))
    IN  Got(e, [Binding(x.r, e.r) EXCEPT !.p = IF t.r = "" THEN <<>> ELSE <<t.r>>])
ParsePatternBinding(st) ==
    LET p == ParsePattern(st)
        e == ParseE(SkipNL(Expect(p, "is")))
    IN  Got(e, PatternBinding(p.r, e.r))
ParseAugmented(st) ==
    LET x == TokAt(st, 0).n
        e == ParseE(SkipNL(Adv(Adv(st))))
    IN  Got(e, Binding(x, Binary(AugmentedOps[TokAt(st, 1).k], Ident(x), e.r)))
ParseSelfField(st) ==
    LET f == TokAt(st, 2).n
        op == TokAt(st, 3).k
        e == ParseE(SkipNL(Adv(Adv(Adv(Adv(st))))))
        self == Ident("self")
    IN  Got(SkipNL(e), FieldAssign(self, f, IF op = "is" THEN e.r
                                            ELSE Binary(AugmentedOps[op], Member(self, f), e.r)))

(* parse_if_statement; a is what is read so far.                           *)
RECURSIVE Elifs(_, _)
Elifs(st, a) ==
    LET c == ParseE(Adv(st))
        b == ParseBlock(SkipNL(c))
        e == ParseBlock(SkipNL(Adv(st)))
    IN  CASE st.err # "" -> st
          [] st.err = "" /\ At(st, "elif") -> IF b.err # "" THEN b ELSE Elifs(b, a \o <<c.r, b.r>>)
          [] st.err = "" /\ At(st, "else") -> Got(e, Node("If", "", 0, <<>>, Append(a, e.r)))
          [] OTHER -> Got(st, Node("If", "", 0, <<>>, Append(a, Absent)))
ParseIf(st) ==
    LET c == ParseE(Adv(st))
        b == ParseBlock(SkipNL(c))
    IN  IF b.err # "" THEN b
        ELSE IF At(st, "if") THEN Elifs(b, <<c.r, b.r>>) ELSE Got(b, If(Unary("Not", c.r), b.r, Absent))
ParseWhile(st) ==
    LET c == IF At(st, "loop") THEN Got(Adv(st), Bool(TRUE)) ELSE ParseE(Adv(st))
        b == ParseBlock(SkipNL(c))
    IN  Got(b, While(IF At(st, "until") THEN Unary("Not", c.r) ELSE c.r, b.r))
ParseForStatement(st) ==
    LET x == Name(Adv(st))
        y == Name(Adv(x))
        pairs == ParseE(Expect(y, "in"))
        from == ParseE(Expect(x, "in"))
        to == ParseE(Adv(from))
        step == IF At(to, "step") THEN ParseE(Adv(to)) ELSE Got(to, Absent)
        Body(s) == ParseBlock(SkipNL(s))
    IN  CASE x.err # "" -> x
          [] x.err = "" /\ At(x, ",") -> Got(Body(pairs), ForKV(x.r, y.r, pairs.r, Body(pairs).r))
          [] x.err = "" /\ ~ At(x, ",") /\ At(from, "to") ->
               Got(Body(step), ForRange(x.r, from.r, to.r, step.r, Body(step).r))
          [] OTHER -> Got(Body(from), For(x.r, from.r, Body(from).r))

(* The statements that may be followed by `if`, `unless` or a guard.       *)
SimpleStmt(st) ==
    LET ret == Adv(st)
        e == ParseE(ret)
        x == ParseE(st)
    IN  CASE IsBinding(st) -> ParseBinding(st)
          [] At(st, "return") ->
               IF Peek(ret) \in {"if", "unless"} THEN Got(ret, Return(NoneE)) ELSE Got(e, Return(e.r))
          [] At(st, "break") -> Got(ret, Break)
          [] At(st, "continue") -> Got(ret, Continue)
          [] OTHER -> Got(x, ExprS(x.r))

(* `s if c`, `s unless c`, and `c ? body`; a binding before the ? is an    *)
(* equality.                                                               *)
Suffixed(s) ==
    LET c == ParseE(Adv(s))
        test == IF At(s, "unless") THEN Unary("Not", c.r) ELSE c.r
        cond == IF s.r.k = "Binding" THEN Binary("Equals", Ident(s.r.n), s.r.a[1]) ELSE s.r.a[1]
        next == Adv(s)
        block == ParseBlock(SkipNL(next))
        one == ParseStmt(next)
        body == IF Peek(next) \in {"Newline", "Indent"} THEN block ELSE Got(one, Block(<<one.r>>, Absent))
    IN  CASE s.err # "" -> s
          [] s.err = "" /\ Peek(s) \in {"if", "unless"} -> Got(c, If(test, Block(<<s.r>>, Absent), Absent))
          [] s.err = "" /\ At(s, "?") ->
               IF s.r.k \in {"Binding", "Expression"} THEN Got(body, If(cond, body.r, Absent))
               ELSE PFail(s, "guard")
          [] OTHER -> SkipNL(s)

ParseStmt(st) ==
    CASE st.err # "" -> st
      [] SelfField(st) /\ TokAt(st, 3).k \in {"is"} \cup DOMAIN AugmentedOps -> ParseSelfField(st)
      [] At(st, "Identifier") /\ ~ SelfField(st) /\ TokAt(st, 1).k \in DOMAIN AugmentedOps -> ParseAugmented(st)
      [] ~ IsBinding(st) /\ IsPatternBinding(st) -> ParsePatternBinding(st)
      [] Peek(st) \in {"if", "unless"} -> ParseIf(st)
      [] Peek(st) \in {"while", "until", "loop"} -> ParseWhile(st)
      [] At(st, "for") -> ParseForStatement(st)
      [] OTHER -> Suffixed(SimpleStmt(st))
=============================================================================
