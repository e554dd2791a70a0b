----------------------------- MODULE ParserItems -----------------------------
(***************************************************************************)
(* The items of a program and the parser's recovery from errors            *)
(* (src/src/parser.rs): the first error is reported, and parsing goes on   *)
(* at the next item.                                                       *)
(***************************************************************************)
EXTENDS Parser

(* `with A, B`; r is the names.                                            *)
RECURSIVE NameList(_, _)
NameList(st, acc) ==
    LET x == Name(st)
    IN  IF x.err # "" THEN x
        ELSE IF At(x, ",") THEN NameList(Adv(x), Append(acc, x.r)) ELSE Got(x, Append(acc, x.r))
WithTraits(st) == IF At(st, "with") THEN NameList(Adv(st), <<>>) ELSE Got(st, <<>>)

(* parse_type_params: read, checked for repetitions, and left out of the   *)
(* tree.                                                                   *)
RECURSIVE Bounds(_)
Bounds(st) == IF At(st, "with") THEN Bounds(Name(Adv(st))) ELSE st
RECURSIVE TypeParamsFrom(_, _)
TypeParamsFrom(st, seen) ==
    LET x == Name(Opt(st, "const"))
        b == IF At(st, "const") THEN x ELSE Bounds(x)
        all == Append(seen, x.r)
        done(s, names) == IF Cardinality(Elems(names)) = Len(names) THEN s ELSE PFail(s, "duplicate type parameter")
    IN  IF st.err # "" THEN st
        ELSE IF At(st, "]") THEN done(Adv(st), seen)
        ELSE IF b.err # "" THEN b
        ELSE IF At(b, ",") THEN TypeParamsFrom(Adv(b), all) ELSE done(Expect(b, "]"), all)
TypeParams(st) == IF At(st, "[") THEN TypeParamsFrom(Adv(st), <<>>) ELSE st

(* parse_function: * or @, a name, parameters, a block.                    *)
ParseFunction(st, kind) ==
    LET x == Name(Adv(st))
        ps == Params(Expect(x, "("), <<>>, <<>>, TRUE)
        b == ParseBlock(Expect(ps, "Newline"))
    IN  Got(b, [FunctionD(x.r, ps.r.p, ps.r.d, b.r) EXCEPT !.i = IF At(st, "@") THEN 2 ELSE kind])

(* A field and its default, Absent when there is none.                     *)
ParseField(st) ==
    LET x == Name(Opt(st, "&"))
        d == IF Peek(x) \in {"?", "is"} THEN ParseE(SkipNL(Adv(x))) ELSE Got(x, Absent)
    IN  Got(SkipNL(d), Node("Field", x.r, IF At(st, "&") THEN 1 ELSE 0, <<>>, <<d.r>>))

(* The indented members of a type, store, extension, trait, enum or        *)
(* taxonomy, read by One as long as Starts holds of the current token.     *)
RECURSIVE Members(_, _, _)
TraitMethod(st) ==
    LET x == Name(Adv(st))
        ps == Params(Expect(x, "("), <<>>, <<>>, FALSE)
        nl == Adv(ps)
        b == IF At(ps, "Newline") THEN (IF At(nl, "Indent") THEN ParseBlock(nl) ELSE Got(nl, Absent))
             ELSE Got(ps, Absent)
    IN  IF ps.err # "" THEN ps ELSE Got(b, FunctionD(x.r, ps.r.p, ps.r.d, b.r))
RECURSIVE SubNames(_, _)
SubNames(st, acc) ==
    LET x == Name(st)
        all == Append(acc, x.r)
    IN  IF st.err # "" THEN st
        ELSE IF At(st, ")") THEN Got(Adv(st), acc)
        ELSE IF x.err # "" THEN x ELSE IF At(x, ",") THEN SubNames(Adv(x), all) ELSE Got(Expect(x, ")"), all)
VariantMember(st) ==
    LET x == Name(st)
        fields == SubNames(Adv(x), <<>>)
    IN  IF At(x, "(") THEN Got(fields, Variant(x.r, fields.r)) ELSE Got(x, Variant(x.r, <<>>))
RECURSIVE TaxonomyNode(_)
ParseMember(st, kind) ==
    CASE kind = "body" /\ Peek(st) \in {"*", "@"} -> ParseFunction(st, 1)
      [] kind = "body" /\ Peek(st) \in {"&", "Identifier"} -> ParseField(st)
      [] kind = "extension" /\ At(st, "*") -> ParseFunction(st, 1)
      [] kind = "trait" /\ At(st, "*") -> TraitMethod(st)
      [] kind = "enum" -> VariantMember(st)
      [] kind = "taxonomy" /\ At(st, "!!") -> TaxonomyNode(st)
      [] kind = "taxonomy" /\ IsBinding(st) -> ParseBinding(st)
      [] OTHER -> PFail(st, "unexpected token in body")
Members(st0, kind, acc) ==
    LET st == SkipNL(st0)
        m == ParseMember(st, kind)
    IN  CASE st.err # "" -> st
          [] st.err = "" /\ At(st, "Dedent") -> Got(LeaveBlock(st), acc)
          [] st.err = "" /\ At(st, "Eof") -> Got(MissingDedent(st), acc)
          [] OTHER -> IF m.err # "" THEN m ELSE Members(m, kind, Append(acc, m.r))
Body(st, kind) ==
    LET nl == Expect(st, "Newline")
    IN  IF nl.err # "" THEN nl
        ELSE IF NoBody(nl) THEN Got(OpenBody(nl), <<>>) ELSE Members(OpenBody(nl), kind, <<>>)
TaxonomyNode(st) ==
    LET x == Name(Adv(st))
        b == Body(x, "taxonomy")
    IN  Got(b, Node("Taxonomy", x.r, 0, <<>>, b.r))

FieldNames(ms) == Each(LAMBDA f : f.n, SelectSeq(ms, LAMBDA m : m.k = "Field"))
(* A type or store: its fields' names are p, its members and the traits it *)
(* is `with` are a.                                                        *)
Composite2(k, x, flag, traits, ms) ==
    Node(k, x, flag, FieldNames(ms), ms \o Each(LAMBDA t : Leaf("With", t), traits))
ParseType(st) ==
    LET x == Name(Adv(st))
        w == WithTraits(TypeParams(x))
        b == Body(w, "body")
    IN  Got(b, Composite2("Type", x.r, 0, w.r, b.r))
ParseEnum(st) ==
    LET x == Name(Adv(st))
        b == Body(TypeParams(x), "enum")
    IN  Got(b, Type(x.r, <<>>, b.r, <<>>))

(* parse_store_body; flag is 0 for a store, 1 for an actor, 2 for a        *)
(* persistent store.  Only an actor may name its messages' type.           *)
ParseStore(st, flag) ==
    LET x == Name(st)
        ty == Expect(Name(Expect(Name(Adv(x)), "(")), ")")
        msg == IF flag = 1 /\ At(x, "@")
               THEN (IF TokAt(x, 1).n = "messages" THEN ty ELSE PFail(x, "messages")) ELSE x
        w == WithTraits(msg)
        b == Body(w, "body")
    IN  Got(b, Composite2("Store", x.r, flag, w.r, b.r))

(* parse_error_definition and parse_error_body: code, message, children.   *)
RECURSIVE ErrorBody(_, _)
RECURSIVE ParseErrorDef(_)
ErrorBody(st0, d) ==
    LET st == SkipNL(st0)
        child == ParseErrorDef(st)
        x == TokAt(st, 0).n
        val == Expect(Adv(st), "is")
        want == IF x = "code" THEN "Integer" ELSE "String"
        next == Opt(Expect(val, want), "Newline")
        with == IF x = "code" THEN [d EXCEPT !.i = TokAt(val, 0).i] ELSE [d EXCEPT !.p = <<TokAt(val, 0).n>>]
    IN  CASE st.err # "" -> st
          [] st.err = "" /\ At(st, "err") ->
               IF child.err # "" THEN child ELSE ErrorBody(child, [d EXCEPT !.a = Append(@, child.r)])
          [] st.err = "" /\ At(st, "Identifier") /\ x \in {"code", "message"} ->
               IF next.err # "" THEN next ELSE ErrorBody(next, with)
          [] OTHER -> Got(st, d)
ParseErrorDef(st) ==
    LET x == Name(Adv(st))
        nl == Adv(x)
        b == ErrorBody(Adv(nl), ErrorDef(x.r, <<>>))
    IN  IF x.err # "" THEN x
        ELSE IF ~ At(x, "Newline") THEN Got(x, ErrorDef(x.r, <<>>))
        ELSE IF ~ At(nl, "Indent") THEN Got(nl, ErrorDef(x.r, <<>>)) ELSE Expect(b, "Dedent")

ParseTrait(st) ==
    LET x == Name(Adv(st))
        w == WithTraits(x)
        nl == Adv(w)
        ms == Members(Deeper(nl), "trait", <<>>)
    IN  IF w.err # "" THEN w
        ELSE IF ~ At(w, "Newline") THEN Got(w, Trait(x.r, w.r, <<>>))
        ELSE IF ~ At(nl, "Indent") THEN Got(nl, Trait(x.r, w.r, <<>>)) ELSE Got(ms, Trait(x.r, w.r, ms.r))
ParseExtension(st) ==
    LET x == Name(Adv(st))
        b == Body(x, "extension")
    IN  Got(b, Extension(x.r, b.r))
ParseExtern(st) ==
    LET x == Name(Expect(Adv(st), "fn"))
        ps == Params(Expect(x, "("), <<>>, <<>>, TRUE)
    IN  IF ps.err # "" THEN ps ELSE Got(Annotation(ps), Extern(x.r, ps.r.p))

(* parse_item.                                                             *)
ParseItem(st) ==
    LET e == ParseE(st)
    IN  CASE At(st, "type") -> ParseType(st)
          [] At(st, "enum") -> ParseEnum(st)
          [] At(st, "store") -> ParseStore(Adv(st), 0)
          [] At(st, "persist") -> ParseStore(Expect(Adv(st), "store"), 2)
          [] At(st, "actor") -> ParseStore(Adv(st), 1)
          [] At(st, "err") -> ParseErrorDef(st)
          [] At(st, "trait") -> ParseTrait(st)
          [] At(st, "extend") -> ParseExtension(st)
          [] At(st, "*") -> ParseFunction(st, 0)
          [] At(st, "!!") -> TaxonomyNode(st)
          [] At(st, "extern") -> ParseExtern(st)
          [] At(st, "Identifier") /\ IsBinding(st) -> ParseBinding(st)
          [] At(st, "match") \/ (At(st, "Identifier") /\ ~ IsBinding(st)) -> Got(e, ExprS(e.r))
          [] OTHER -> PFail(st, "unexpected token at top level")

(* synchronize_to_item: on to the start of an item, or to a line that      *)
(* begins with a name.                                                     *)
ItemStarts == {"*", "type", "enum", "store", "persist", "actor", "err", "trait", "extend", "extern", "Eof"}
RECURSIVE Synchronize(_)
Synchronize(st) ==
    LET nl == SkipNL(Adv(st))
    IN  IF Peek(st) \in ItemStarts THEN st
        ELSE IF ~ At(st, "Newline") THEN Synchronize(Adv(st))
        ELSE IF At(nl, "Identifier") THEN nl ELSE Synchronize(nl)

(* parse and parse_with_recovery: the items that could be read and the     *)
(* errors, the pending one first.                                          *)
RECURSIVE ItemsFrom(_, _, _)
ItemsFrom(st0, acc, errs) ==
    LET st == SkipNL(st0)
        it == ParseItem(st)
    IN  CASE At(st, "Eof") ->
               [items |-> acc, errs |-> IF st.pend = "" THEN errs ELSE <<st.pend>> \o errs]
          [] At(st, "Dedent") -> ItemsFrom(LeaveBlock(st), acc, errs)
          [] OTHER -> IF it.err = "" THEN ItemsFrom(it, Append(acc, it.r), errs)
                      ELSE ItemsFrom(Synchronize([it EXCEPT !.err = ""]), acc, Append(errs, it.err))
ParseProgram(ts) == ItemsFrom(ParserOn(ts), <<>>, <<>>)
=============================================================================
