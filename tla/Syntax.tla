------------------------------- MODULE Syntax -------------------------------
(***************************************************************************)
(* The abstract syntax tree of a Coral program (src/src/ast.rs).           *)
(*                                                                         *)
(* Every node is one record: k is its kind (the variant's name), n its     *)
(* name, operator or text, i its number (an Integer literal, 0 or 1 for a  *)
(* Bool), p the names it binds (parameters, loop variables) or gives       *)
(* (argument names, "" for a positional one), a its children in the order  *)
(* of the source's fields.  An absent optional child is Absent.  Spans are *)
(* left out.  A uniform node lets a pass say only which kinds it treats    *)
(* specially.                                                              *)
(***************************************************************************)
EXTENDS Integers, Sequences, FiniteSets

Node(k, n, i, p, a) == [k |-> k, n |-> n, i |-> i, p |-> p, a |-> a]
Absent == Node("Absent", "", 0, <<>>, <<>>)
IsAbsent(e) == e.k = "Absent"

(* A sequence mapped element by element; the concatenation makes TLC       *)
(* evaluate every element once.                                            *)
Each(Op(_), s) == <<>> \o [j \in DOMAIN s |-> Op(s[j])]
Elems(s) == {s[j] : j \in DOMAIN s}
Front1(s) == SubSeq(s, 1, Len(s) - 1)
Last1(s) == s[Len(s)]
Flat(ss) ==
    LET F[j \in 0 .. Len(ss)] == IF j = 0 THEN <<>> ELSE F[j - 1] \o ss[j]
    IN  F[Len(ss)]

-----------------------------------------------------------------------------
(* Expressions (enum Expression).                                          *)
Leaf(k, n) == Node(k, n, 0, <<>>, <<>>)
Ident(x) == Leaf("Identifier", x)
Integer(v) == Node("Integer", "", v, <<>>, <<>>)
Bool(b) == Node("Bool", "", IF b THEN 1 ELSE 0, <<>>, <<>>)
Str(t) == Leaf("String", t)
NoneE == Leaf("None", "")
UnitE == Leaf("Unit", "")
Placeholder(v) == Node("Placeholder", "", v, <<>>, <<>>)
ErrorValue(path) == Leaf("ErrorValue", path)
Binary(op, l, r) == Node("Binary", op, 0, <<>>, <<l, r>>)
Unary(op, e) == Node("Unary", op, 0, <<>>, <<e>>)
CallNamed(f, args, names) == Node("Call", "", 0, names, <<f>> \o args)
CallE(f, args) == CallNamed(f, args, [j \in 1 .. Len(args) |-> ""])
Call(f, args) == CallE(Ident(f), args)
Member(e, prop) == Node("Member", prop, 0, <<>>, <<e>>)
Ternary(c, t, e) == Node("Ternary", "", 0, <<>>, <<c, t, e>>)
Pipeline(l, r) == Node("Pipeline", "", 0, <<>>, <<l, r>>)
Propagate(e) == Node("ErrorPropagate", "", 0, <<>>, <<e>>)
Throw(e) == Node("Throw", "", 0, <<>>, <<e>>)
ListE(es) == Node("List", "", 0, <<>>, es)
MapE(kvs) == Node("Map", "", 0, <<>>, kvs)
Spread(e) == Node("Spread", "", 0, <<>>, <<e>>)
ListComp(x, body, it, cond) == Node("ListComprehension", "", 0, <<x>>, <<body, it, cond>>)
MapComp(x, key, val, it, cond) == Node("MapComprehension", "", 0, <<x>>, <<key, val, it, cond>>)
Index(e, ix) == Node("Index", "", 0, <<>>, <<e, ix>>)
Slice(e, s, t) == Node("Slice", "", 0, <<>>, <<e, s, t>>)
Unsafe(b) == Node("Unsafe", "", 0, <<>>, <<b>>)

(* A block is its statements and then its value (struct Block).            *)
Block(stmts, value) == Node("Block", "", 0, <<>>, stmts \o <<value>>)
Stmts(b) == Front1(b.a)
ValueOf(b) == Last1(b.a)
BlockOf(e) == Block(<<>>, e)

(* Parameters with their defaults: a lambda's and a function's children    *)
(* are its body and then one default, or Absent, for each parameter.       *)
Lambda(ps, body) == Node("Lambda", "", 0, ps, <<body>> \o [j \in 1 .. Len(ps) |-> Absent])
BodyOf(f) == f.a[1]
Defaults(f) == Tail(f.a)

(* Match arms and patterns (struct MatchExpression, enum MatchPattern).    *)
Arm(pat, guard, body) == Node("Arm", "", 0, <<>>, <<pat, guard, body>>)
Match(v, arms, default) == Node("Match", "", 0, <<>>, <<v>> \o arms \o <<default>>)
Arms(m) == SubSeq(m.a, 2, Len(m.a) - 1)
PInt(v) == Node("PInteger", "", v, <<>>, <<>>)
PBool(b) == Node("PBool", "", IF b THEN 1 ELSE 0, <<>>, <<>>)
PStr(t) == Leaf("PString", t)
PIdent(x) == Leaf("PIdentifier", x)
PWild == Leaf("PWildcard", "")
PList(ps) == Node("PList", "", 0, <<>>, ps)
PCtor(c, ps) == Node("PConstructor", c, 0, <<>>, ps)
POr(ps) == Node("POr", "", 0, <<>>, ps)
PRange(x, lo, hi) == Node(IF x = "" THEN "PRange" ELSE "PRangeBinding", x, lo, <<>>, <<PInt(hi)>>)
PRest(x) == Leaf("PRest", x)

-----------------------------------------------------------------------------
(* Statements (enum Statement).                                            *)
Binding(x, e) == Node("Binding", x, 0, <<>>, <<e>>)
ExprS(e) == Node("Expression", "", 0, <<>>, <<e>>)
Return(e) == Node("Return", "", 0, <<>>, <<e>>)
(* An If is condition, body, then a condition and a body for each elif,    *)
(* and last the else body or Absent.                                       *)
IfElif(c, body, elifs, els) == Node("If", "", 0, <<>>, <<c, body>> \o elifs \o <<els>>)
If(c, body, els) == IfElif(c, body, <<>>, els)
While(c, body) == Node("While", "", 0, <<>>, <<c, body>>)
For(x, it, body) == Node("For", "", 0, <<x>>, <<it, body>>)
ForKV(x, y, it, body) == Node("ForKV", "", 0, <<x, y>>, <<it, body>>)
ForRange(x, s, t, step, body) == Node("ForRange", "", 0, <<x>>, <<s, t, step, body>>)
FieldAssign(e, f, v) == Node("FieldAssign", f, 0, <<>>, <<e, v>>)
Break == Leaf("Break", "")
Continue == Leaf("Continue", "")
PatternBinding(pat, e) == Node("PatternBinding", "", 0, <<>>, <<pat, e>>)

(* Items (enum Item).  A function's i is 0 for Free, 1 for Method, 2 for   *)
(* ActorMessage.                                                           *)
FunctionD(f, ps, defaults, body) == Node("Function", f, 0, ps, <<body>> \o defaults)
Function(f, ps, body) == FunctionD(f, ps, [j \in 1 .. Len(ps) |-> Absent], body)
Method(f, ps, body) == [Function(f, ps, body) EXCEPT !.i = 1]
Message(f, ps, body) == [Function(f, ps, body) EXCEPT !.i = 2]
Extern(f, ps) == Node("ExternFunction", f, 0, ps, <<>>)
(* A type's variants, each with its field names, and its methods; p is its *)
(* fields.                                                                 *)
Variant(c, fields) == Node("Variant", c, 0, fields, <<>>)
Type(t, fields, variants, methods) == Node("Type", t, 0, fields, variants \o methods)
Store(s, fields, methods, isActor) == Node("Store", s, IF isActor THEN 1 ELSE 0, fields, methods)
(* A trait's methods; one without a body has an Absent body.               *)
Trait(t, needs, methods) == Node("TraitDefinition", t, 0, needs, methods)
Extension(t, methods) == Node("Extension", t, 0, <<>>, methods)
ErrorDef(e, children) == Node("ErrorDefinition", e, 0, <<>>, children)

(* The nodes of a tree.                                                    *)
RECURSIVE Nodes(_)
Nodes(e) == {e} \cup UNION {Nodes(e.a[j]) : j \in DOMAIN e.a}

Patterns == {"PInteger", "PBool", "PString", "PIdentifier", "PWildcard", "PList",
             "PConstructor", "POr", "PRange", "PRangeBinding", "PRest"}
=============================================================================
