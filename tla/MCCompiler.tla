------------------------------ MODULE MCCompiler ------------------------------
(* Programs for the compiler: families of small ones, each about a part of *)
(* the language.                                                           *)
EXTENDS Compiler

Main(ss, v) == <<Function("main", <<>>, Block(ss, v))>>
(* A block of statements; an expression at its end is its value.           *)
Do(ss) == IF Last1(ss).k = "Expression" THEN Block(Front1(ss), Last1(ss).a[1]) ELSE Block(ss, Absent)
Log(e) == ExprS(Call("log", <<e>>))
Plus(l, r) == Binary("Add", l, r)
Below(l, r) == Binary("Less", l, r)
X == Ident("x")
Y == Ident("y")

(* Expressions of two operators.                                           *)
Operands == {Integer(1), X, Bool(TRUE)}
Ops == {"Add", "Mul", "Less", "Equals", "And", "Or"}
Shallow == {Binary(o, l, Integer(2)) : o \in Ops, l \in Operands}
           \cup {Unary(o, l) : o \in {"Neg", "Not"}, l \in {Integer(1), X}}
Expressions ==
    {Main(<<Binding("x", Integer(3))>>, e) : e \in
        {Binary(o, l, r) : o \in Ops, l \in Shallow, r \in {Integer(1), X}}
        \cup {Binary(o, X, r) : o \in Ops, r \in Shallow}
        \cup {Unary(o, e) : o \in {"Neg", "Not"}, e \in Shallow}
        \cup {Ternary(c, Integer(1), e) : c \in Shallow, e \in Operands}}

(* Statements one after the other.                                         *)
StepS == Binding("x", Plus(X, Integer(1)))
Inc == Do(<<StepS>>)
StatementSet ==
    {Binding("x", Integer(2)), Binding("y", Plus(X, Integer(1))), StepS, Log(X), Log(Plus(X, Integer(1))),
     If(Below(X, Integer(2)), Do(<<Log(X)>>), Do(<<Return(X)>>)),
     IfElif(Below(X, Integer(1)), Inc, <<Binary("Equals", X, Integer(1)), Do(<<Log(Str("a"))>>)>>, Inc),
     IfElif(Below(X, Integer(1)), Do(<<Log(Below(X, Integer(2)))>>), <<Below(X, Integer(2)), Do(<<Log(X)>>)>>, Inc),
     While(Below(X, Integer(3)), Inc),
     While(Bool(TRUE), Do(<<StepS, If(Below(Integer(3), X), Block(<<Break>>, Absent), Absent)>>)),
     For("i", ListE(<<Integer(1), Integer(2)>>), Do(<<Log(Ident("i"))>>)),
     ForRange("i", Integer(0), Integer(2), Absent, Do(<<Log(Plus(Ident("i"), X))>>)),
     PatternBinding(PList(<<PIdent("y"), PRest("z")>>), ListE(<<Integer(1), X>>)),
     Binding("y", Match(X, <<Arm(PInt(1), Absent, BlockOf(Integer(5)))>>, BlockOf(X))),
     Binding("f", Lambda(<<"q">>, BlockOf(Plus(Ident("q"), X)))),
     Log(ListComp("q", Plus(Ident("q"), X), ListE(<<Integer(1), Integer(2)>>), Below(Ident("q"), Integer(2)))),
     If(Below(Integer(2), X), Do(<<Binding("y", X)>>), Absent), Log(Y),
     Log(Pipeline(X, Call("g", <<Placeholder(0)>>)))}
G == Function("g", <<"a">>, Block(<<Binding("b", Binary("Mul", Ident("a"), Integer(2)))>>, Ident("b")))
Sequences2 ==
    {<<G>> \o Main(<<Binding("x", Integer(1)), s, t>>, X) : s \in StatementSet, t \in StatementSet}

(* A function of two parameters and ways to call it.                       *)
A == Ident("a")
B == Ident("b")
F2(default, body) == FunctionD("f", <<"a", "b">>, <<Absent, default>>, body)
Bodies ==
    {Do(<<ExprS(Plus(A, B))>>), Do(<<ExprS(Binary("Sub", A, B))>>), Do(<<ExprS(ListE(<<A, B>>))>>),
     Do(<<If(Below(A, B), Do(<<Return(A)>>), Absent), ExprS(B)>>),
     Do(<<If(Below(A, B), Do(<<Return(ErrorValue("Bad"))>>), Absent), ExprS(ListE(<<B>>))>>),
     Do(<<ExprS(Ternary(Below(B, A), Call("f", <<Binary("Sub", A, Integer(1)), B>>), A))>>),
     Do(<<ExprS(Lambda(<<"q">>, BlockOf(Plus(Ident("q"), A))))>>),
     Do(<<Binding("h", Lambda(<<"q">>, BlockOf(Binary("Mul", Ident("q"), B)))), ExprS(Call("h", <<A>>))>>)}
One == Integer(1)
Calls ==
    {Call("f", <<One>>), Call("f", <<Integer(4), One>>), Call("f", <<Str("s"), One>>),
     CallNamed(Ident("f"), <<One, Integer(4)>>, <<"b", "a">>),
     CallE(Call("f", <<One, Integer(3)>>), <<One>>), Propagate(Call("f", <<One>>)),
     Pipeline(One, Call("f", <<Placeholder(0), Placeholder(0)>>)), Pipeline(Integer(4), Ident("f")),
     Index(Call("f", <<One>>), Integer(0)), Call("f", <<>>), Call("nobody", <<One>>),
     Plus(Call("f", <<Integer(4), One>>), Call("f", <<Integer(4), One>>))}
Functions2 ==
    {<<ErrorDef("Bad", <<>>), F2(d, b)>> \o Main(<<Log(c)>>, c) : d \in {Absent, Integer(2), A}, b \in Bodies, c \in Calls}

(* A match on a type of two variants.                                      *)
OptType == Type("OptType", <<>>, <<Variant("Some", <<"v">>), Variant("Empty", <<>>)>>, <<>>)
V == Ident("v")
ArmSet ==
    {Arm(PCtor("Some", <<PIdent("v")>>), Absent, BlockOf(V)),
     Arm(PCtor("Some", <<PIdent("v")>>), Below(V, Integer(2)), BlockOf(Plus(V, One))),
     Arm(PCtor("Some", <<PInt(1)>>), Absent, BlockOf(Integer(7))),
     Arm(PCtor("Some", <<PCtor("Empty", <<>>)>>), Absent, BlockOf(Integer(3))),
     Arm(PCtor("Empty", <<>>), Absent, BlockOf(Integer(0))),
     Arm(POr(<<PCtor("Empty", <<>>), PCtor("Some", <<PInt(2)>>)>>), Absent, BlockOf(Integer(6))),
     Arm(PWild, Absent, BlockOf(Integer(5)))}
MatchedSet == {Call("Some", <<One>>), Call("Some", <<Call("Empty", <<>>)>>), Call("Empty", <<>>)}
Matches ==
    {<<OptType>> \o Main(<<Binding("o", m)>>, Match(Ident("o"), arms, d)) :
        m \in MatchedSet, d \in {Absent, BlockOf(Integer(4))},
        arms \in {<<r>> : r \in ArmSet} \cup {<<r, s>> : r \in ArmSet, s \in ArmSet}}

Nested == Arm(PCtor("Some", <<PCtor("Some", <<PWild>>)>>), Absent, BlockOf(Integer(2)))
ThreeArms ==
    LET some == {Nested} \cup {r \in ArmSet : r.a[1].k = "PConstructor" /\ IsAbsent(r.a[2]) /\ r.a[1].a # <<PInt(1)>>}
    IN  {<<OptType>> \o Main(<<Binding("o", Call("Empty", <<>>))>>, Match(Ident("o"), <<r, s, t>>, Absent)) :
            r \in some, s \in some, t \in some}

(* Items of every kind, in either order.                                   *)
FieldNode(x) == Node("Field", x, 0, <<>>, <<Absent>>)
StoreWith(t, fields, methods, flag, traits) ==
    Node("Store", t, flag, fields, Each(FieldNode, fields) \o methods \o Each(LAMBDA r : Leaf("With", r), traits))
ItemSet ==
    {Trait("T", <<>>, <<Function("m", <<>>, BlockOf(One))>>),
     StoreWith("S", <<"c">>, <<Method("m", <<>>, BlockOf(Ident("c")))>>, 0, <<"T">>),
     StoreWith("S2", <<"c">>, <<>>, 0, <<"T">>),
     OptType, Type("Other", <<>>, <<Variant("Some", <<"w">>)>>, <<>>),
     Binding("x", Integer(3)), Binding("y", Plus(X, One)), Binding("y", Call("g", <<X>>)), Extern("puts", <<"s">>),
     Extension("S", <<Method("m2", <<>>, BlockOf(One))>>),
     StoreWith("Act", <<>>, <<Message("hit", <<"d">>, BlockOf(Ident("d")))>>, 1, <<>>),
     StoreWith("Act", <<>>, <<Message("hit", <<"d", "e">>, BlockOf(Ident("d")))>>, 1, <<>>),
     ErrorDef("Bad", <<ErrorDef("Worse", <<>>)>>), G,
     Function("g", <<>>, BlockOf(ErrorValue("Bad:Worse"))),
     ExprS(Call("log", <<One>>))}
Items2 ==
    {<<s, t>> \o Main(ss, One) : s \in ItemSet, t \in ItemSet,
        ss \in {<<Log(One)>>, <<Log(X)>>, <<Log(Y)>>, <<Binding("w", Call("g", <<One>>))>>}}
    \cup {<<s>> \o Main(<<ExprS(Call("assert_static", <<Bool(FALSE), Str("no")>>))>>, One) : s \in ItemSet}

(* Programs that inference refuses.                                        *)
IllTyped == {Main(<<Log(e)>>, One) : e \in
                {Below(Index(ListE(<<Str("a")>>), Integer(0)), One), Unary("Not", One), Plus(One, ListE(<<>>)),
                 Binary("Mul", Str("a"), Integer(2)), ListE(<<One, Str("a")>>)}}

MCPrograms == Expressions \cup Sequences2 \cup Functions2 \cup Matches \cup ThreeArms \cup Items2 \cup IllTyped
=============================================================================
