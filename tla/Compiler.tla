------------------------------- MODULE Compiler -------------------------------
(***************************************************************************)
(* The compiler from a source to running code (src/src/compiler.rs,        *)
(* compile_to_ir_with_warnings): one action for each stage, each of which  *)
(* hands its result on or refuses the program.  A program is one that its  *)
(* author has in mind (program, a tree) and wrote down (source, its        *)
(* lines); the stages only see the source.                                 *)
(***************************************************************************)
EXTENDS ParserItems, Printer, Lower, Checks, Solver, ConstFold, Machine, Meaning

CONSTANTS
    Programs,       \* the programs written, sequences of items
    Writer,         \* the lines a program is written in
    LexStage, ParseStage, LowerStage, AnalyzeStage, FoldStage, GenerateStage, RunStage
                    \* the stages, functions of their input, as defined below

VARIABLES
    program,    \* what the author has in mind
    stage,      \* the stage to come; "done" or "refused" at the end
    work,       \* what the last stage handed on
    plain,      \* the analysed program before folding
    warnings,   \* what analysis warned about
    error,      \* why the program was refused, "" otherwise
    outcome     \* what the compiled program did
vars == <<program, stage, work, plain, warnings, error, outcome>>

-----------------------------------------------------------------------------
(* The stages.  Each answers what it hands on (out) and why it refuses its *)
(* input (err), "" if it does not.                                         *)
Answer(why, out) == [err |-> why, out |-> out]
Unless(ok, why) == IF ok THEN "" ELSE why

(* semantic::analyze: the items are collected and their names resolved,    *)
(* the types inferred, the warnings made, and the traits resolved.         *)
AnalyzeItems ==
    LET F[items \in Any] ==
            LET collected == Collect(items)
                types == InferTypes(collected)
                warned == UNION {Warnings(f, collected) : f \in Elems(collected.functions)}
                          \cup UNION {MatchWarnings(g.a[1], Elems(collected.types)) : g \in Elems(collected.globals)}
                          \cup {<<"branch types", h>> : h \in BranchWarnings(types.hints)}
                model == ResolveTraits(collected)
            IN  IF collected.err # "" THEN Answer(collected.err, <<>>)
                ELSE IF ~ types.ok THEN Answer("types", <<>>)
                ELSE Answer(model.err, [model |-> model, types |-> types, warnings |-> warned])
    IN  F

(* fold_expressions, and the items code is generated from.                 *)
ItemsOf(m) == m.types \o m.globals \o m.functions
FoldModel ==
    LET F[model \in Any] ==
            LET visited == {g.a[1] : g \in Elems(model.globals) \cup Elems(model.functions)}
            IN  IF \E e \in visited : StaticErrors(e) THEN Answer("assert_static", <<>>)
                ELSE Answer("", FoldProgram(ItemsOf(model)))
    IN  F

(* Parser::parse reports the first error.                                  *)
LexLines ==
    LET F[lines \in Any] == LET r == Lex(lines, TRUE) IN Answer(Unless(r.err = "", "lex"), r.ts)
    IN  F
ParseTokens ==
    LET F[tokens \in Any] == LET r == ParseProgram(tokens) IN Answer(Unless(r.errs = <<>>, "parse"), r.items)
    IN  F
LowerItems ==
    LET F[items \in Any] == LET r == LowerProgram(items) IN Answer(Unless(r.err = "", "lower"), r.items)
    IN  F
(* CodeGenerator::compile, and a program linked with the runtime and run.  *)
GenerateCode ==
    LET F[items \in Any, types \in Any] == LET code == CompileProgram(items, types) IN Answer(code.err, code)
    IN  F
RunCode ==
    LET F[code \in Any] == RunProgram(code)
    IN  F
WrittenLines ==
    LET F[p \in Any] == ProgramL(p)
    IN  F

-----------------------------------------------------------------------------
NotRun == Outcome("not run", UnitV, <<>>)
Nothing == [model |-> EmptyModel({}), types |-> Unknown]

Init ==
    /\ program \in Programs
    /\ stage = "lex"
    /\ work = Writer[program]
    /\ plain = Nothing
    /\ warnings = {}
    /\ error = ""
    /\ outcome = NotRun

Pass(next, result) == stage' = next /\ work' = result /\ UNCHANGED error
RefuseAt(why) == stage' = "refused" /\ error' = why /\ UNCHANGED work

(* A stage that takes work and hands its result on.                        *)
Transform(at, next, r) ==
    /\ stage = at
    /\ IF r.err = "" THEN Pass(next, r.out) ELSE RefuseAt(r.err)
    /\ UNCHANGED <<program, plain, warnings, outcome>>

Lexing == Transform("lex", "parse", LexStage[work])
Parsing == Transform("parse", "lower", ParseStage[work])
Lowering == Transform("lower", "analyze", LowerStage[work])

Analyzing ==
    LET r == AnalyzeStage[work]
    IN  /\ stage = "analyze"
        /\ IF r.err # "" THEN RefuseAt(r.err) /\ UNCHANGED <<plain, warnings>>
           ELSE /\ Pass("fold", <<>>)
                /\ plain' = [model |-> r.out.model, types |-> r.out.types]
                /\ warnings' = r.out.warnings
        /\ UNCHANGED <<program, outcome>>

Folding == Transform("fold", "generate", FoldStage[plain.model])
Generating == Transform("generate", "run", GenerateStage[work, plain.types])

Running ==
    /\ stage = "run"
    /\ stage' = "done"
    /\ outcome' = RunStage[work]
    /\ UNCHANGED <<program, work, plain, warnings, error>>

Next == Lexing \/ Parsing \/ Lowering \/ Analyzing \/ Folding \/ Generating \/ Running
Spec == Init /\ [][Next]_vars
-----------------------------------------------------------------------------
(* No Newline follows a Dedent, so a statement that ends in an indented     *)
(* block is continued by the next line when that begins with an operator,  *)
(* a bracket, if or unless.  In separated programs no such line follows.   *)
EndsInBlock(s) ==
    s.k \in {"Binding", "PatternBinding", "FieldAssign", "Expression", "Return"} /\ Blocky(Last1(s.a))
BeginsAfresh(s) ==
    LET e == IF s.k = "Expression" THEN s.a[1] ELSE Absent
        named == IF e.k = "Call" THEN e.a[1] ELSE e
    IN  /\ s.k \notin {"If", "Function", "PatternBinding", "FieldAssign"}
        /\ named.k \in {"Absent", "Identifier", "Integer", "String", "Bool", "Match"}
Apart(ss) == \A j \in 1 .. Len(ss) - 1 : EndsInBlock(ss[j]) => BeginsAfresh(ss[j + 1])
LinesOf(b) == IF IsAbsent(ValueOf(b)) THEN Stmts(b) ELSE Append(Stmts(b), ExprS(ValueOf(b)))
Separated(p) ==
    /\ Apart(p)
    /\ \A b \in UNION {Nodes(it) : it \in Elems(p)} : b.k = "Block" => Apart(LinesOf(b))

(* Parsing inverts writing: from the lines of a separated program, lexer   *)
(* and parser (src/src/lexer.rs lex, src/src/parser.rs parse) build the    *)
(* program its author had in mind, operator by operator, block by block;   *)
(* none is refused.                                                        *)
ParsesBack ==
    [][Separated(program) /\ stage \in {"lex", "parse"}
       => stage' # "refused" /\ (stage = "parse" => work' = program)]_vars

(* A global's value that names the global itself or a later one reads the  *)
(* zero that global starts with.                                           *)
GlobalsInOrder(p) ==
    \A j \in DOMAIN p : p[j].k = "Binding" =>
        \A m \in Nodes(p[j]) : m.k = "Identifier" => ~ \E l \in j .. Len(p) : p[l].k = "Binding" /\ p[l].n = m.n

(* Compiling preserves meaning: what an accepted program returns and       *)
(* prints, after lowering, inference, folding, specialisation, common      *)
(* subexpression caching and unboxing (src/src/codegen/mod.rs), is what    *)
(* its tree means (module Meaning).  Left out: errors taken for integers   *)
(* (garbage).                                                              *)
CodeMeansProgram ==
    [][LET meant == Meaning(program, Fuel)
       IN  stage = "run" /\ meant.sig # "fuel" /\ outcome'.sig # "garbage" /\ GlobalsInOrder(program)
           => outcome' = meant]_vars

(* Folding constants (src/src/compiler.rs fold_expressions) changes        *)
(* nothing a program does: it returns and prints what the unfolded one     *)
(* does, faults included.                                                  *)
FoldPreserves ==
    [][LET unfolded == RunProgram(CompileProgram(ItemsOf(plain.model), plain.types))
       IN  stage = "run" /\ unfolded.sig # "fuel" => outcome' = unfolded]_vars

(* The ways a function binds a name.  A name bound in two ways may get a   *)
(* slot of one representation and a value of another.                      *)
Binders(f, x) ==
    {m.k : m \in {q \in Nodes(f) : \/ q.k \in {"Binding", "PIdentifier", "PRest", "PRangeBinding"} /\ q.n = x
                                   \/ q.k \in {"For", "ForKV", "ForRange", "ListComprehension"} /\ x \in Elems(q.p)}}
OneWay(p) ==
    \A f \in Elems(p) : \A m \in Nodes(f) :
        m.k \in {"For", "ForRange", "PIdentifier", "PRest", "ListComprehension"}
        => \A x \in Elems(m.p) \cup {m.n} : Cardinality(Binders(f, x)) <= 1

(* A program that analysis accepts (src/src/semantic.rs analyze) never     *)
(* reads a slot nothing was stored in, never takes a value of another kind *)
(* for a bare integer, and never reads a slot in the wrong representation. *)
AcceptedRunsSafely == stage = "done" /\ OneWay(program) => outcome.sig \in {"ok", "fuel"}

(* The values of type t whose fields, d levels deep, are of type t too.    *)
RECURSIVE Inhabitants(_, _)
Inhabitants(t, d) ==
    UNION {IF v.p = <<>> THEN {TaggedV(v.n, <<>>)}
           ELSE IF d = 0 THEN {TaggedV(v.n, <<UnitV>>)}
           ELSE {TaggedV(v.n, <<w>>) : w \in Inhabitants(t, d - 1)} : v \in {u \in Elems(t.a) : u.k = "Variant"}}
(* The matches judged: without a default, with constructors of at most one *)
(* field and catch-alls, and, where a constructor is within another,       *)
(* without guards and alternatives.                                        *)
Judged(m) ==
    LET parts == UNION {Nodes(x.a[1]) : x \in Elems(Arms(m))}
        nested == \E q \in parts : q.k = "PConstructor" /\ \E j \in DOMAIN q.a : q.a[j].k = "PConstructor"
    IN  /\ IsAbsent(Last1(m.a))
        /\ \A q \in parts : /\ q.k \in {"PConstructor", "PIdentifier", "PWildcard", "POr"}
                            /\ q.k = "PConstructor" => Len(q.a) <= 1
        /\ nested => \A x \in Elems(Arms(m)) : IsAbsent(x.a[2]) /\ x.a[1].k # "POr"
Plain(m) == {x \in Elems(Arms(m)) : IsAbsent(x.a[2])}
Covers(m, types) ==
    \A t \in {u \in types : \E x \in Elems(Arms(m)) : x.a[1].n \in CtorsOf(u)} :
        \A v \in Inhabitants(t, 2) : \E x \in Plain(m) : TestPat(x.a[1], v)
Silent == {m \in UNION {Nodes(f) : f \in Elems(plain.model.functions)} :
              m.k = "Match" /\ Judged(m) /\ <<"exhaustive", m>> \notin warnings}

(* A match that check_single_match_exhaustiveness (src/src/semantic.rs)    *)
(* does not warn about has an arm without a guard for every value of its   *)
(* type, nested two deep, by the tests that emit_match_condition           *)
(* (src/src/codegen/match_adt.rs) emits: it never falls through.  Left out *)
(* are the matches all of whose arms have guards.                          *)
SilentMatchesCover ==
    [][stage = "fold" => \A m \in Silent : Plain(m) # {} => Covers(m, Elems(plain.model.types))]_vars

(* Type inference ends in a solution: solve_constraints                    *)
(* (src/src/types/solver.rs) takes the constraints kind by kind and binds  *)
(* variables as it goes, and what it bound later does not break what it    *)
(* had already accepted.                                                   *)
SolverSettled ==
    [][LET cons == GatherProgram(plain.model).cons
           g == Solve(cons).g
       IN  stage = "fold" => \A j \in DOMAIN cons : SolveOne(cons[j], g).ok]_vars
=============================================================================
