------------------------------- MODULE Scopes -------------------------------
(***************************************************************************)
(* The first half of semantic analysis (src/src/semantic.rs, analyze): the *)
(* items of a program are collected in the order they are written, and the *)
(* names every function uses are looked up.  The result is the program's   *)
(* model, or the first error.                                              *)
(***************************************************************************)
EXTENDS Syntax, TLC

(* is_builtin_name, for the built-in functions the programs here use.      *)
BuiltinNames == {"log", "self", "length", "abs", "min", "max", "to_string", "is_err", "push", "range",
                 "actor_send"}

(* declare_pattern_bindings and declare_pattern_scope_names: the names of  *)
(* every alternative of an Or.                                             *)
PatternScope(pat) ==
    {m.n : m \in {q \in Nodes(pat) : q.k \in {"PIdentifier", "PRest", "PRangeBinding"}}}

(* check_expression and check_block: is every name used declared?  scope   *)
(* is what the frames of the ScopeStack declare between them.  An unsafe   *)
(* block is not looked into, and a binding's own name counts as declared   *)
(* in its value.                                                           *)
RECURSIVE NamesOk(_, _, _)
RECURSIVE BlockOk(_, _, _)

(* check_lambda: a parameter may not have a visible name, and each default *)
(* sees the parameters up to its own.                                      *)
LambdaOk(e, scope, known) ==
    LET before(q) == {e.p[j] : j \in 1 .. q}
    IN  /\ \A q \in DOMAIN e.p :
             /\ e.p[q] \notin scope \cup before(q - 1)
             /\ ~ IsAbsent(e.a[q + 1]) => NamesOk(e.a[q + 1], scope \cup before(q), known)
        /\ NamesOk(e.a[1], scope \cup Elems(e.p), known)

NamesOk(e, scope, known) ==
    CASE e.k = "Identifier" -> e.n \in scope \cup known \cup BuiltinNames
      [] e.k = "Block" -> BlockOk(e.a, scope, known)
      [] e.k = "Lambda" -> LambdaOk(e, scope, known)
      [] e.k = "Unsafe" \/ e.k \in Patterns -> TRUE
      [] e.k = "Arm" ->
           LET inner == scope \cup PatternScope(e.a[1])
           IN  NamesOk(e.a[2], inner, known) /\ NamesOk(e.a[3], inner, known)
      [] e.k = "ListComprehension" ->
           /\ NamesOk(e.a[2], scope, known)
           /\ NamesOk(e.a[1], scope \cup Elems(e.p), known)
           /\ NamesOk(e.a[3], scope \cup Elems(e.p), known)
      [] e.k = "MapComprehension" ->
           /\ NamesOk(e.a[3], scope, known)
           /\ \A j \in {1, 2, 4} : NamesOk(e.a[j], scope \cup Elems(e.p), known)
      [] OTHER -> \A j \in DOMAIN e.a : NamesOk(e.a[j], scope, known)

(* Mutant: bindings in nested blocks are declared too.                     *)
DeclaresWithin(s) == {m.n : m \in {q \in Nodes(s) : q.k = "Binding"}}

(* The statements of a block, and last its value; what a statement         *)
(* declares holds for the rest of the block only.                          *)
Declares(s) ==
    CASE s.k = "Binding" -> {s.n}
      [] s.k = "PatternBinding" -> PatternScope(s.a[1])
      [] OTHER -> {}
IsLoop(s) == s.k \in {"For", "ForKV", "ForRange"}
StatementOk(s, scope, known) ==
    CASE s.k = "Binding" -> NamesOk(s.a[1], scope \cup {s.n}, known)
      [] IsLoop(s) ->
           /\ \A j \in 1 .. Len(s.a) - 1 : NamesOk(s.a[j], scope, known)
           /\ NamesOk(Last1(s.a), scope \cup Elems(s.p), known)
      [] OTHER -> \A j \in DOMAIN s.a : NamesOk(s.a[j], scope, known)
BlockOk(ss, scope, known) ==
    ss = <<>> \/ (/\ StatementOk(Head(ss), scope, known)
                  /\ BlockOk(Tail(ss), scope \cup Declares(Head(ss)), known))

(* find_forbidden_identifier: the names an expression mentions, an unsafe  *)
(* block and a guard excepted.                                             *)
RECURSIVE Mentioned(_)
Mentioned(e) ==
    CASE e.k = "Identifier" -> {e.n}
      [] e.k = "Unsafe" \/ e.k \in Patterns -> {}
      [] e.k = "Arm" -> Mentioned(e.a[3])
      [] e.k = "Lambda" -> Mentioned(e.a[1])
      [] OTHER -> UNION {Mentioned(e.a[j]) : j \in DOMAIN e.a}

(* validate_parameter_defaults: no default mentions a later parameter.     *)
(* Nothing else about a function's defaults is checked.                    *)
DefaultsOk(f) ==
    \A q \in DOMAIN f.p :
        {f.p[j] : j \in q + 1 .. Len(f.p)} \cap Mentioned(f.a[q + 1]) = {}

(* check_method_with_fields, and check_function, which has no fields.      *)
MethodOk(f, fields, known) ==
    LET self == IF fields = {} THEN {} ELSE {"self"} \cup fields
    IN  /\ DefaultsOk(f)
        /\ \A q \in DOMAIN f.p : f.p[q] \notin self \cup {f.p[j] : j \in 1 .. q - 1}
        /\ NamesOk(f.a[1], self \cup Elems(f.p), known)
FunctionOk(f, known) == MethodOk(f, {}, known)

(* check_field_uniqueness.                                                 *)
FieldsUnique(fields) == Cardinality(Elems(fields)) = Len(fields)

-----------------------------------------------------------------------------
(* The names an item makes known before any function is checked; the names *)
(* of errors are not among them.                                           *)
Variants(t) == SelectSeq(t.a, LAMBDA v : v.k = "Variant")
Methods(t) == SelectSeq(t.a, LAMBDA m : m.k = "Function")
Announces(it) ==
    CASE it.k \in {"Function", "ExternFunction", "Binding", "TraitDefinition"} -> {it.n}
      [] it.k = "Store" -> {"make_" \o it.n, it.n}
      [] it.k = "Type" -> {it.n} \cup {v.n : v \in Elems(Variants(it))}
      [] OTHER -> {}

(* register_error_definitions: an error and, below it, its children, with  *)
(* the path to each.                                                       *)
RECURSIVE ErrorNames(_, _)
ErrorNames(e, prefix) ==
    LET full == IF prefix = "" THEN e.n ELSE prefix \o ":" \o e.n
    IN  {full} \cup UNION {ErrorNames(e.a[j], full) : j \in DOMAIN e.a}

(* SemanticModel, as far as collecting the items fills it.                 *)
EmptyModel(known) ==
    [globals |-> <<>>, functions |-> <<>>, externs |-> <<>>, stores |-> <<>>, types |-> <<>>,
     traits |-> <<>>, known |-> known, err |-> ""]
Refuse(m, why) == [m EXCEPT !.err = why]
HasName(s, x) == \E j \in DOMAIN s : s[j].n = x

CollectBinding(m, it) ==
    IF HasName(m.globals, it.n) THEN Refuse(m, "duplicate binding")
    ELSE [m EXCEPT !.globals = Append(@, it)]
CollectFunction(m, it) ==
    CASE HasName(m.functions, it.n) -> Refuse(m, "duplicate function")
      [] ~ HasName(m.functions, it.n) /\ ~ FunctionOk(it, m.known) -> Refuse(m, "undefined name")
      [] OTHER -> [m EXCEPT !.functions = Append(@, it)]

(* A top-level expression becomes a global of a fresh name.                *)
CollectExpression(m, it) ==
    [m EXCEPT !.globals = Append(@, Binding("__expr" \o ToString(Len(@)), it.a[1]))]

(* A constructor belongs to one type only.                                 *)
CtorsOf(t) == {v.n : v \in Elems(Variants(t))}
CollectType(m, it) ==
    CASE ~ FieldsUnique(it.p) -> Refuse(m, "duplicate field")
      [] FieldsUnique(it.p) /\ \E t \in Elems(m.types) : t.n # it.n /\ CtorsOf(t) \cap CtorsOf(it) # {} ->
           Refuse(m, "constructor already defined")
      [] OTHER ->
           IF \A f \in Elems(Methods(it)) : MethodOk(f, Elems(it.p), m.known)
           THEN [m EXCEPT !.types = Append(@, it)] ELSE Refuse(m, "undefined name")

(* A store or an actor; a message handler has at most one parameter.       *)
CollectStore(m, it) ==
    CASE ~ FieldsUnique(it.p) -> Refuse(m, "duplicate field")
      [] FieldsUnique(it.p) /\ it.i = 1 /\ (\E f \in Elems(Methods(it)) : f.i = 2 /\ Len(f.p) > 1) ->
           Refuse(m, "handler parameters")
      [] OTHER ->
           IF \A f \in Elems(Methods(it)) : MethodOk(f, Elems(it.p), m.known)
           THEN [m EXCEPT !.stores = Append(@, it)] ELSE Refuse(m, "undefined name")

(* An extension adds the methods its target does not have, to the first    *)
(* store of that name, else to the first type, else to a built-in type; an *)
(* extension written before its target is dropped without a word.          *)
BuiltinTypes == {"String", "List", "Map", "Int", "Float", "Bool", "Number", "Bytes"}
Extended(t, ext) ==
    LET new == SelectSeq(ext.a, LAMBDA f : ~ HasName(Methods(t), f.n))
    IN  [t EXCEPT !.a = @ \o Each(LAMBDA f : [f EXCEPT !.i = 1], new)]
ExtendFirst(s, ext) ==
    LET j == CHOOSE l \in DOMAIN s : s[l].n = ext.n /\ \A q \in 1 .. l - 1 : s[q].n # ext.n
    IN  [s EXCEPT ![j] = Extended(@, ext)]
CollectExtension(m, it) ==
    CASE HasName(m.stores, it.n) -> [m EXCEPT !.stores = ExtendFirst(@, it)]
      [] ~ HasName(m.stores, it.n) /\ HasName(m.types, it.n) -> [m EXCEPT !.types = ExtendFirst(@, it)]
      [] ~ HasName(m.stores, it.n) /\ ~ HasName(m.types, it.n) /\ it.n \in BuiltinTypes ->
           [m EXCEPT !.stores = Append(@, Extended(Store(it.n, <<>>, <<>>, FALSE), it))]
      [] OTHER -> m

CollectItem(m, it) ==
    CASE it.k = "Binding" -> CollectBinding(m, it)
      [] it.k = "ExternFunction" -> [m EXCEPT !.externs = Append(@, it)]
      [] it.k = "Function" -> CollectFunction(m, it)
      [] it.k = "Expression" -> CollectExpression(m, it)
      [] it.k = "Type" -> CollectType(m, it)
      [] it.k = "Store" -> CollectStore(m, it)
      [] it.k = "ErrorDefinition" -> [m EXCEPT !.known = @ \cup ErrorNames(it, "")]
      [] it.k = "TraitDefinition" -> [m EXCEPT !.traits = Append(@, it)]
      [] it.k = "Extension" -> CollectExtension(m, it)
      [] OTHER -> m

(* The items one after the other, up to the first error.                   *)
Collect(items) ==
    LET start == EmptyModel(UNION {Announces(it) : it \in Elems(items)})
        F[j \in 0 .. Len(items)] ==
            IF j = 0 THEN start ELSE IF F[j - 1].err # "" THEN F[j - 1] ELSE CollectItem(F[j - 1], items[j])
    IN  F[Len(items)]

-----------------------------------------------------------------------------
(* Traits.  inject_trait_default_methods: an owner gets the default        *)
(* methods of its traits that it lacks (their bodies were never checked).  *)
Withs(t) == {w.n : w \in {c \in Elems(t.a) : c.k = "With"}}
TraitsOf(m, t) == {d \in Elems(m.traits) : d.n \in Withs(t)}
HasBody(f) == ~ IsAbsent(f.a[1])
InjectDefaults(m, t) ==
    LET fs == Flat([j \in DOMAIN m.traits |-> IF m.traits[j].n \in Withs(t) THEN m.traits[j].a ELSE <<>>])
        F[j \in 0 .. Len(fs)] ==
            IF j = 0 THEN t
            ELSE IF HasBody(fs[j]) /\ ~ HasName(Methods(F[j - 1]), fs[j].n)
                 THEN [F[j - 1] EXCEPT !.a = Append(@, [fs[j] EXCEPT !.i = 1])] ELSE F[j - 1]
    IN  F[Len(fs)]

(* validate_type_traits and validate_store_traits: the traits are known,   *)
(* what they require is implemented too, and so are their methods without  *)
(* a default.                                                              *)
TraitsImplemented(m, t) ==
    /\ Withs(t) \subseteq {d.n : d \in Elems(m.traits)}
    /\ \A d \in TraitsOf(m, t) :
         /\ Elems(d.p) \subseteq Withs(t)
         /\ \A f \in Elems(d.a) : HasBody(f) \/ HasName(Methods(t), f.n)

(* The default methods a type or store is said to override.  The defaults  *)
(* were injected before, so every default of its traits is said to be.     *)
OverrideWarnings(m, t) ==
    {<<t.n, f.n>> : f \in {g \in UNION {Elems(d.a) : d \in TraitsOf(m, t)} :
                            HasBody(g) /\ HasName(Methods(t), g.n)}}

(* validate_trait_implementations, after the injection.                    *)
ResolveTraits(m) ==
    LET full == [m EXCEPT !.types = Each(LAMBDA t : InjectDefaults(m, t), @),
                          !.stores = Each(LAMBDA t : InjectDefaults(m, t), @)]
        owners == Elems(full.types) \cup Elems(full.stores)
        names == {d.n : d \in Elems(m.traits)}
    IN  IF /\ \A t \in owners : TraitsImplemented(full, t)
           /\ \A d \in Elems(m.traits) : Elems(d.p) \subseteq names
        THEN full ELSE Refuse(full, "trait")
=============================================================================
