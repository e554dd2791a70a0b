------------------------------- MODULE Checks -------------------------------
(***************************************************************************)
(* The checks of semantic analysis that only warn (src/src/semantic.rs):   *)
(* match exhaustiveness and overlapping arms, unhandled errors, dead code, *)
(* definite assignment, returns of none.  A warning is a tuple of its kind *)
(* and the tree it is about.                                               *)
(***************************************************************************)
EXTENDS Scopes

(* What a traversal enters: neither patterns nor unsafe blocks nor, with   *)
(* guards not to be entered, the guard of an arm.                          *)
RECURSIVE Entered(_)
Entered(e) ==
    {e} \cup UNION {Entered(e.a[j]) : j \in
        IF e.k = "Unsafe" \/ e.k \in Patterns THEN {}
        ELSE IF e.k = "Arm" THEN {3}
        ELSE IF e.k = "FieldAssign" THEN {2} ELSE DOMAIN e.a}

-----------------------------------------------------------------------------
(* build_constructor_map: the type of each constructor and its variants.   *)
OwnerOf(c, types) == {t \in types : c \in CtorsOf(t)}

(* collect_pattern_ctors_for_exhaustiveness: constructors and catch-alls   *)
(* at the top of a pattern.                                                *)
RECURSIVE TopPatterns(_)
TopPatterns(pat) ==
    IF pat.k = "POr" THEN UNION {TopPatterns(pat.a[j]) : j \in DOMAIN pat.a} ELSE {pat}
CatchAll(pat) == pat.k \in {"PWildcard", "PIdentifier"}

(* The type a match is judged by is that of the constructor which comes    *)
(* first in a hash set, and a constructor of no type ends the check.  What *)
(* follows are the warnings given whichever comes first: a match without   *)
(* one is a match that may pass silently.                                  *)
(* check_nested_exhaustiveness: for each constructor and each field        *)
(* position by itself, the constructors that the arms have there, guarded  *)
(* arms included.                                                          *)
NestedMissing(arms, types) ==
    LET pats == {arms[j].a[1] : j \in {l \in DOMAIN arms : arms[l].a[1].k = "PConstructor"}}
        groups == {p.n : p \in pats}
        Of(c) == {p \in pats : p.n = c}
        Width(c) == CHOOSE w \in {Len(p.a) : p \in Of(c)} : \A p \in Of(c) : Len(p.a) <= w
        Subs(c, q) == {p.a[q].n : p \in {r \in Of(c) : q \in DOMAIN r.a /\ r.a[q].k = "PConstructor"}}
        Open(c, q) == \E p \in Of(c) : q \notin DOMAIN p.a \/ CatchAll(p.a[q])
    IN  {<<c, q>> \in UNION {{<<d, r>> : r \in 1 .. Width(d)} : d \in groups} :
            /\ ~ Open(c, q) /\ Subs(c, q) # {}
            /\ \A d \in Subs(c, q) : \E t \in OwnerOf(d, types) : ~ CtorsOf(t) \subseteq Subs(c, q)}

(* Mutant: an arm with a guard counts as covering.                         *)
GuardedCount(m, types) ==
    LET tops == UNION {TopPatterns(x.a[1]) : x \in Elems(Arms(m))}
        ctors == {p.n : p \in {q \in tops : q.k = "PConstructor"}}
    IN  /\ IsAbsent(Last1(m.a))
        /\ ~ \E p \in tops : CatchAll(p)
        /\ \E t \in UNION {OwnerOf(c, types) : c \in ctors} : ~ CtorsOf(t) \subseteq ctors
(* check_single_match_exhaustiveness: only matches on constructors of one  *)
(* type are judged, for certain when none is of no type; the arms with a   *)
(* guard do not count.                                                     *)
NonExhaustive(m, types) ==
    LET arms == Arms(m)
        tops == UNION {TopPatterns(arms[j].a[1]) : j \in {l \in DOMAIN arms : IsAbsent(arms[l].a[2])}}
        ctors == {p.n : p \in {q \in tops : q.k = "PConstructor"}}
        owners == UNION {OwnerOf(c, types) : c \in ctors}
    IN  /\ IsAbsent(Last1(m.a))
        /\ ~ \E p \in tops : CatchAll(p)
        /\ Cardinality(owners) = 1 /\ \A c \in ctors : OwnerOf(c, types) # {}
        /\ \/ \E t \in owners : ~ CtorsOf(t) \subseteq ctors
           \/ NestedMissing(arms, types) # {}

(* collect_pattern_keys and check_overlapping_patterns: a literal or a     *)
(* constructor without fields that an earlier arm names too; guards do not *)
(* matter.                                                                 *)
PatternKeys(pat) ==
    {p \in (IF pat.k = "POr" THEN Elems(pat.a) ELSE {pat}) :
        p.k \in {"PInteger", "PBool", "PString"} \/ (p.k = "PConstructor" /\ p.a = <<>>)}
Overlapping(m) ==
    {j \in DOMAIN Arms(m) :
        \E l \in 1 .. j - 1 : PatternKeys(Arms(m)[l].a[1]) \cap PatternKeys(Arms(m)[j].a[1]) # {}}

(* check_all_match_exhaustiveness over one function's body.                *)
MatchWarnings(body, types) ==
    LET ms == {m \in Entered(body) : m.k = "Match"}
    IN  {<<"exhaustive", m>> : m \in {n \in ms : NonExhaustive(n, types)}}
        \cup UNION {{<<"overlap", m, j>> : j \in Overlapping(m)} : m \in ms}

-----------------------------------------------------------------------------
(* check_unhandled_errors: an error value as a statement of its own, in    *)
(* any block reached without going through a guard, a matched value, a     *)
(* condition of a ternary or a thrown value.                               *)
RECURSIVE BlocksIn(_)
BlocksIn(e) ==
    LET into == CASE e.k \in Patterns \/ e.k = "Throw" -> {}
                  [] e.k = "Match" -> 2 .. Len(e.a)
                  [] e.k = "Ternary" -> {2, 3}
                  [] e.k = "Arm" -> {3}
                  [] e.k = "FieldAssign" -> {2}
                  [] e.k = "Lambda" -> {1}
                  [] OTHER -> DOMAIN e.a
    IN  (IF e.k = "Block" THEN {e} ELSE {}) \cup UNION {BlocksIn(e.a[j]) : j \in into}
UnhandledErrors(body) ==
    UNION {{<<"unhandled", s>> : s \in {t \in Elems(Stmts(b)) :
                t.k = "Expression" /\ t.a[1].k = "ErrorValue"}} : b \in BlocksIn(body)}

(* check_error_type_exhaustiveness.  Produced are the errors in the        *)
(* branches of a return; handled is what some arm names.                   *)
RECURSIVE ReturnedErrors(_)
ReturnedErrors(e) ==
    CASE e.k = "ErrorValue" -> {e.n}
      [] e.k = "Ternary" -> ReturnedErrors(e.a[2]) \cup ReturnedErrors(e.a[3])
      [] OTHER -> {}
(* The statements of a block and of the blocks its statements hold.        *)
RECURSIVE StatementsIn(_)
StatementsIn(b) ==
    UNION {{s} \cup UNION {StatementsIn(c) : c \in {d \in Elems(s.a) : d.k = "Block"}} : s \in Elems(Stmts(b))}
RECURSIVE Produced(_)
Produced(b) ==
    UNION {CASE s.k = "Return" -> ReturnedErrors(s.a[1])
             [] s.k \in {"Expression", "Binding"} /\ s.a[1].k = "Lambda" -> Produced(s.a[1].a[1])
             [] s.k \in {"Expression", "Binding"} /\ s.a[1].k = "Match" ->
                  UNION {Produced(x.a[3]) : x \in Elems(Arms(s.a[1]))}
                  \cup (IF IsAbsent(Last1(s.a[1].a)) THEN {} ELSE Produced(Last1(s.a[1].a)))
             [] OTHER -> {} : s \in StatementsIn(b)}
HandlerNames(m) ==
    {x.a[1].n : x \in {y \in Elems(Arms(m)) : y.a[1].k = "PIdentifier"
                                              \/ (y.a[1].k = "PConstructor" /\ y.a[1].n = "Err")}}
RECURSIVE Handled(_)
HandledBy(e) ==
    CASE e.k = "Match" ->
           HandlerNames(e) \cup UNION {Handled(x.a[3]) : x \in Elems(Arms(e))}
           \cup (IF IsAbsent(Last1(e.a)) THEN {} ELSE Handled(Last1(e.a)))
      [] e.k = "Lambda" -> Handled(e.a[1])
      [] OTHER -> {}
Handled(b) ==
    UNION {IF s.k \in {"Expression", "Binding", "Return", "If"}
           THEN UNION {HandledBy(c) : c \in Elems(s.a)} ELSE {} : s \in StatementsIn(b)}
UnhandledErrorTypes(f) ==
    LET inReturn == UNION {ReturnedErrors(s.a[1]) : s \in {t \in Elems(Stmts(f.a[1])) : t.k = "Return"}}
    IN  {<<"errortype", x>> : x \in Produced(f.a[1]) \ (Handled(f.a[1]) \cup inReturn)}

-----------------------------------------------------------------------------
(* check_dead_code: the first statement after a return, break or continue  *)
(* of its own block.                                                       *)
Terminators == {"Return", "Break", "Continue"}
DeadAfter(b) ==
    {<<"dead", b>> : j \in {l \in 1 .. Len(Stmts(b)) - 1 : Stmts(b)[l].k \in Terminators}}
RECURSIVE DeadCode(_)
DeadCode(b) ==
    LET ends == {j \in DOMAIN Stmts(b) : Stmts(b)[j].k \in Terminators}
        last == IF ends = {} THEN Len(Stmts(b)) ELSE CHOOSE j \in ends : \A l \in ends : j <= l
        Inner(s) == CASE s.k \in {"If", "While", "For", "ForKV", "ForRange"} ->
                           {c \in Elems(s.a) : c.k = "Block"}
                      [] s.k \in {"Expression", "Binding"} /\ s.a[1].k = "Match" ->
                           {x.a[3] : x \in Elems(Arms(s.a[1]))}
                      [] s.k \in {"Expression", "Binding"} /\ s.a[1].k = "Lambda" -> {s.a[1].a[1]}
                      [] OTHER -> {}
    IN  DeadAfter(b) \cup UNION {UNION {DeadCode(c) : c \in Inner(Stmts(b)[j])} : j \in 1 .. last}

(* check_definite_assignment: da_check_expression_uses looks at operators, *)
(* calls, ternaries, members and literals only; names that begin with a    *)
(* capital letter (caps) are not variables.                                *)
RECURSIVE UsesUnassigned(_, _, _)
UsesUnassigned(e, assigned, caps) ==
    CASE e.k = "Identifier" ->
           IF e.n \in assigned \cup BuiltinNames \cup caps THEN {} ELSE {<<"unassigned", e.n>>}
      [] e.k \in {"Binary", "Unary", "Call", "Ternary", "Member", "List", "Map"} ->
           UNION {UsesUnassigned(e.a[j], assigned, caps) : j \in DOMAIN e.a}
      [] OTHER -> {}

(* da_check_statement: [assigned, warnings] after a block.  An If assigns  *)
(* what all its branches assign, if it has an else; a loop assigns nothing *)
(* for what follows it, and neither does a pattern.                        *)
RECURSIVE Assign(_, _, _)
AssignStmt(s, st, caps) ==
    LET uses == UNION {UsesUnassigned(s.a[j], st.assigned, caps) : j \in DOMAIN s.a}
        blocks == {j \in DOMAIN s.a : s.a[j].k = "Block"}
        inner == [j \in blocks |->
                    Assign(s.a[j], [st EXCEPT !.assigned = @ \cup Elems(s.p)], caps)]
        warned == [st EXCEPT !.warnings = @ \cup uses \cup UNION {inner[j].warnings : j \in blocks}]
        after == {x \in inner[2].assigned : \A j \in blocks : x \in inner[j].assigned}
    IN  CASE s.k = "Binding" -> [warned EXCEPT !.assigned = @ \cup {s.n}]
          [] s.k = "If" -> IF IsAbsent(Last1(s.a)) THEN warned ELSE [warned EXCEPT !.assigned = after]
          [] OTHER -> warned
Assign(b, st, caps) ==
    LET F[j \in 0 .. Len(b.a)] ==
            IF j = 0 THEN st
            ELSE IF j = Len(b.a)
                 THEN [F[j - 1] EXCEPT !.warnings = @ \cup UsesUnassigned(b.a[j], F[j - 1].assigned, caps)]
                 ELSE AssignStmt(b.a[j], F[j - 1], caps)
    IN  F[Len(b.a)]
DefiniteAssignment(f, caps) ==
    Assign(f.a[1], [assigned |-> Elems(f.p), warnings |-> {}], caps).warnings

(* check_nullability_returns: none on one path and a value on another; a   *)
(* loop over keys is not searched.                                         *)
RECURSIVE ReturnsIn(_)
ReturnsIn(b) ==
    UNION {CASE s.k = "Return" -> {s.a[1]}
             [] s.k \in {"If", "While", "For", "ForRange"} ->
                  UNION {ReturnsIn(c) : c \in {d \in Elems(s.a) : d.k = "Block"}}
             [] OTHER -> {} : s \in Elems(Stmts(b))}
NullabilityWarnings(f) ==
    LET results == ReturnsIn(f.a[1]) \cup (IF IsAbsent(ValueOf(f.a[1])) THEN {} ELSE {ValueOf(f.a[1])})
    IN  IF f.n # "main" /\ (\E e \in results : e.k = "None") /\ (\E e \in results : e.k # "None")
        THEN {<<"nullable", f.n>>} ELSE {}

(* The warnings of one function.                                           *)
Warnings(f, m) ==
    LET types == Elems(m.types)
        caps == UNION {{t.n} \cup CtorsOf(t) : t \in types} \cup {s.n : s \in Elems(m.stores)}
    IN  MatchWarnings(f.a[1], types) \cup UnhandledErrors(f.a[1]) \cup UnhandledErrorTypes(f)
        \cup DeadCode(f.a[1]) \cup DefiniteAssignment(f, caps) \cup NullabilityWarnings(f)
=============================================================================
