---------------------------- MODULE CoralValues ----------------------------
(***************************************************************************)
(* Runtime values and the operations emitted code calls on them            *)
(* (runtime/src/nanbox.rs, nanbox_ffi.rs, arithmetic.rs, tagged.rs).       *)
(*                                                                         *)
(* A value is one record: t its tag, i its number, n its text, tag name or *)
(* error name, s its elements, fields or captured values.  Numbers are     *)
(* small integers, which f64 and i64 hold alike.  Undef is a stack slot    *)
(* nothing was stored into.                                                *)
(***************************************************************************)
EXTENDS Integers, Sequences, TLC

Val(t, i, n, s) == [t |-> t, i |-> i, n |-> n, s |-> s]
Num(v) == Val("number", v, "", <<>>)
BoolV(b) == Val("bool", IF b THEN 1 ELSE 0, "", <<>>)
Text(t) == Val("string", 0, t, <<>>)
UnitV == Val("unit", 0, "", <<>>)
NoneV == Val("none", 0, "", <<>>)
ErrV(e) == Val("error", 0, e, <<>>)
ListV(s) == Val("list", 0, "", s)
TaggedV(c, fields) == Val("tagged", 0, c, fields)
(* A closure: its code, numbered, and the captured values.                 *)
ClosureV(id, captured) == Val("closure", id, "", captured)
Undef == Val("undef", 0, "", <<>>)

IsNum(v) == v.t = "number"
IsErr(v) == v.t = "error"
Immediate(v) == v.t \in {"number", "bool", "unit", "none"}

(* NanBoxedValue::is_truthy.  An error value is a heap pointer to a value  *)
(* with FLAG_ERR, hence truthy.                                            *)
Truthy(v) ==
    /\ v # BoolV(FALSE)
    /\ v.t \notin {"none", "unit"}
    /\ IsNum(v) => v.i # 0

(* value_to_display_string, for the values a program here puts beside a    *)
(* string.                                                                 *)
Display(v) ==
    CASE IsNum(v) -> ToString(v.i)
      [] v.t = "string" -> v.n
      [] v.t = "bool" -> IF v.i = 1 THEN "true" ELSE "false"
      [] OTHER -> v.t

(* coral_nb_add, falling back on coral_value_add.                          *)
AddV(v, w) ==
    CASE IsNum(v) /\ IsNum(w) -> Num(v.i + w.i)
      [] IsErr(v) -> v
      [] ~IsErr(v) /\ IsErr(w) -> w
      [] ~IsErr(v) /\ ~IsErr(w) /\ "none" \in {v.t, w.t} -> NoneV
      [] ~IsErr(v) /\ ~IsErr(w) /\ "none" \notin {v.t, w.t} /\ "string" \in {v.t, w.t} ->
           Text(Display(v) \o Display(w))
      [] OTHER -> UnitV

(* emit_numeric_binary_general: Sub and Mul read both operands as floats   *)
(* without a test.  A boxed value that is no number is a NaN, which        *)
(* arithmetic hands on, so the result is that operand itself.              *)
Arith(v, w, r) == IF IsNum(v) /\ IsNum(w) THEN Num(r) ELSE IF IsNum(v) THEN w ELSE v
Compare(v, w, b) == BoolV(IsNum(v) /\ IsNum(w) /\ b)

(* values_equal_handles: structural for lists, by identity for tagged      *)
(* values and closures (two separately built ones differ; the model builds *)
(* a fresh one at every use).                                              *)
RECURSIVE SameValue(_, _)
SameValue(v, w) ==
    /\ v.t = w.t
    /\ CASE v.t = "number" \/ v.t = "bool" -> v.i = w.i
         [] v.t = "string" -> v = w
         [] v.t = "list" -> /\ Len(v.s) = Len(w.s)
                            /\ \A j \in DOMAIN v.s : SameValue(v.s[j], w.s[j])
         [] v.t \in {"unit", "none"} -> TRUE
         [] OTHER -> FALSE

(* coral_nb_equals: immediates are compared in place, an error operand is  *)
(* the result of anything else.                                            *)
EqualV(v, w) ==
    CASE Immediate(v) /\ Immediate(w) -> BoolV(v = w)
      [] ~(Immediate(v) /\ Immediate(w)) /\ IsErr(v) -> v
      [] ~(Immediate(v) /\ Immediate(w)) /\ ~IsErr(v) /\ IsErr(w) -> w
      [] OTHER -> BoolV(SameValue(v, w))

NotV(v) == BoolV(~ Truthy(v))
NegV(v) == IF IsNum(v) THEN Num(0 - v.i) ELSE UnitV

(* The binary operators of emitted code, And and Or excepted.              *)
BinV(op, v, w) ==
    CASE op = "Add" -> AddV(v, w)
      [] op = "Sub" -> Arith(v, w, v.i - w.i)
      [] op = "Mul" -> Arith(v, w, v.i * w.i)
      [] op = "Equals" -> EqualV(v, w)
      [] op = "NotEquals" -> LET e == EqualV(v, w) IN IF IsErr(e) THEN e ELSE NotV(e)
      [] op = "Less" -> Compare(v, w, v.i < w.i)
      [] op = "LessEq" -> Compare(v, w, v.i <= w.i)
      [] op = "Greater" -> Compare(v, w, v.i > w.i)
      [] op = "GreaterEq" -> Compare(v, w, v.i >= w.i)
(* emit_numeric_binary on operands taken for numbers: bare float           *)
(* instructions, ordered comparisons.                                      *)
FastV(op, v, w) ==
    CASE op = "Add" -> Arith(v, w, v.i + w.i)
      [] op = "Equals" -> Compare(v, w, v.i = w.i)
      [] op = "NotEquals" -> Compare(v, w, v.i # w.i)
      [] OTHER -> BinV(op, v, w)
UnV(op, v) == IF op = "Not" THEN NotV(v) ELSE NegV(v)

(* coral_list_get and coral_tagged_get_field: an index out of range yields *)
(* unit; indexes count from 0.                                             *)
Nth(v, ix) == IF v.t = "list" /\ ix \in 0 .. Len(v.s) - 1 THEN v.s[ix + 1] ELSE UnitV
FieldOf(v, ix) == IF v.t = "tagged" /\ ix < Len(v.s) THEN v.s[ix + 1] ELSE UnitV
SliceFrom(v, ix) == ListV(SubSeq(v.s, ix + 1, Len(v.s)))
=============================================================================
