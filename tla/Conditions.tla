------------------------------ MODULE Conditions ------------------------------
(***************************************************************************)
(* The condition language of ffai.core.condition_evaluator, as operators   *)
(* on syntax trees, next to what Python makes of the same expression. A    *)
(* value carries its kind; a string is a sequence of letters.              *)
(***************************************************************************)
EXTENDS Integers, Sequences, SequencesExt

Bool(b) == [kind |-> "bool", val |-> b]
Num(n) == [kind |-> "num", val |-> n]
Str(s) == [kind |-> "str", val |-> s]
List(vs) == [kind |-> "list", val |-> vs]
None == [kind |-> "none", val |-> 0]
Error == [kind |-> "error", val |-> 0]

Truthy(v) ==
    \/ v.kind = "bool" /\ v.val
    \/ v.kind = "num" /\ v.val # 0
    \/ v.kind \in {"str", "list"} /\ v.val # <<>>

AsNumber(v) == IF v.kind = "bool" THEN (IF v.val THEN 1 ELSE 0) ELSE v.val

Numeric(v) == v.kind \in {"bool", "num"}

RECURSIVE Same(_, _)
Same(v, w) ==
    \/ Numeric(v) /\ Numeric(w) /\ AsNumber(v) = AsNumber(w)
    \/ /\ v.kind = w.kind /\ v.kind \in {"str", "none"} /\ v.val = w.val
    \/ /\ v.kind = "list" /\ w.kind = "list" /\ Len(v.val) = Len(w.val)
       /\ \A i \in DOMAIN v.val : Same(v.val[i], w.val[i])

Failed(vs) == \E i \in DOMAIN vs : vs[i].kind = "error"

-----------------------------------------------------------------------------
(* {{name.property}}: what _resolve_variables writes into the text and the
   parser reads back. A result is a record in which a field may be None. *)

ComputeProperty(result, prop) ==
    LET value == result[prop] IN
    CASE prop = "has_response" /\ value.kind # "bool" ->
            Bool(result.response.kind # "none" /\ result.response.val # <<>>)
      [] prop = "status" /\ ~Truthy(value) -> Str(<<"pending">>)
      [] prop \in {"response", "error"} /\ value.kind = "none" -> Str(<<>>)
      [] prop = "attempts" /\ value.kind = "none" -> Num(0)
      [] OTHER -> value

(* _value_to_literal: None is written as the empty string. A string is written
   as it is, JSON or not: _value_to_display, which parses it, serves the trace
   only. *)
Literal(v) == IF v.kind = "none" THEN Str(<<>>) ELSE v

-----------------------------------------------------------------------------
(* What does not depend on the order of evaluation *)

In(v, w) ==
    CASE w.kind = "str" /\ v.kind = "str" ->
            Bool(\E k \in 0..(Len(w.val) - Len(v.val)) : SubSeq(w.val, k + 1, k + Len(v.val)) = v.val)
      [] w.kind = "list" -> Bool(\E i \in DOMAIN w.val : Same(v, w.val[i]))
      [] OTHER -> Error

Less(v, w) == IF Numeric(v) /\ Numeric(w) THEN Bool(AsNumber(v) < AsNumber(w)) ELSE Error

Negated(v) == IF v.kind = "error" THEN Error ELSE Bool(~Truthy(v))

(* One comparison. *)
Compared(op, v, w) ==
    CASE op = "==" -> Bool(Same(v, w))
      [] op = "!=" -> Bool(~Same(v, w))
      [] op = "<" -> Less(v, w)
      [] op = ">" -> Less(w, v)
      [] op = "in" -> In(v, w)
      [] op = "not in" -> Negated(In(v, w))
      [] OTHER -> Error

(* _eval_binop: % is how "matches" is written, a search for a pattern; a
   pattern of letters is found where it stands. *)
Combined(op, v, w) ==
    CASE op = "%" /\ v.kind = "str" /\ w.kind = "str" -> In(w, v)
      [] op = "+" /\ Numeric(v) /\ Numeric(w) -> Num(AsNumber(v) + AsNumber(w))
      [] op = "+" /\ v.kind = w.kind /\ v.kind \in {"str", "list"} -> [v EXCEPT !.val = @ \o w.val]
      [] op = "-" /\ Numeric(v) /\ Numeric(w) -> Num(AsNumber(v) - AsNumber(w))
      [] OTHER -> Error

(* ALLOWED_FUNCTIONS, of one argument. *)
Applied(fn, v) ==
    CASE v.kind = "error" -> Error
      [] fn = "len" /\ v.kind \in {"str", "list"} -> Num(Len(v.val))
      [] fn = "int" /\ Numeric(v) -> Num(AsNumber(v))
      [] fn = "int" /\ v.kind = "none" -> Num(0)
      [] fn = "bool" -> Bool(Truthy(v))
      [] fn = "is_null" -> Bool(v.kind = "none")
      [] fn = "is_empty" -> Bool(v.kind = "none" \/ (v.kind \in {"str", "list"} /\ v.val = <<>>))
      [] OTHER -> Error

(* _eval_subscript, by a constant. *)
Item(v, key) ==
    IF v.kind \in {"str", "list"} /\ key \in 0..(Len(v.val) - 1)
      THEN IF v.kind = "str" THEN Str(<< v.val[key + 1] >>) ELSE v.val[key + 1]
    ELSE Error

-----------------------------------------------------------------------------
(* ConditionEvaluator *)

(* _eval_compare: the result of a comparison is the left side of the next. *)
EvalCompare(ops, vs) ==
    LET step(left, i) ==
            IF left.kind = "error" \/ vs[i + 1].kind = "error" THEN Error
            ELSE Compared(ops[i], left, vs[i + 1])
        last == FoldLeft(step, vs[1], [i \in DOMAIN ops |-> i])
    IN IF last.kind = "error" THEN Error ELSE Bool(Truthy(last))

(* Mutant: one true operand is enough for "and". *)
EvalBoolOpAny(op, vs) ==
    IF Failed(vs) THEN Error ELSE Bool(\E i \in DOMAIN vs : Truthy(vs[i]))

(* _eval_boolop: all operands, then all() or any() of them. *)
EvalBoolOp(op, vs) ==
    IF Failed(vs) THEN Error
    ELSE IF op = "and" THEN Bool(\A i \in DOMAIN vs : Truthy(vs[i]))
    ELSE Bool(\E i \in DOMAIN vs : Truthy(vs[i]))

(* Names the parser leaves as identifiers: the spellings of JSON are values.
   (Python's own, True, False and None, are constants to the parser.) *)
Identifier(id) ==
    CASE id = "true" -> Bool(TRUE)
      [] id = "false" -> Bool(FALSE)
      [] OTHER -> Error

RECURSIVE EvalNode(_, _)
EvalNode(e, results) ==
    LET of(x) == EvalNode(x, results)
        all(xs) == [i \in DOMAIN xs |-> of(xs[i])] IN
    CASE e.node = "Constant" -> e.value
      [] e.node = "Name" -> Identifier(e.id)
      [] e.node = "Variable" -> Literal(ComputeProperty(results[e.name], e.prop))
      [] e.node = "Compare" -> EvalCompare(e.ops, all(e.parts))
      [] e.node = "BoolOp" -> EvalBoolOp(e.op, all(e.parts))
      [] e.node = "Not" -> Negated(of(e.parts[1]))
      [] e.node = "USub" -> Error
      [] e.node = "BinOp" -> IF Failed(all(e.parts)) THEN Error
                             ELSE Combined(e.op, of(e.parts[1]), of(e.parts[2]))
      [] e.node = "Call" -> Applied(e.op, of(e.parts[1]))
      [] e.node = "Subscript" -> Item(of(e.parts[1]), e.key)
      [] e.node = "List" -> IF Failed(all(e.parts)) THEN Error ELSE List(all(e.parts))
      [] e.node = "IfExp" -> IF of(e.parts[2]).kind = "error" THEN Error
                             ELSE of(e.parts[IF Truthy(of(e.parts[2])) THEN 1 ELSE 3])

RECURSIVE Unresolved(_, _)
Unresolved(e, results) ==
    \/ e.node = "Variable" /\ e.name \notin DOMAIN results
    \/ \E i \in DOMAIN e.parts : Unresolved(e.parts[i], results)

(* evaluate: variables are replaced in the text before it is parsed, so that
   one unknown name anywhere is an error; an error counts as false. *)
Evaluate(e, results) ==
    LET value == IF Unresolved(e, results) THEN Error ELSE EvalNode(e, results) IN
    [holds |-> Truthy(value), error |-> value.kind = "error"]

-----------------------------------------------------------------------------
(* Python *)

RECURSIVE PyCompare(_, _)
PyCompare(ops, vs) ==
    LET first == IF vs[1].kind = "error" \/ vs[2].kind = "error" THEN Error
                 ELSE Compared(ops[1], vs[1], vs[2]) IN
    IF Len(ops) = 1 \/ ~Truthy(first) THEN first ELSE PyCompare(Tail(ops), Tail(vs))

RECURSIVE PyBoolOp(_, _)
PyBoolOp(op, vs) ==
    IF Len(vs) = 1 \/ vs[1].kind = "error" \/ Truthy(vs[1]) = (op = "or") THEN vs[1]
    ELSE PyBoolOp(op, Tail(vs))

RECURSIVE Python(_, _)
Python(e, results) ==
    LET of(x) == Python(x, results)
        all(xs) == [i \in DOMAIN xs |-> of(xs[i])] IN
    CASE e.node = "Constant" -> e.value
      [] e.node = "Name" -> Error
      [] e.node = "Variable" -> IF e.name \in DOMAIN results
                                  THEN Literal(ComputeProperty(results[e.name], e.prop)) ELSE Error
      [] e.node = "Compare" -> PyCompare(e.ops, all(e.parts))
      [] e.node = "BoolOp" -> PyBoolOp(e.op, all(e.parts))
      [] e.node = "Not" -> Negated(of(e.parts[1]))
      [] e.node = "USub" -> IF Numeric(of(e.parts[1])) THEN Num(-AsNumber(of(e.parts[1]))) ELSE Error
      [] e.node = "BinOp" -> IF Failed(all(e.parts)) THEN Error
                             ELSE Combined(e.op, of(e.parts[1]), of(e.parts[2]))
      [] e.node = "Call" -> Applied(e.op, of(e.parts[1]))
      [] e.node = "Subscript" -> Item(of(e.parts[1]), e.key)
      [] e.node = "List" -> IF Failed(all(e.parts)) THEN Error ELSE List(all(e.parts))
      [] e.node = "IfExp" -> IF of(e.parts[2]).kind = "error" THEN Error
                             ELSE of(e.parts[IF Truthy(of(e.parts[2])) THEN 1 ELSE 3])

-----------------------------------------------------------------------------
(* The two spellings Python has no name for: the code takes them for True and
   False where Python raises NameError. The comparison is with the text in
   which they are written as Python writes them. *)
PythonSpelling(id) ==
    CASE id = "true" -> [node |-> "Constant", value |-> Bool(TRUE), parts |-> <<>>]
      [] id = "false" -> [node |-> "Constant", value |-> Bool(FALSE), parts |-> <<>>]
      [] OTHER -> [node |-> "Name", id |-> id, parts |-> <<>>]

RECURSIVE Spelled(_)
Spelled(e) ==
    IF e.node = "Name" THEN PythonSpelling(e.id)
    ELSE [e EXCEPT !.parts = [i \in DOMAIN e.parts |-> Spelled(e.parts[i])]]

(* Where the two languages differ in the answer: a chained comparison, and
   the operand that "and" and "or" stand for outside a truth value. *)
RECURSIVE Plain(_, _)
Plain(e, truth) ==
    /\ e.node = "Compare" => Len(e.ops) = 1
    /\ e.node = "BoolOp" => truth
    /\ \A i \in DOMAIN e.parts :
          Plain(e.parts[i], \/ e.node = "Not"
                            \/ e.node = "IfExp" /\ i = 2
                            \/ e.node = "Call" /\ e.op = "bool"
                            \/ e.node \in {"BoolOp", "IfExp"} /\ truth)

(* A condition that is decided without an error is decided as Python decides
   the same text with true and false capitalised: evaluating every operand,
   resolving every name and refusing signs can make a condition fail, never
   make it come out the other way.
   Chains such as 3 > 2 > 1, and values taken from "or", are left out: there
   the answer itself differs (core/condition_evaluator.py:299-335, 513-683). *)
ConditionsLikePython(e, results) ==
    LET code == Evaluate(e, results)
        python == Python(Spelled(e), results)
    IN (Plain(e, TRUE) /\ ~code.error) => (python.kind # "error" /\ code.holds = Truthy(python))
=============================================================================
