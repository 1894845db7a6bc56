-------------------------- MODULE MCGraphExecutor --------------------------
(***************************************************************************)
(* Instances of GraphExecutor: every three-prompt list with any histories  *)
(* on earlier prompts, at most one condition and at most one abort         *)
(* condition, each on any name (its own, and "x", which no prompt carries, *)
(* included).                                                              *)
(***************************************************************************)
EXTENDS GraphExecutor

MCName == {"a", "b", "c", "x"}

None == [on |-> "x", test |-> "none"]

Tests == [on : MCName, test : {"succeeded", "has_response", "not_empty"}]

(* Prompt n is called names[n]; h[n] is its history. *)
Lists(names, Conditions, Aborts) ==
    {[n \in Node |-> [name |-> names[n], history |-> h[n],
                      condition |-> IF n = i THEN c ELSE None,
                      abort_condition |-> IF n = j THEN a ELSE None]] :
        h \in {f \in [Node -> SUBSET {names[n] : n \in Node}] :
                  \A n \in Node : f[n] \subseteq {names[m] : m \in 0..(n - 1)}},
        i \in Node, c \in Conditions, j \in Node, a \in Aborts}

abc == [n \in 0..2 |-> <<"a", "b", "c">>[n + 1]]

Succeeds(nm) == [on |-> nm, test |-> "succeeded"]

MCWorkflows == Lists(abc, Tests \cup {None}, {None, Succeeds("a"), Succeeds("c")})
=============================================================================
