---------------------------- MODULE RagIndexProofs ----------------------------
(***************************************************************************)
(* RagIndex, proved for every set of sources, texts, chunkers and calls    *)
(* and any number of events: the counters of the sparse index are exact,   *)
(* the store holds whole versions, a call that skips does so for the       *)
(* version that is there, and a search reads two indexes that agree. First *)
(* what the operations of the two indexes return, those that fold over a   *)
(* set or a sequence included.                                             *)
(***************************************************************************)
EXTENDS RagIndex, Integers, Folds, FiniteSetTheorems, TLAPS

-----------------------------------------------------------------------------
(* Folds over finite sets. *)

(* Induction over the subsets of a finite set: if a set of subsets has the
   empty one, and each other as soon as it has it less one of its elements, it
   has them all. *)
LEMMA SubsetInduction ==
    ASSUME NEW S, IsFiniteSet(S), NEW P \in SUBSET SUBSET S, {} \in P,
           \A T \in SUBSET S : T # {} => \E x \in T : T \ {x} \in P => T \in P
    PROVE  \A T \in SUBSET S : T \in P
<1> DEFINE Bad == (SUBSET S) \ P
<1>1. SUFFICES ASSUME Bad # {} PROVE FALSE
  OBVIOUS
<1>2. IsWellFoundedOn(StrictSubsetOrdering(S), SUBSET S)
  BY FS_StrictSubsetOrderingWellFounded, FS_FiniteSubsetsOfFinite
<1>3. PICK T \in Bad : \A U \in Bad : <<U, T>> \notin StrictSubsetOrdering(S)
  <2> HIDE DEF Bad
  <2>1. Bad \subseteq SUBSET S
    BY DEF Bad
  <2>2. QED
    BY <1>1, <1>2, <2>1, WFMin
<1>4. T # {} /\ T \in SUBSET S
  BY <1>3
<1>5. PICK x \in T : T \ {x} \in P => T \in P
  BY <1>4
<1>6. T \ {x} \in SUBSET S /\ T \ {x} # T
  BY <1>4, <1>5
<1>7. <<T \ {x}, T>> \in StrictSubsetOrdering(S)
  BY <1>4, <1>6 DEF StrictSubsetOrdering
<1>8. T \ {x} \notin Bad
  BY <1>3, <1>7
<1>9. QED
  BY <1>3, <1>5, <1>6, <1>8

(* A finite set of naturals has a largest element. *)
LEMMA MaxIs ==
    ASSUME NEW S \in SUBSET Nat, IsFiniteSet(S), S # {}
    PROVE  Max(S) \in S /\ \A y \in S : Max(S) >= y
<1> DEFINE P == {T \in SUBSET S : T # {} => \E x \in T : \A y \in T : x >= y}
<1>1. ASSUME NEW T \in SUBSET S, T # {}
      PROVE  \E x \in T : T \ {x} \in P => T \in P
  <2>1. PICK x : x \in T
    BY <1>1
  <2>2. ASSUME T \ {x} \in P, T \ {x} # {}
        PROVE  \E z \in T : \A y \in T : z >= y
    <3>1. PICK m \in T \ {x} : \A y \in T \ {x} : m >= y
      BY <2>2
    <3>2. m \in Nat /\ x \in Nat /\ T \subseteq Nat
      BY <2>1, <3>1
    <3>3. CASE m >= x
      BY <2>1, <3>1, <3>2, <3>3
    <3>4. CASE x >= m
      <4>1. \A y \in T : x >= y
        BY <2>1, <3>1, <3>2, <3>4
      <4>2. QED
        BY <2>1, <4>1
    <3>5. QED
      BY <3>2, <3>3, <3>4
  <2>3. ASSUME T \ {x} = {}
        PROVE  \A y \in T : x >= y
    BY <2>1, <2>3
  <2>4. QED
    BY <2>1, <2>2, <2>3
<1>2. {} \in P /\ P \in SUBSET SUBSET S
  OBVIOUS
<1> HIDE DEF P
<1>3. S \in P
  BY <1>1, <1>2, SubsetInduction
<1>4. \E x \in S : \A y \in S : x >= y
  BY <1>3 DEF P
<1>5. QED
  BY <1>4 DEF Max

(* The recursion a fold is made of: pick[T] is the element of T taken last, and
   step[<<x, v>>] the value after x. It has a solution. *)
Solutions(S, A, base, pick, step) ==
    {g \in [SUBSET S -> A] :
        \A T \in SUBSET S : g[T] = IF T = {} THEN base ELSE step[<<pick[T], g[T \ {pick[T]}]>>]}

LEMMA FoldExists ==
    ASSUME NEW S, IsFiniteSet(S), NEW A, NEW base \in A,
           NEW pick, \A T \in SUBSET S : T # {} => pick[T] \in T,
           NEW step \in [S \X A -> A]
    PROVE  Solutions(S, A, base, pick, step) # {}
<1> DEFINE Solves(g, n) ==
               \A T \in SUBSET S : Cardinality(T) <= n =>
                  g[T] = IF T = {} THEN base ELSE step[<<pick[T], g[T \ {pick[T]}]>>]
           Solved(n) == \E g \in [SUBSET S -> A] : Solves(g, n)
<1>1. \A T \in SUBSET S : IsFiniteSet(T) /\ Cardinality(T) \in Nat
  BY FS_Subset, FS_CardinalityType
<1>2. Solved(0)
  <2> DEFINE g == [T \in SUBSET S |-> base]
  <2>1. g \in [SUBSET S -> A]
    OBVIOUS
  <2>2. \A T \in SUBSET S : Cardinality(T) <= 0 => T = {}
    BY <1>1, FS_EmptySet
  <2>3. Solves(g, 0)
    BY <2>2
  <2>4. QED
    BY <2>1, <2>3
<1>3. ASSUME NEW n \in Nat, Solved(n) PROVE Solved(n + 1)
  <2>1. PICK g \in [SUBSET S -> A] : Solves(g, n)
    BY <1>3
  <2> DEFINE h == [T \in SUBSET S |->
                     IF T = {} THEN base ELSE step[<<pick[T], g[T \ {pick[T]}]>>]]
  <2>2. h \in [SUBSET S -> A]
    OBVIOUS
  <2>3. ASSUME NEW T \in SUBSET S, T # {}, Cardinality(T) <= n + 1
        PROVE  h[T] = step[<<pick[T], h[T \ {pick[T]}]>>]
    <3> DEFINE U == T \ {pick[T]}
    <3>1. pick[T] \in T /\ U \in SUBSET S
      BY <2>3
    <3>2. Cardinality(U) = Cardinality(T) - 1
      BY <1>1, <3>1, FS_RemoveElement
    <3>3. Cardinality(U) <= n
      BY <1>1, <2>3, <3>2
    <3>4. g[U] = h[U]
      BY <2>1, <3>1, <3>3
    <3>5. h[T] = step[<<pick[T], g[U]>>]
      BY <2>3
    <3>6. QED
      BY <3>4, <3>5
  <2>4. Solves(h, n + 1)
    BY <2>3
  <2>5. QED
    BY <2>2, <2>4
<1> HIDE DEF Solved
<1> DEFINE P == {T \in SUBSET S : Solved(Cardinality(T))}
<1>4. Solved(Cardinality(S))
  <2>1. {} \in P /\ P \in SUBSET SUBSET S
    BY <1>2, FS_EmptySet
  <2>2. ASSUME NEW T \in SUBSET S, T # {}
        PROVE  \E x \in T : T \ {x} \in P => T \in P
    <3>1. PICK x : x \in T
      BY <2>2
    <3>2. Cardinality(T) = Cardinality(T \ {x}) + 1 /\ Cardinality(T \ {x}) \in Nat
      BY <1>1, <3>1, FS_RemoveElement
    <3>3. QED
      BY <1>3, <3>1, <3>2
  <2> HIDE DEF P
  <2>3. S \in P
    BY <2>1, <2>2, SubsetInduction
  <2>4. QED
    BY <2>3 DEF P
<1>5. QED
  <2>1. PICK g \in [SUBSET S -> A] : Solves(g, Cardinality(S))
    BY <1>1, <1>4 DEF Solved
  <2>2. \A T \in SUBSET S : Cardinality(T) <= Cardinality(S)
    BY FS_Subset
  <2>3. g \in Solutions(S, A, base, pick, step)
    BY <2>1, <2>2 DEF Solutions
  <2>4. QED
    BY <2>3

-----------------------------------------------------------------------------
(* BM25: the index is determined by its documents. *)

With(documents, id, document) ==
    [i \in DOMAIN documents \union {id} |-> IF i = id THEN document ELSE documents[i]]

Containing(documents, t) == {id \in DOMAIN documents : t \in Terms(documents[id].content)}

TermsOf(documents) == UNION {Terms(d.content) : d \in Range(documents)}

Exact(documents) ==
    [documents |-> documents,
     frequencies |-> [t \in TermsOf(documents) |-> Cardinality(Containing(documents, t))],
     total |-> Cardinality(DOMAIN documents),
     average |-> Averaged(documents, Cardinality(DOMAIN documents))]

LEMMA TermHeld ==
    ASSUME NEW d, NEW t
    PROVE  t \in TermsOf(d) <=> Containing(d, t) # {}
  BY DEF TermsOf, Containing, Range

LEMMA ExactCounters ==
    ASSUME NEW d
    PROVE  CountersExact(Exact(d))
<1>1. \A t : {id \in DOMAIN d : t \in Terms(d[id].content)} = Containing(d, t)
  BY DEF Containing
<1>2. {id \in DOMAIN d : TRUE} = DOMAIN d
  OBVIOUS
<1>3. QED
  BY <1>1, <1>2 DEF CountersExact, Exact, Held, Quantify, TermsOf


Less(documents, ids) == Restrict(documents, DOMAIN documents \ ids)

LEMMA WithContains ==
    ASSUME NEW d, NEW id, id \notin DOMAIN d, NEW v, NEW t
    PROVE  /\ t \in Terms(v.content) => Containing(With(d, id, v), t) = Containing(d, t) \union {id}
           /\ t \notin Terms(v.content) => Containing(With(d, id, v), t) = Containing(d, t)
  BY DEF Containing, With

LEMMA LessContains ==
    ASSUME NEW d, NEW ids, NEW t
    PROVE  Containing(Less(d, ids), t) = Containing(d, t) \ ids
  BY DEF Containing, Less, Restrict

LEMMA NewCounted ==
    ASSUME NEW d, IsFiniteSet(DOMAIN d), NEW id, id \notin DOMAIN d, NEW v
    PROVE  Counted(Exact(d).frequencies, Terms(v.content)) = Exact(With(d, id, v)).frequencies
<1> DEFINE new == With(d, id, v)
           terms == Terms(v.content)
           old == Exact(d).frequencies
<1>1. TermsOf(new) = TermsOf(d) \union terms
  <2>1. \A t : t \in TermsOf(new) <=> t \in TermsOf(d) \/ t \in terms
    BY TermHeld, WithContains
  <2>2. QED
    BY <2>1
<1>2. DOMAIN old = TermsOf(d) /\ \A t \in TermsOf(d) : old[t] = Cardinality(Containing(d, t))
  BY DEF Exact
<1>3. \A t : /\ IsFiniteSet(Containing(d, t)) /\ id \notin Containing(d, t)
  <2>1. \A t : Containing(d, t) \subseteq DOMAIN d
    BY DEF Containing
  <2>2. QED
    BY <2>1, FS_Subset
<1>4. \A t : Cardinality(Containing(new, t))
               = Cardinality(Containing(d, t)) + (IF t \in terms THEN 1 ELSE 0)
  <2> SUFFICES ASSUME NEW t
               PROVE  Cardinality(Containing(new, t))
                        = Cardinality(Containing(d, t)) + (IF t \in terms THEN 1 ELSE 0)
    OBVIOUS
  <2>1. Cardinality(Containing(d, t)) \in Nat
    BY <1>3, FS_CardinalityType
  <2>2. CASE t \in terms
    <3>1. Containing(new, t) = Containing(d, t) \union {id}
      BY <2>2, WithContains
    <3>2. QED
      BY <1>3, <2>1, <2>2, <3>1, FS_AddElement
  <2>3. CASE t \notin terms
    <3>1. Containing(new, t) = Containing(d, t)
      BY <2>3, WithContains
    <3>2. QED
      BY <2>1, <2>3, <3>1
  <2>4. QED
    BY <2>2, <2>3
<1>5. \A t : t \notin TermsOf(d) => Cardinality(Containing(d, t)) = 0
  BY TermHeld, FS_EmptySet
<1>6. Exact(new).frequencies = [t \in TermsOf(new) |-> Cardinality(Containing(new, t))]
  BY DEF Exact
<1> HIDE DEF new, terms, old
<1>7. Counted(old, terms) = [t \in TermsOf(d) \union terms |->
                                (IF t \in TermsOf(d) THEN old[t] ELSE 0)
                                + (IF t \in terms THEN 1 ELSE 0)]
  BY <1>2 DEF Counted
<1>8. \A t : (IF t \in TermsOf(d) THEN old[t] ELSE 0) = Cardinality(Containing(d, t))
  BY <1>2, <1>5
<1>9. QED
  BY <1>1, <1>4, <1>6, <1>7, <1>8 DEF new, terms, old

LEMMA OldUncounted ==
    ASSUME NEW d, IsFiniteSet(DOMAIN d), NEW id \in DOMAIN d
    PROVE  Uncounted(Exact(d).frequencies, Terms(d[id].content))
             = Exact(Less(d, {id})).frequencies
<1> DEFINE new == Less(d, {id})
           terms == Terms(d[id].content)
           old == Exact(d).frequencies
<1>2. DOMAIN old = TermsOf(d) /\ \A t \in TermsOf(d) : old[t] = Cardinality(Containing(d, t))
  BY DEF Exact
<1>3. \A t : IsFiniteSet(Containing(d, t)) /\ (id \in Containing(d, t) <=> t \in terms)
  <2>1. \A t : Containing(d, t) \subseteq DOMAIN d
    BY DEF Containing
  <2>2. \A t : id \in Containing(d, t) <=> t \in terms
    BY DEF Containing
  <2>3. QED
    BY <2>1, <2>2, FS_Subset
<1>4. \A t : Cardinality(Containing(new, t))
               = Cardinality(Containing(d, t)) - (IF t \in terms THEN 1 ELSE 0)
  <2> SUFFICES ASSUME NEW t
               PROVE  Cardinality(Containing(new, t))
                        = Cardinality(Containing(d, t)) - (IF t \in terms THEN 1 ELSE 0)
    OBVIOUS
  <2>1. Cardinality(Containing(d, t)) \in Nat
    BY <1>3, FS_CardinalityType
  <2>2. Containing(new, t) = Containing(d, t) \ {id}
    BY LessContains
  <2>3. CASE t \in terms
    BY <1>3, <2>1, <2>2, <2>3, FS_RemoveElement
  <2>4. CASE t \notin terms
    <3>1. Containing(new, t) = Containing(d, t)
      BY <1>3, <2>2, <2>4
    <3>2. QED
      BY <2>1, <2>4, <3>1
  <2>5. QED
    BY <2>3, <2>4
<1>5. \A t : t \in TermsOf(new) <=> Cardinality(Containing(new, t)) # 0
  <2>1. \A t : Containing(new, t) \subseteq Containing(d, t)
    BY LessContains
  <2>2. \A t : IsFiniteSet(Containing(new, t))
    BY <1>3, <2>1, FS_Subset
  <2>3. QED
    BY <2>2, TermHeld, FS_EmptySet
<1>6. \A t : t \in TermsOf(new) => t \in TermsOf(d)
  BY TermHeld, LessContains
<1>7. \A t : Cardinality(Containing(d, t)) \in Nat
  BY <1>3, FS_CardinalityType
<1>8. TermsOf(new) = {t \in TermsOf(d) : t \in terms => old[t] > 1}
  <2> SUFFICES ASSUME NEW t \in TermsOf(d)
               PROVE  t \in TermsOf(new) <=> (t \in terms => old[t] > 1)
    BY <1>6
  <2>1. Cardinality(Containing(d, t)) # 0
    BY <1>3, TermHeld, FS_EmptySet
  <2> HIDE DEF new, terms, old
  <2>2. QED
    BY <1>2, <1>4, <1>5, <1>7, <2>1
<1>9. Exact(new).frequencies = [t \in TermsOf(new) |-> Cardinality(Containing(new, t))]
  BY DEF Exact
<1> HIDE DEF new, terms, old
<1>10. Uncounted(old, terms) = [t \in TermsOf(new) |-> IF t \in terms THEN old[t] - 1 ELSE old[t]]
  BY <1>2, <1>8 DEF Uncounted
<1>11. \A t \in TermsOf(new) : Cardinality(Containing(new, t)) = IF t \in terms THEN old[t] - 1 ELSE old[t]
  BY <1>2, <1>4, <1>6, <1>7
<1>12. QED
  BY <1>9, <1>10, <1>11 DEF new, terms, old

(* add_document, of a new id or in place of a document, leaves the counters of
   the documents then held. *)
THEOREM AddExact ==
    ASSUME NEW d, IsFiniteSet(DOMAIN d), NEW id, NEW content, NEW meta
    PROVE  AddDocument(Exact(d), id, content, meta)
             = Exact(With(d, id, [content |-> content, meta |-> meta]))
<1> DEFINE v == [content |-> content, meta |-> meta]
           new == With(d, id, v)
<1>1. Exact(d).documents = d /\ Exact(d).total = Cardinality(DOMAIN d) /\ Held(Exact(d)) = DOMAIN d
  BY DEF Exact, Held
<1>2. new = [i \in Held(Exact(d)) \union {id} |->
                IF i = id THEN [content |-> content, meta |-> meta] ELSE Exact(d).documents[i]]
  BY <1>1 DEF With
<1>3. Cardinality(DOMAIN d) + (IF id \in DOMAIN d THEN 0 ELSE 1) = Cardinality(DOMAIN new)
  <2>1. DOMAIN new = DOMAIN d \union {id}
    BY DEF With
  <2>2. QED
    BY <2>1, FS_AddElement, FS_CardinalityType
<1>4. Counted(IF id \in DOMAIN d THEN Uncounted(Exact(d).frequencies, Terms(d[id].content))
              ELSE Exact(d).frequencies, Terms(content)) = Exact(new).frequencies
  <2>1. v.content = content
    OBVIOUS
  <2>2. CASE id \notin DOMAIN d
    BY <2>1, <2>2, NewCounted
  <2>3. CASE id \in DOMAIN d
    <3>1. Uncounted(Exact(d).frequencies, Terms(d[id].content)) = Exact(Less(d, {id})).frequencies
      BY <2>3, OldUncounted
    <3>2. DOMAIN Less(d, {id}) = DOMAIN d \ {id}
      BY DEF Less, Restrict
    <3>3. IsFiniteSet(DOMAIN Less(d, {id}))
      BY <3>2, FS_RemoveElement
    <3>4. With(Less(d, {id}), id, v) = new
      BY <3>2 DEF With, Less, Restrict
    <3>5. PICK e : e = Less(d, {id})
      OBVIOUS
    <3>6. Counted(Exact(e).frequencies, Terms(v.content)) = Exact(With(e, id, v)).frequencies
      <4>1. id \notin DOMAIN e /\ IsFiniteSet(DOMAIN e)
        BY <3>2, <3>3, <3>5
      <4> HIDE DEF v
      <4>2. QED
        BY <4>1, NewCounted
    <3>7. QED
      BY <2>1, <2>3, <3>1, <3>4, <3>5, <3>6
  <2>4. QED
    BY <2>2, <2>3
<1>5. Exact(new) = [documents |-> new, frequencies |-> Exact(new).frequencies,
                    total |-> Cardinality(DOMAIN new),
                    average |-> Averaged(new, Cardinality(DOMAIN new))]
  BY DEF Exact
<1> HIDE DEF new, v
<1>6. QED
  BY <1>1, <1>2, <1>3, <1>4, <1>5 DEF AddDocument, new, v

LEMMA DeleteExact ==
    ASSUME NEW d, IsFiniteSet(DOMAIN d), NEW id \in DOMAIN d
    PROVE  DeleteDocument(Exact(d), id) = Exact(Less(d, {id}))
<1> DEFINE new == Less(d, {id})
<1>1. Exact(d).documents = d /\ Exact(d).total = Cardinality(DOMAIN d) /\ Held(Exact(d)) = DOMAIN d
  BY DEF Exact, Held
<1>2. new = Restrict(Exact(d).documents, Held(Exact(d)) \ {id})
  BY <1>1 DEF Less
<1>3. Cardinality(DOMAIN d) - 1 = Cardinality(DOMAIN new)
  <2>1. DOMAIN new = DOMAIN d \ {id}
    BY DEF Less, Restrict
  <2>2. QED
    BY <2>1, FS_RemoveElement, FS_CardinalityType
<1>4. Exact(new) = [documents |-> new, frequencies |-> Exact(new).frequencies,
                    total |-> Cardinality(DOMAIN new),
                    average |-> Averaged(new, Cardinality(DOMAIN new))]
  BY DEF Exact
<1>5. Uncounted(Exact(d).frequencies, Terms(d[id].content)) = Exact(new).frequencies
  BY OldUncounted
<1> HIDE DEF new
<1>6. QED
  BY <1>1, <1>2, <1>3, <1>4, <1>5 DEF DeleteDocument, new

(* And so does delete_by_metadata, in whatever order it meets the ids. *)
THEOREM DeleteAllExact ==
    ASSUME NEW d, d = [id \in DOMAIN d |-> d[id]], IsFiniteSet(DOMAIN d), NEW ids \in SUBSET DOMAIN d
    PROVE  DeleteAll(Exact(d), ids) = Exact(Less(d, ids))
<1> DEFINE it == CHOOSE g : g = [s \in SUBSET ids |->
                     IF s = {} THEN Exact(d)
                     ELSE DeleteDocument(g[s \ {CHOOSE x \in s : TRUE}], CHOOSE x \in s : TRUE)]
           h == [s \in SUBSET ids |-> Exact(Less(d, s))]
<1>1. DeleteAll(Exact(d), ids) = it[ids]
  BY Zenon DEF DeleteAll, FoldSet, MapThenFoldSet
<1>2. Less(d, {}) = d
  BY DEF Less, Restrict
<1>3. ASSUME NEW s \in SUBSET ids, NEW x \in s
      PROVE  DeleteDocument(Exact(Less(d, s \ {x})), x) = Exact(Less(d, s))
  <2> DEFINE e == Less(d, s \ {x})
  <2>1. DOMAIN e = DOMAIN d \ (s \ {x})
    BY DEF Less, Restrict
  <2>2. IsFiniteSet(DOMAIN e) /\ x \in DOMAIN e
    BY <2>1, FS_Subset
  <2>3. Less(e, {x}) = Less(d, s)
    BY <2>1 DEF Less, Restrict
  <2> HIDE DEF e
  <2>4. DeleteDocument(Exact(e), x) = Exact(Less(d, s))
    BY <2>2, <2>3, DeleteExact
  <2>5. QED
    BY <2>4 DEF e
<1>4. ASSUME NEW s \in SUBSET ids, s # {}
      PROVE  Exact(Less(d, s)) = DeleteDocument(Exact(Less(d, s \ {CHOOSE x \in s : TRUE})), CHOOSE x \in s : TRUE)
  <2>1. (CHOOSE x \in s : TRUE) \in s
    BY <1>4
  <2>2. QED
    BY <1>3, <2>1
<1>5. h = [s \in SUBSET ids |->
               IF s = {} THEN Exact(d)
               ELSE DeleteDocument(h[s \ {CHOOSE x \in s : TRUE}], CHOOSE x \in s : TRUE)]
  <2>1. \A s \in SUBSET ids : h[s \ {CHOOSE x \in s : TRUE}] = Exact(Less(d, s \ {CHOOSE x \in s : TRUE}))
    OBVIOUS
  <2>2. QED
    BY <1>2, <1>4, <2>1
<1> HIDE DEF h
<1>6. it = [s \in SUBSET ids |->
               IF s = {} THEN Exact(d)
               ELSE DeleteDocument(it[s \ {CHOOSE x \in s : TRUE}], CHOOSE x \in s : TRUE)]
  BY <1>5
<1> HIDE DEF it
<1> DEFINE P == {s \in SUBSET ids : it[s] = h[s]}
<1>7. {} \in P
  BY <1>5, <1>6
<1>8. ASSUME NEW s \in SUBSET ids, s # {}
      PROVE  \E x \in s : s \ {x} \in P => s \in P
  <2> DEFINE x == CHOOSE x \in s : TRUE
  <2>1. x \in s
    BY <1>8
  <2>2. it[s] = DeleteDocument(it[s \ {x}], x)
    BY <1>6, <1>8
  <2>3. h[s] = DeleteDocument(h[s \ {x}], x)
    BY <1>5, <1>8
  <2> HIDE DEF x
  <2>4. QED
    BY <2>1, <2>2, <2>3
<1>9. ids \in P
  <2>1. IsFiniteSet(ids) /\ P \in SUBSET SUBSET ids
    BY FS_Subset
  <2> HIDE DEF P
  <2>2. QED
    BY <1>7, <1>8, <2>1, SubsetInduction
<1>10. QED
  BY <1>1, <1>9 DEF h

LEMMA EmptyExact == EmptyIndex = Exact(<<>>)
<1>1. DOMAIN <<>> = {}
  OBVIOUS
<1>2. Cardinality(DOMAIN <<>>) = 0
  BY <1>1, FS_EmptySet
<1>3. TermsOf(<<>>) = {}
  BY <1>1, TermHeld DEF Containing
<1>4. [t \in TermsOf(<<>>) |-> Cardinality(Containing(<<>>, t))] = <<>>
  BY <1>3
<1>5. Averaged(<<>>, 0) = [length |-> 0, over |-> 0]
  BY DEF Averaged
<1>6. QED
  BY <1>2, <1>4, <1>5 DEF EmptyIndex, Exact

(* The documents after the chunks at T were added, whose ids differ. *)
Document(chunk) == [content |-> chunk.content, meta |-> chunk.meta]

Added(documents, chunks, T) ==
    [id \in DOMAIN documents \union {chunks[i].id : i \in T} |->
        IF \E i \in T : chunks[i].id = id
          THEN Document(chunks[CHOOSE i \in T : chunks[i].id = id])
        ELSE documents[id]]

LEMMA AddedStep ==
    ASSUME NEW d, NEW K, NEW chunks \in Seq(K), NEW T \in SUBSET DOMAIN chunks, NEW m \in T,
           \A i, j \in DOMAIN chunks : chunks[i].id = chunks[j].id => i = j
    PROVE  Added(d, chunks, T) = With(Added(d, chunks, T \ {m}), chunks[m].id, Document(chunks[m]))
<1> DEFINE e == Added(d, chunks, T \ {m})
           f == Added(d, chunks, T)
           ids == {chunks[i].id : i \in T}
           fewer == {chunks[i].id : i \in T \ {m}}
<1>1. DOMAIN e = DOMAIN d \union fewer /\ DOMAIN f = DOMAIN d \union ids
  BY DEF Added
<1>2. ids = fewer \union {chunks[m].id}
  OBVIOUS
<1>3. ASSUME NEW id \in DOMAIN f, id # chunks[m].id
      PROVE  f[id] = e[id]
  <2>1. CASE \E i \in T : chunks[i].id = id
    <3>1. PICK i \in T : chunks[i].id = id
      BY <2>1
    <3>2. i \in T \ {m}
      BY <1>3, <3>1
    <3>3. (CHOOSE j \in T : chunks[j].id = id) = i
      BY <3>1
    <3>4. (CHOOSE j \in T \ {m} : chunks[j].id = id) = i
      BY <3>1, <3>2
    <3>5. f[id] = Document(chunks[i])
      BY <2>1, <3>3 DEF Added
    <3>6. e[id] = Document(chunks[i])
      BY <1>1, <3>1, <3>2, <3>4 DEF Added
    <3>7. QED
      BY <3>5, <3>6
  <2>2. CASE ~\E i \in T : chunks[i].id = id
    BY <2>2 DEF Added
  <2>3. QED
    BY <2>1, <2>2
<1>4. f[chunks[m].id] = Document(chunks[m])
  <2>1. (CHOOSE j \in T : chunks[j].id = chunks[m].id) = m
    OBVIOUS
  <2>2. QED
    BY <2>1 DEF Added
<1>5. DOMAIN f = DOMAIN e \union {chunks[m].id}
  BY <1>1, <1>2
<1>6. f = [id \in DOMAIN f |-> f[id]]
  BY DEF Added
<1> HIDE DEF e, f
<1>7. f = With(e, chunks[m].id, Document(chunks[m]))
  BY <1>3, <1>4, <1>5, <1>6 DEF With
<1>8. QED
  BY <1>7 DEF e, f

(* The loop of aindex over chunks of different ids. *)
LEMMA AddChunksExact ==
    ASSUME NEW d, d = [id \in DOMAIN d |-> d[id]], IsFiniteSet(DOMAIN d),
           NEW K, NEW chunks \in Seq(K),
           \A i, j \in DOMAIN chunks : chunks[i].id = chunks[j].id => i = j
    PROVE  AddChunks(Exact(d), chunks) = Exact(Added(d, chunks, DOMAIN chunks))
<1> DEFINE N == DOMAIN chunks
           Step(v, k) == AddDocument(v, k.id, k.content, k.meta)
           it == CHOOSE g : g = [s \in SUBSET N |->
                     IF s = {} THEN Exact(d) ELSE Step(g[s \ {Max(s)}], chunks[Max(s)])]
           h == [s \in SUBSET N |-> Exact(Added(d, chunks, s))]
<1>1. AddChunks(Exact(d), chunks) = it[N]
  BY Zenon DEF AddChunks, FoldLeft, MapThenFoldSet
<1>2. Added(d, chunks, {}) = d
  BY DEF Added
<1>a. N = 1..Len(chunks) /\ Len(chunks) \in Nat
  OBVIOUS
<1>b. IsFiniteSet(N) /\ N \subseteq Nat
  <2>1. IsFiniteSet(1..Len(chunks))
    <3>1. 1 \in Int /\ Len(chunks) \in Int
      BY <1>a
    <3> HIDE DEF N
    <3>2. QED
      BY <3>1, FS_Interval
  <2>2. QED
    BY <1>a, <2>1
<1>3. ASSUME NEW s \in SUBSET N, NEW m \in s
      PROVE  Step(Exact(Added(d, chunks, s \ {m})), chunks[m]) = Exact(Added(d, chunks, s))
  <2> DEFINE e == Added(d, chunks, s \ {m})
  <2>1. DOMAIN e = DOMAIN d \union {chunks[i].id : i \in s \ {m}}
    BY DEF Added
  <2>2. IsFiniteSet(DOMAIN e)
    <3> DEFINE J == {chunks[i].id : i \in s \ {m}}
               f == [i \in s \ {m} |-> chunks[i].id]
    <3>1. f \in Surjection(s \ {m}, J)
      BY DEF Surjection
    <3>2. IsFiniteSet(s \ {m})
      BY <1>b, FS_Subset
    <3> HIDE DEF f
    <3>3. IsFiniteSet(J)
      BY <3>1, <3>2, FS_Surjection
    <3>4. IsFiniteSet(DOMAIN d \union J)
      <4> HIDE DEF J
      <4>1. QED
        BY <3>3, FS_Union
    <3>5. QED
      BY <2>1, <3>4
  <2>3. With(e, chunks[m].id, Document(chunks[m])) = Added(d, chunks, s)
    BY AddedStep
  <2> HIDE DEF e
  <2>4. Step(Exact(e), chunks[m]) = Exact(Added(d, chunks, s))
    BY <2>2, <2>3, AddExact DEF Document
  <2>5. QED
    BY <2>4 DEF e
<1>4. \A s \in SUBSET N : s # {} => Max(s) \in s
  <2>1. \A s \in SUBSET N : IsFiniteSet(s) /\ s \in SUBSET Nat
    BY <1>b, FS_Subset
  <2>2. QED
    BY <2>1, MaxIs
<1> HIDE DEF Step
<1>5. h = [s \in SUBSET N |->
               IF s = {} THEN Exact(d) ELSE Step(h[s \ {Max(s)}], chunks[Max(s)])]
  <2>1. \A s \in SUBSET N : h[s \ {Max(s)}] = Exact(Added(d, chunks, s \ {Max(s)}))
    OBVIOUS
  <2>2. QED
    BY <1>2, <1>3, <1>4, <2>1
<1> HIDE DEF h
<1>6. it = [s \in SUBSET N |->
               IF s = {} THEN Exact(d) ELSE Step(it[s \ {Max(s)}], chunks[Max(s)])]
  BY <1>5
<1> HIDE DEF it
<1> DEFINE P == {s \in SUBSET N : it[s] = h[s]}
<1>7. {} \in P
  BY <1>5, <1>6
<1>8. ASSUME NEW s \in SUBSET N, s # {}
      PROVE  \E x \in s : s \ {x} \in P => s \in P
  <2>1. Max(s) \in s
    BY <1>4, <1>8
  <2>2. it[s] = Step(it[s \ {Max(s)}], chunks[Max(s)])
    BY <1>6, <1>8
  <2>3. h[s] = Step(h[s \ {Max(s)}], chunks[Max(s)])
    BY <1>5, <1>8
  <2>4. QED
    BY <2>1, <2>2, <2>3
<1>9. N \in P
  <2>1. P \in SUBSET SUBSET N
    OBVIOUS
  <2> HIDE DEF P, N
  <2>2. QED
    BY <1>b, <1>7, <1>8, <2>1, SubsetInduction
<1>10. QED
  BY <1>1, <1>9 DEF h

-----------------------------------------------------------------------------
(* SQLite: the chunks of ids in I, with contents in C and metadata in M, each at
   a row of its own with its vector. *)

ChunkRow(C, M) == [row : Nat, content : C, meta : M]

Tables(I, C, M) ==
    [data : UNION {[J -> ChunkRow(C, M)] : J \in SUBSET I},
     vectors : UNION {[R -> C] : R \in SUBSET Nat}]

Stores(I, C, M) ==
    {db \in Tables(I, C, M) :
        /\ IsFiniteSet(Ids(db))
        /\ \A i, j \in Ids(db) : db.data[i].row = db.data[j].row => i = j
        /\ VectorsOfRows(db)}

LEMMA StoreIs ==
    ASSUME NEW I, NEW C, NEW M, NEW db \in Stores(I, C, M)
    PROVE  /\ db = [data |-> db.data, vectors |-> db.vectors]
           /\ Ids(db) \subseteq I /\ IsFiniteSet(Ids(db))
           /\ db.data \in [Ids(db) -> ChunkRow(C, M)]
           /\ DOMAIN db.vectors \subseteq Nat /\ db.vectors \in [DOMAIN db.vectors -> C]
           /\ \A i, j \in Ids(db) : db.data[i].row = db.data[j].row => i = j
           /\ \A i \in Ids(db) : /\ db.data[i].row \in DOMAIN db.vectors
                                 /\ db.vectors[db.data[i].row] = db.data[i].content
  BY DEF Stores, Tables, Ids, VectorsOfRows, Range

LEMMA IsStore ==
    ASSUME NEW I, NEW C, NEW M, NEW J \in SUBSET I, IsFiniteSet(J),
           NEW data \in [J -> ChunkRow(C, M)], NEW R \in SUBSET Nat, NEW vectors \in [R -> C],
           \A i, j \in J : data[i].row = data[j].row => i = j,
           \A i \in J : data[i].row \in R /\ vectors[data[i].row] = data[i].content
    PROVE  [data |-> data, vectors |-> vectors] \in Stores(I, C, M)
  BY DEF Stores, Tables, Ids, VectorsOfRows, Range

LEMMA EmptyIsStore ==
    ASSUME NEW I, NEW C, NEW M
    PROVE  EmptyStore \in Stores(I, C, M) /\ Ids(EmptyStore) = {}
<1>1. <<>> \in [{} -> ChunkRow(C, M)] /\ <<>> \in [{} -> C]
  OBVIOUS
<1>2. QED
  BY <1>1, IsStore, FS_EmptySet DEF EmptyStore, Ids

LEMMA NewRowIs ==
    ASSUME NEW I, NEW C, NEW M, NEW db \in Stores(I, C, M)
    PROVE  NewRow(db) \in Nat /\ \A i \in Ids(db) : NewRow(db) # db.data[i].row
<1> DEFINE rows == {d.row : d \in Range(db.data)}
           f == [i \in Ids(db) |-> db.data[i].row]
<1>1. \A i \in Ids(db) : db.data[i].row \in Nat /\ db.data[i].row \in rows
  BY StoreIs DEF Ids, ChunkRow, Range
<1>2. rows = {db.data[i].row : i \in Ids(db)}
  BY DEF Range, Ids
<1>3. f \in Surjection(Ids(db), rows)
  BY <1>2 DEF Surjection
<1>4. IsFiniteSet(Ids(db))
  BY StoreIs
<1>5. rows \subseteq Nat
  BY <1>1, <1>2
<1> HIDE DEF f
<1>6. NewRow(db) = 1 + Max({0} \union rows)
  BY DEF NewRow
<1> HIDE DEF rows
<1>7. IsFiniteSet(rows)
  BY <1>3, <1>4, FS_Surjection
<1>8. IsFiniteSet({0} \union rows)
  BY <1>7, FS_Union, FS_Singleton
<1>9. /\ Max({0} \union rows) \in {0} \union rows
      /\ \A y \in {0} \union rows : Max({0} \union rows) >= y
  BY <1>5, <1>8, MaxIs
<1>10. Max({0} \union rows) \in Nat
  <2>1. {0} \union rows \subseteq Nat
    BY <1>5
  <2>2. QED
    BY <1>9, <2>1
<1>11. \A i \in Ids(db) : Max({0} \union rows) >= db.data[i].row
  BY <1>1, <1>9
<1>12. QED
  BY <1>1, <1>6, <1>10, <1>11

LEMMA PutIs ==
    ASSUME NEW I, NEW C, NEW M, NEW db \in Stores(I, C, M),
           NEW chunk \in [id : I, content : C, meta : M]
    PROVE  /\ PutChunk(db, chunk) \in Stores(I, C, M)
           /\ Ids(PutChunk(db, chunk)) = Ids(db) \union {chunk.id}
           /\ PutChunk(db, chunk).data[chunk.id].content = chunk.content
           /\ PutChunk(db, chunk).data[chunk.id].meta = chunk.meta
           /\ \A id \in Ids(db) : id # chunk.id => PutChunk(db, chunk).data[id] = db.data[id]
<1> DEFINE row == NewRow(db)
           J == Ids(db) \union {chunk.id}
           R == DOMAIN db.vectors \union {row}
           data == [id \in J |-> IF id = chunk.id
                                   THEN [row |-> row, content |-> chunk.content, meta |-> chunk.meta]
                                 ELSE db.data[id]]
           vectors == [r \in R |-> IF r = row THEN chunk.content ELSE db.vectors[r]]
<1>1. row \in Nat /\ \A i \in Ids(db) : row # db.data[i].row
  BY NewRowIs
<1>2. PutChunk(db, chunk) = [data |-> data, vectors |-> vectors]
  BY DEF PutChunk
<1> HIDE DEF row
<1>3. J \in SUBSET I /\ IsFiniteSet(J)
  BY StoreIs, FS_AddElement
<1>4. data \in [J -> ChunkRow(C, M)]
  BY <1>1, StoreIs DEF ChunkRow
<1>5. R \in SUBSET Nat /\ vectors \in [R -> C]
  BY <1>1, StoreIs
<1>6. /\ data[chunk.id] = [row |-> row, content |-> chunk.content, meta |-> chunk.meta]
      /\ \A i \in Ids(db) : i # chunk.id => data[i] = db.data[i]
      /\ vectors[row] = chunk.content
      /\ \A r \in DOMAIN db.vectors : r # row => vectors[r] = db.vectors[r]
  OBVIOUS
<1> HIDE DEF data, vectors
<1>7. \A i, j \in J : data[i].row = data[j].row => i = j
  BY <1>1, <1>6, StoreIs
<1>8. ASSUME NEW i \in J
      PROVE  data[i].row \in R /\ vectors[data[i].row] = data[i].content
  <2>1. CASE i = chunk.id
    BY <1>6, <2>1
  <2>2. CASE i # chunk.id
    <3>1. i \in Ids(db) /\ data[i] = db.data[i]
      BY <1>6, <2>2
    <3>2. /\ db.data[i].row \in DOMAIN db.vectors
          /\ db.vectors[db.data[i].row] = db.data[i].content
      BY <3>1, StoreIs
    <3>3. QED
      BY <1>1, <1>6, <3>1, <3>2
  <2>3. QED
    BY <2>1, <2>2
<1> HIDE DEF J, R
<1>9. [data |-> data, vectors |-> vectors] \in Stores(I, C, M)
  BY <1>3, <1>4, <1>5, <1>7, <1>8, IsStore
<1>10. Ids(PutChunk(db, chunk)) = J
  BY <1>2, <1>4 DEF Ids
<1>11. QED
  BY <1>2, <1>6, <1>9, <1>10 DEF J

LEMMA WithoutIs ==
    ASSUME NEW I, NEW C, NEW M, NEW db \in Stores(I, C, M), NEW gone \in SUBSET Ids(db)
    PROVE  /\ Without(db, gone) \in Stores(I, C, M)
           /\ Ids(Without(db, gone)) = Ids(db) \ gone
           /\ \A id \in Ids(db) \ gone : Without(db, gone).data[id] = db.data[id]
<1> DEFINE rows == {db.data[id].row : id \in gone}
           J == Ids(db) \ gone
           R == DOMAIN db.vectors \ rows
           data == [id \in J |-> db.data[id]]
           vectors == [r \in R |-> db.vectors[r]]
<1>1. Without(db, gone) = [data |-> data, vectors |-> vectors]
  BY DEF Without, Restrict
<1>2. J \in SUBSET I /\ IsFiniteSet(J)
  BY StoreIs, FS_Subset
<1>3. data \in [J -> ChunkRow(C, M)]
  BY StoreIs
<1>4. R \in SUBSET Nat /\ vectors \in [R -> C]
  BY StoreIs
<1>5. \A i, j \in J : data[i].row = data[j].row => i = j
  BY StoreIs
<1>6. ASSUME NEW i \in J
      PROVE  data[i].row \in R /\ vectors[data[i].row] = data[i].content
  <2>1. data[i] = db.data[i] /\ i \in Ids(db) /\ i \notin gone
    OBVIOUS
  <2>2. db.data[i].row \in DOMAIN db.vectors /\ db.vectors[db.data[i].row] = db.data[i].content
    BY <2>1, StoreIs
  <2>3. db.data[i].row \notin rows
    BY <2>1, StoreIs
  <2>4. QED
    BY <2>1, <2>2, <2>3
<1>7. \A id \in J : data[id] = db.data[id]
  OBVIOUS
<1> HIDE DEF J, R, data, vectors
<1>8. [data |-> data, vectors |-> vectors] \in Stores(I, C, M)
  BY <1>2, <1>3, <1>4, <1>5, <1>6, IsStore
<1>9. Ids(Without(db, gone)) = J
  BY <1>1, <1>3 DEF Ids
<1>10. QED
  BY <1>1, <1>7, <1>8, <1>9 DEF J

(* All chunks of a transaction are there afterwards, and what it did not name
   is as it was. *)
THEOREM AddIs ==
    ASSUME NEW I, NEW C, NEW M, NEW db \in Stores(I, C, M),
           NEW chunks \in Seq([id : I, content : C, meta : M]),
           \A i, j \in DOMAIN chunks : chunks[i].id = chunks[j].id => i = j
    PROVE  /\ Add(db, chunks) \in Stores(I, C, M)
           /\ Ids(Add(db, chunks)) = Ids(db) \union {chunks[i].id : i \in DOMAIN chunks}
           /\ \A i \in DOMAIN chunks :
                 /\ Add(db, chunks).data[chunks[i].id].content = chunks[i].content
                 /\ Add(db, chunks).data[chunks[i].id].meta = chunks[i].meta
           /\ \A id \in Ids(db) : (\A i \in DOMAIN chunks : chunks[i].id # id) =>
                 Add(db, chunks).data[id] = db.data[id]
<1> DEFINE N == DOMAIN chunks
           A == Stores(I, C, M)
           it == CHOOSE g : g = [s \in SUBSET N |->
                     IF s = {} THEN db ELSE PutChunk(g[s \ {Max(s)}], chunks[Max(s)])]
           pick == [s \in SUBSET N |-> Max(s)]
           step == [p \in N \X A |-> PutChunk(p[2], chunks[p[1]])]
           Holds(v, T) ==
               /\ v \in A
               /\ Ids(v) = Ids(db) \union {chunks[i].id : i \in T}
               /\ \A i \in T : /\ v.data[chunks[i].id].content = chunks[i].content
                               /\ v.data[chunks[i].id].meta = chunks[i].meta
               /\ \A id \in Ids(db) : (\A i \in T : chunks[i].id # id) => v.data[id] = db.data[id]
<1>1. Add(db, chunks) = it[N]
  BY Zenon DEF Add, FoldLeft, MapThenFoldSet
<1>2. N = 1..Len(chunks) /\ Len(chunks) \in Nat
  OBVIOUS
<1>3. IsFiniteSet(N) /\ N \subseteq Nat
  BY <1>2, FS_Interval
<1>4. \A s \in SUBSET N : s # {} => Max(s) \in s
  <2>1. \A s \in SUBSET N : IsFiniteSet(s) /\ s \in SUBSET Nat
    BY <1>3, FS_Subset
  <2>2. QED
    BY <2>1, MaxIs
<1>5. \A i \in N : chunks[i] \in [id : I, content : C, meta : M]
  <2> DEFINE K == [id : I, content : C, meta : M]
  <2>1. chunks \in Seq(K)
    OBVIOUS
  <2> HIDE DEF K
  <2>2. \A i \in N : chunks[i] \in K
    BY <2>1
  <2>3. QED
    BY <2>2 DEF K
<1>6. step \in [N \X A -> A]
  <2>1. \A p \in N \X A : PutChunk(p[2], chunks[p[1]]) \in A
    BY <1>5, PutIs
  <2> HIDE DEF A, N
  <2>2. QED
    BY <2>1
<1>7. db \in A
  OBVIOUS
<1>8. \A T \in SUBSET N : T # {} => pick[T] \in T
  BY <1>4
<1>9. \A T \in SUBSET N : pick[T] = Max(T)
  OBVIOUS
<1>10. \A i \in N, v \in A : step[<<i, v>>] = PutChunk(v, chunks[i])
  OBVIOUS
<1>11. ASSUME NEW T \in SUBSET N, NEW m \in T, NEW v, Holds(v, T \ {m})
       PROVE  Holds(PutChunk(v, chunks[m]), T)
  <2> DEFINE w == PutChunk(v, chunks[m])
             id0 == chunks[m].id
  <2>1. /\ v \in A
        /\ Ids(v) = Ids(db) \union {chunks[i].id : i \in T \ {m}}
        /\ \A i \in T \ {m} : /\ v.data[chunks[i].id].content = chunks[i].content
                              /\ v.data[chunks[i].id].meta = chunks[i].meta
        /\ \A id \in Ids(db) : (\A i \in T \ {m} : chunks[i].id # id) => v.data[id] = db.data[id]
    BY <1>11
  <2>2. m \in N
    OBVIOUS
  <2>3. /\ w \in A
        /\ Ids(w) = Ids(v) \union {id0}
        /\ w.data[id0].content = chunks[m].content
        /\ w.data[id0].meta = chunks[m].meta
        /\ \A id \in Ids(v) : id # id0 => w.data[id] = v.data[id]
    BY <1>5, <2>1, <2>2, PutIs
  <2> HIDE DEF w, A
  <2>4. Ids(w) = Ids(db) \union {chunks[i].id : i \in T}
    BY <2>1, <2>3
  <2>5. ASSUME NEW i \in T
        PROVE  w.data[chunks[i].id].content = chunks[i].content /\ w.data[chunks[i].id].meta = chunks[i].meta
    <3>1. CASE i = m
      BY <2>3, <3>1
    <3>2. CASE i # m
      <4>1. chunks[i].id # id0 /\ i \in T \ {m}
        BY <3>2
      <4>2. chunks[i].id \in Ids(v)
        BY <2>1, <4>1
      <4>3. QED
        BY <2>1, <2>3, <4>1, <4>2
    <3>3. QED
      BY <3>1, <3>2
  <2>6. ASSUME NEW id \in Ids(db), \A i \in T : chunks[i].id # id
        PROVE  w.data[id] = db.data[id]
    BY <2>1, <2>3, <2>6
  <2>7. QED
    BY <2>3, <2>4, <2>5, <2>6 DEF w
<1>12. Holds(db, {})
  BY <1>7
<1> HIDE DEF pick, step, Holds
<1>13. Solutions(N, A, db, pick, step) # {}
  <2> HIDE DEF N, A
  <2>1. QED
    BY <1>3, <1>6, <1>7, <1>8, FoldExists
<1>14. PICK g \in [SUBSET N -> A] : \A T \in SUBSET N :
          g[T] = IF T = {} THEN db ELSE step[<<pick[T], g[T \ {pick[T]}]>>]
  BY <1>13 DEF Solutions
<1>15. \A T \in SUBSET N :
          g[T] = IF T = {} THEN db ELSE PutChunk(g[T \ {Max(T)}], chunks[Max(T)])
  <2> SUFFICES ASSUME NEW T \in SUBSET N, T # {}
               PROVE  g[T] = PutChunk(g[T \ {Max(T)}], chunks[Max(T)])
    BY <1>14
  <2>1. Max(T) \in N /\ g[T \ {Max(T)}] \in A
    BY <1>4
  <2>2. g[T] = step[<<Max(T), g[T \ {Max(T)}]>>]
    BY <1>9, <1>14
  <2>3. QED
    BY <1>10, <2>1, <2>2
<1>16. g = [s \in SUBSET N |-> IF s = {} THEN db ELSE PutChunk(g[s \ {Max(s)}], chunks[Max(s)])]
  BY <1>14, <1>15
<1>17. it = [s \in SUBSET N |-> IF s = {} THEN db ELSE PutChunk(it[s \ {Max(s)}], chunks[Max(s)])]
  BY <1>16
<1> HIDE DEF it
<1> DEFINE P == {s \in SUBSET N : Holds(it[s], s)}
<1>18. {} \in P
  BY <1>12, <1>17
<1>19. ASSUME NEW s \in SUBSET N, s # {}
       PROVE  \E x \in s : s \ {x} \in P => s \in P
  <2>1. Max(s) \in s
    BY <1>4, <1>19
  <2>2. it[s] = PutChunk(it[s \ {Max(s)}], chunks[Max(s)])
    BY <1>17, <1>19
  <2>3. s \ {Max(s)} \in P => s \in P
    BY <1>11, <2>1, <2>2
  <2>4. QED
    BY <2>1, <2>3
<1>20. Holds(it[N], N)
  <2>1. P \in SUBSET SUBSET N
    OBVIOUS
  <2> HIDE DEF P, N
  <2>2. N \in P
    BY <1>3, <1>18, <1>19, <2>1, SubsetInduction
  <2>3. QED
    BY <2>2 DEF P
<1>21. QED
  BY <1>1, <1>20 DEF Holds

-----------------------------------------------------------------------------
(* The pipeline. *)

Content == UNION {Range(made) : made \in Range(Chunks)}

Meta == [source : Source, checksum : Version, strategy : Strategy]
        \union [source : Source, checksum : {None}, strategy : {None}]

ChunkId == Source \X Nat

Docs == [content : Content, meta : Meta]

CallRecord == [step : {"idle", "embed", "add", "sparse"},
               source : Source \union {None}, version : Version \union {None},
               checked : BOOLEAN, awaited : BOOLEAN]

(* The types of all but the two indexes, and who is indexing what. *)
BasicInv ==
    /\ strategy \in Strategy /\ starts \in 0..MaxStarts /\ events \in 0..MaxEvents
    /\ shrunk \subseteq Source /\ astray \in BOOLEAN
    /\ calls \in [Call -> CallRecord]

CallInv ==
    \A c \in Call :
        /\ calls[c].step # "idle" => calls[c].source \in Source /\ calls[c].version \in Version
        /\ calls[c].awaited => calls[c].step # "idle"
        /\ calls[c].step \in {"embed", "sparse"} => calls[c].awaited

(* A store of well-typed rows, whose ids name their sources. *)
StoreInv ==
    /\ store \in Stores(ChunkId, Content, Meta)
    /\ \A id \in Ids(store) : store.data[id].meta.source = id[1]

Sourced(index) == \A id \in Held(index) : index.documents[id].meta.source = id[1]

(* The sparse index is determined by its documents. *)
SparseInv ==
    /\ sparse = Exact(sparse.documents)
    /\ Held(sparse) \subseteq ChunkId /\ IsFiniteSet(Held(sparse))
    /\ sparse.documents \in [Held(sparse) -> Docs]
    /\ Sourced(sparse)

(* The rows of a source are one version, indexed by one call. *)
OneVersion(s, v, st) ==
    /\ HoldsVersion(s, v, st)
    /\ \/ \A id \in RowsOf(s) : store.data[id].meta = [source |-> s, checksum |-> v, strategy |-> st]
       \/ \A id \in RowsOf(s) : store.data[id].meta = [source |-> s, checksum |-> None, strategy |-> None]

VersionInv ==
    \A s \in Source \ shrunk :
        RowsOf(s) = {} \/ \E v \in Version, st \in Strategy : OneVersion(s, v, st)

(* The ids of the chunks a call makes, and whether one of them is committed by a
   call that has not resumed. *)
NewIds(call) == {<<call.source, i>> : i \in DOMAIN Chunks[<<call.version, strategy>>]}

Arriving(id) == \E c \in Call : calls[c].step = "sparse" /\ id \in NewIds(calls[c])

(* As long as nothing went astray: every call is awaited and alone with its
   source, *)
AloneInv ==
    /\ \A c \in Call : calls[c].step # "idle" => calls[c].awaited
    /\ \A c, d \in Call :
          calls[c].step # "idle" /\ calls[d].step # "idle" /\ calls[c].source = calls[d].source
            => c = d

(* what it has committed is still there when it resumes, *)
ArrivedInv ==
    \A c \in Call : calls[c].step = "sparse" =>
        \A i \in DOMAIN Chunks[<<calls[c].version, strategy>>] :
            /\ <<calls[c].source, i>> \in Ids(store)
            /\ store.data[<<calls[c].source, i>>].content
                  = Chunks[<<calls[c].version, strategy>>][i]
            /\ store.data[<<calls[c].source, i>>].meta = MetaOf(calls[c])

(* and the sparse index holds nothing that the store does not. *)
MatchInv ==
    \A id \in Held(sparse) :
        /\ id \in Ids(store)
        /\ ~Arriving(id) => sparse.documents[id] = Document(store.data[id]) /\ OfStrategy(id)

AgreeInv == ~astray => AloneInv /\ ArrivedInv /\ MatchInv

IInv == BasicInv /\ CallInv /\ StoreInv /\ SparseInv /\ VersionInv /\ AgreeInv

-----------------------------------------------------------------------------
(* What chunkers make, and what the operations make of it. *)

LEMMA ChunksType ==
    ASSUME NEW v \in Version, NEW st \in Strategy
    PROVE  /\ Chunks[<<v, st>>] \in Seq(Content)
           /\ \A i \in DOMAIN Chunks[<<v, st>>] : i \in Nat /\ Chunks[<<v, st>>][i] \in Content
<1> DEFINE made == Chunks[<<v, st>>]
<1>1. made \in Range(Chunks)
  BY RagIndexAssumption DEF Range
<1>2. made \in Seq(Range(made))
  BY <1>1, RagIndexAssumption
<1>3. Range(made) \subseteq Content
  BY <1>1 DEF Content
<1> HIDE DEF made
<1>4. \A i \in DOMAIN made : made[i] \in Content
  BY <1>3 DEF Range
<1>5. made \in Seq(Content) /\ \A i \in DOMAIN made : i \in Nat
  BY <1>2, <1>4
<1>6. QED
  BY <1>4, <1>5 DEF made

Chunk == [id : ChunkId, content : Content, meta : Meta]

LEMMA ChunksAre ==
    ASSUME strategy \in Strategy, NEW call, call.source \in Source, call.version \in Version
    PROVE  /\ ChunksOf(call) \in Seq(Chunk)
           /\ DOMAIN ChunksOf(call) = DOMAIN Chunks[<<call.version, strategy>>]
           /\ MetaOf(call) \in Meta /\ MetaOf(call).source = call.source
           /\ \A i \in DOMAIN ChunksOf(call) :
                 /\ i \in Nat
                 /\ ChunksOf(call)[i].id = <<call.source, i>>
                 /\ ChunksOf(call)[i].content = Chunks[<<call.version, strategy>>][i]
                 /\ ChunksOf(call)[i].meta = MetaOf(call)
           /\ \A i, j \in DOMAIN ChunksOf(call) :
                 ChunksOf(call)[i].id = ChunksOf(call)[j].id => i = j
<1> DEFINE made == Chunks[<<call.version, strategy>>]
           cs == [i \in DOMAIN made |->
                     [id |-> <<call.source, i>>, content |-> made[i], meta |-> MetaOf(call)]]
<1>1. ChunksOf(call) = cs
  BY DEF ChunksOf
<1>2. made \in Seq(Content) /\ \A i \in DOMAIN made : i \in Nat /\ made[i] \in Content
  BY ChunksType
<1>3. MetaOf(call) \in Meta /\ MetaOf(call).source = call.source
  BY DEF MetaOf, Meta
<1> HIDE DEF made
<1>4. \A i \in DOMAIN made : cs[i] \in Chunk
  BY <1>2, <1>3 DEF Chunk, ChunkId
<1>5. cs \in Seq(Chunk)
  <2>1. DOMAIN made = 1..Len(made) /\ Len(made) \in Nat
    BY <1>2
  <2>2. DOMAIN cs = 1..Len(made)
    BY <2>1
  <2>3. cs \in [1..Len(made) -> Chunk]
    BY <1>4, <2>1
  <2> HIDE DEF cs
  <2>4. QED
    BY <2>1, <2>3
<1>6. /\ DOMAIN cs = DOMAIN made
      /\ \A i \in DOMAIN made : /\ cs[i].id = <<call.source, i>>
                               /\ cs[i].content = made[i]
                               /\ cs[i].meta = MetaOf(call)
  OBVIOUS
<1> HIDE DEF cs
<1>7. \A i, j \in DOMAIN cs : cs[i].id = cs[j].id => i = j
  BY <1>6
<1>8. QED
  BY <1>1, <1>2, <1>3, <1>5, <1>6, <1>7 DEF made

(* Add puts the chunks of a call in the store. *)
LEMMA CommitIs ==
    ASSUME strategy \in Strategy, store \in Stores(ChunkId, Content, Meta),
           NEW call, call.source \in Source, call.version \in Version,
           NEW db, db = Add(store, ChunksOf(call))
    PROVE  /\ db \in Stores(ChunkId, Content, Meta)
           /\ Ids(db) = Ids(store) \union
                           {<<call.source, i>> : i \in DOMAIN Chunks[<<call.version, strategy>>]}
           /\ \A i \in DOMAIN Chunks[<<call.version, strategy>>] :
                 /\ db.data[<<call.source, i>>].content = Chunks[<<call.version, strategy>>][i]
                 /\ db.data[<<call.source, i>>].meta = MetaOf(call)
           /\ \A id \in Ids(store) :
                 id \notin {<<call.source, i>> : i \in DOMAIN Chunks[<<call.version, strategy>>]}
                   => db.data[id] = store.data[id]
<1> DEFINE cs == ChunksOf(call)
           N == DOMAIN Chunks[<<call.version, strategy>>]
<1>1. /\ cs \in Seq(Chunk) /\ DOMAIN cs = N
      /\ \A i \in N : /\ cs[i].id = <<call.source, i>>
                      /\ cs[i].content = Chunks[<<call.version, strategy>>][i]
                      /\ cs[i].meta = MetaOf(call)
      /\ \A i, j \in DOMAIN cs : cs[i].id = cs[j].id => i = j
  BY ChunksAre
<1> HIDE DEF cs, N
<1>2. /\ Add(store, cs) \in Stores(ChunkId, Content, Meta)
      /\ Ids(Add(store, cs)) = Ids(store) \union {cs[i].id : i \in DOMAIN cs}
      /\ \A i \in DOMAIN cs : /\ Add(store, cs).data[cs[i].id].content = cs[i].content
                              /\ Add(store, cs).data[cs[i].id].meta = cs[i].meta
      /\ \A id \in Ids(store) : (\A i \in DOMAIN cs : cs[i].id # id) =>
            Add(store, cs).data[id] = store.data[id]
  <2>1. cs \in Seq([id : ChunkId, content : Content, meta : Meta])
    BY <1>1 DEF Chunk
  <2>2. \A i, j \in DOMAIN cs : cs[i].id = cs[j].id => i = j
    BY <1>1
  <2>3. QED
    BY <2>1, <2>2, AddIs
<1>3. {cs[i].id : i \in DOMAIN cs} = {<<call.source, i>> : i \in N}
  <2>1. DOMAIN cs = N /\ \A i \in N : cs[i].id = <<call.source, i>>
    BY <1>1
  <2>2. QED
    BY <2>1
<1>4. db = Add(store, cs) /\ DOMAIN cs = N
  BY <1>1 DEF cs
<1>5. /\ db \in Stores(ChunkId, Content, Meta)
      /\ Ids(db) = Ids(store) \union {<<call.source, i>> : i \in N}
      /\ \A i \in N : /\ db.data[<<call.source, i>>].content = Chunks[<<call.version, strategy>>][i]
                      /\ db.data[<<call.source, i>>].meta = MetaOf(call)
      /\ \A id \in Ids(store) : id \notin {<<call.source, i>> : i \in N} => db.data[id] = store.data[id]
  <2>1. /\ db \in Stores(ChunkId, Content, Meta)
        /\ Ids(db) = Ids(store) \union {<<call.source, i>> : i \in N}
    BY <1>2, <1>3, <1>4
  <2>2. ASSUME NEW i \in N
        PROVE  /\ db.data[<<call.source, i>>].content = Chunks[<<call.version, strategy>>][i]
               /\ db.data[<<call.source, i>>].meta = MetaOf(call)
    <3>1. cs[i].id = <<call.source, i>> /\ i \in DOMAIN cs
      BY <1>1
    <3>2. db.data[cs[i].id].content = cs[i].content /\ db.data[cs[i].id].meta = cs[i].meta
      BY <1>2, <1>4, <3>1
    <3>3. QED
      BY <1>1, <3>1, <3>2
  <2>3. ASSUME NEW id \in Ids(store), id \notin {<<call.source, i>> : i \in N}
        PROVE  db.data[id] = store.data[id]
    BY <1>2, <1>3, <1>4, <2>3
  <2>4. QED
    BY <2>1, <2>2, <2>3
<1>6. QED
  BY <1>5 DEF N

(* The chunks of a call are documents of an index. *)
Placed(index, call) ==
    \A i \in DOMAIN ChunksOf(call) :
        index.documents[<<call.source, i>>] = Document(ChunksOf(call)[i])

(* The loop of aindex puts them in the sparse index. *)
LEMMA FinishIs ==
    ASSUME strategy \in Strategy, SparseInv,
           NEW call, call.source \in Source, call.version \in Version,
           NEW index, index = AddChunks(sparse, ChunksOf(call))
    PROVE  /\ index = Exact(index.documents)
           /\ Held(index) = Held(sparse) \union
                               {<<call.source, i>> : i \in DOMAIN Chunks[<<call.version, strategy>>]}
           /\ Placed(index, call)
           /\ \A id \in Held(sparse) :
                 id \notin {<<call.source, i>> : i \in DOMAIN Chunks[<<call.version, strategy>>]}
                   => index.documents[id] = sparse.documents[id]
           /\ index.documents \in [Held(index) -> Docs]
           /\ Held(index) \subseteq ChunkId /\ IsFiniteSet(Held(index))
           /\ Sourced(index)
<1> DEFINE cs == ChunksOf(call)
           N == DOMAIN Chunks[<<call.version, strategy>>]
           d == sparse.documents
           e == Added(d, cs, N)
<1>1. /\ cs \in Seq(Chunk) /\ DOMAIN cs = N
      /\ \A i \in N : cs[i].id = <<call.source, i>> /\ cs[i].meta.source = call.source
      /\ \A i \in N : i \in Nat
      /\ \A i, j \in DOMAIN cs : cs[i].id = cs[j].id => i = j
  BY ChunksAre
<1>2. /\ sparse = Exact(d) /\ Held(sparse) = DOMAIN d /\ IsFiniteSet(DOMAIN d)
      /\ d \in [DOMAIN d -> Docs]
      /\ DOMAIN d \subseteq ChunkId
      /\ \A id \in DOMAIN d : d[id].meta.source = id[1]
  BY DEF SparseInv, Held, Sourced
<1>3. IsFiniteSet({<<call.source, i>> : i \in N})
  <2> DEFINE J == {<<call.source, i>> : i \in N}
             f == [i \in N |-> <<call.source, i>>]
  <2>1. f \in Surjection(N, J)
    BY DEF Surjection
  <2>2. N = 1..Len(cs) /\ Len(cs) \in Nat
    BY <1>1
  <2>3. IsFiniteSet(N)
    BY <2>2, FS_Interval
  <2> HIDE DEF f, N
  <2>4. IsFiniteSet(J)
    BY <2>1, <2>3, FS_Surjection
  <2>5. QED
    BY <2>4
<1> HIDE DEF cs, N, d
<1>4. AddChunks(Exact(d), cs) = Exact(Added(d, cs, DOMAIN cs))
  <2>1. d = [id \in DOMAIN d |-> d[id]] /\ IsFiniteSet(DOMAIN d)
    BY <1>2
  <2>2. cs \in Seq(Chunk) /\ \A i, j \in DOMAIN cs : cs[i].id = cs[j].id => i = j
    BY <1>1
  <2>3. QED
    BY <2>1, <2>2, AddChunksExact
<1>5. index = Exact(e) /\ index.documents = e /\ Held(index) = DOMAIN e
  <2>1. index = Exact(e)
    BY <1>1, <1>2, <1>4 DEF cs
  <2>2. QED
    BY <2>1 DEF Exact, Held
<1>6. {cs[i].id : i \in N} = {<<call.source, i>> : i \in N}
  <2>1. \A i \in N : cs[i].id = <<call.source, i>>
    BY <1>1
  <2>2. QED
    BY <2>1
<1>7. DOMAIN e = DOMAIN d \union {<<call.source, i>> : i \in N}
  BY <1>6 DEF Added
<1>8. ASSUME NEW i \in N
      PROVE  e[<<call.source, i>>] = Document(cs[i])
  <2>1. (CHOOSE j \in N : cs[j].id = cs[i].id) = i
    BY <1>1
  <2>2. <<call.source, i>> = cs[i].id
    BY <1>1
  <2>3. QED
    BY <2>1, <2>2 DEF Added
<1>9. ASSUME NEW id \in DOMAIN d, id \notin {<<call.source, i>> : i \in N}
      PROVE  e[id] = d[id]
  BY <1>6, <1>9 DEF Added
<1>10. ASSUME NEW i \in N
       PROVE  Document(cs[i]) \in Docs
              /\ Document(cs[i]).meta.source = call.source
  <2>1. cs[i] \in Chunk
    BY <1>1
  <2>2. QED
    BY <1>1, <2>1 DEF Document, Chunk, Docs
<1>11. e = [id \in DOMAIN e |-> e[id]]
  BY DEF Added
<1> HIDE DEF e
<1>12. ASSUME NEW id \in DOMAIN e
       PROVE  e[id] \in Docs /\ e[id].meta.source = id[1]
  <2>1. CASE id \in {<<call.source, i>> : i \in N}
    BY <1>8, <1>10, <2>1
  <2>2. CASE id \notin {<<call.source, i>> : i \in N}
    BY <1>2, <1>7, <1>9, <2>2
  <2>3. QED
    BY <2>1, <2>2
<1>13. e \in [DOMAIN e -> Docs]
  BY <1>11, <1>12
<1>14. DOMAIN e \subseteq ChunkId
  BY <1>1, <1>2, <1>7 DEF ChunkId
<1>15. IsFiniteSet(DOMAIN e)
  <2> DEFINE J == {<<call.source, i>> : i \in N}
  <2>1. DOMAIN e = DOMAIN d \union J /\ IsFiniteSet(J)
    BY <1>3, <1>7
  <2> HIDE DEF J
  <2>2. IsFiniteSet(DOMAIN d \union J)
    BY <1>2, <2>1, FS_Union
  <2>3. QED
    BY <2>1, <2>2
<1>16. Placed(index, call)
  BY <1>1, <1>5, <1>8 DEF Placed, cs
<1>17. Sourced(index)
  BY <1>5, <1>12 DEF Sourced
<1>18. QED
  BY <1>2, <1>5, <1>7, <1>9, <1>13, <1>14, <1>15, <1>16, <1>17 DEF N, cs, d

(* The documents that delete takes out of the sparse index. *)
OfSource(index, s) == {id \in Held(index) : index.documents[id].meta.source = s}

(* delete takes a source out of both. *)
LEMMA DeleteStoreIs ==
    ASSUME StoreInv, NEW s, NEW db, db = DeleteBySource(store, s)
    PROVE  /\ db \in Stores(ChunkId, Content, Meta)
           /\ Ids(db) = {id \in Ids(store) : id[1] # s}
           /\ \A id \in Ids(db) : db.data[id] = store.data[id]
<1> DEFINE gone == {id \in Ids(store) : store.data[id].meta.source = s}
<1>1. db = Without(store, gone) /\ gone \in SUBSET Ids(store)
  BY DEF DeleteBySource
<1>2. Ids(store) \ gone = {id \in Ids(store) : id[1] # s}
  BY DEF StoreInv
<1> HIDE DEF gone
<1>3. QED
  BY <1>1, <1>2, WithoutIs DEF StoreInv

LEMMA DeleteSparseIs ==
    ASSUME SparseInv, NEW s, NEW index,
           index = DeleteAll(sparse, OfSource(sparse, s))
    PROVE  /\ index = Exact(index.documents)
           /\ Held(index) = {id \in Held(sparse) : id[1] # s}
           /\ \A id \in Held(index) : index.documents[id] = sparse.documents[id]
           /\ index.documents = [id \in Held(index) |-> sparse.documents[id]]
<1> DEFINE gone == OfSource(sparse, s)
           d == sparse.documents
<1>1. /\ sparse = Exact(d) /\ Held(sparse) = DOMAIN d /\ IsFiniteSet(DOMAIN d)
      /\ d = [id \in DOMAIN d |-> d[id]]
  BY DEF SparseInv, Held
<1>2. gone \in SUBSET DOMAIN d /\ DOMAIN d \ gone = {id \in Held(sparse) : id[1] # s}
  BY DEF SparseInv, Held, Sourced, OfSource
<1> HIDE DEF gone, d
<1>3. DeleteAll(Exact(d), gone) = Exact(Less(d, gone))
  BY <1>1, <1>2, DeleteAllExact
<1>4. index = Exact(Less(d, gone))
  BY <1>1, <1>3 DEF gone
<1>5. index.documents = Less(d, gone) /\ Held(index) = DOMAIN Less(d, gone)
  BY <1>4 DEF Exact, Held
<1>6. Less(d, gone) = [id \in DOMAIN d \ gone |-> d[id]]
  BY DEF Less, Restrict
<1>7. QED
  BY <1>2, <1>4, <1>5, <1>6 DEF d

(* rebuild_bm25_from_store makes the index of what this chunker made. *)
LEMMA RebuiltIs ==
    ASSUME StoreInv
    PROVE  /\ Rebuilt = Exact(Rebuilt.documents)
           /\ Held(Rebuilt) = {id \in Ids(store) : OfStrategy(id)}
           /\ \A id \in Held(Rebuilt) : Rebuilt.documents[id] = Document(store.data[id])
           /\ Rebuilt.documents = [id \in Held(Rebuilt) |-> Rebuilt.documents[id]]
<1> DEFINE S == {id \in Ids(store) : OfStrategy(id)}
           Next1(v, x) == AddDocument(v, x, store.data[x].content, store.data[x].meta)
           it == CHOOSE g : g = [T \in SUBSET S |->
                     IF T = {} THEN EmptyIndex
                     ELSE Next1(g[T \ {CHOOSE x \in T : TRUE}], CHOOSE x \in T : TRUE)]
           docs == [T \in SUBSET S |-> [id \in T |-> Document(store.data[id])]]
           h == [T \in SUBSET S |-> Exact(docs[T])]
<1>1. Rebuilt = it[S]
  BY Zenon DEF Rebuilt, FoldSet, MapThenFoldSet
<1>2. IsFiniteSet(S)
  <2>1. IsFiniteSet(Ids(store))
    BY StoreIs DEF StoreInv
  <2>2. QED
    BY <2>1, FS_Subset
<1>3. ASSUME NEW T \in SUBSET S, NEW x \in T
      PROVE  Next1(h[T \ {x}], x) = h[T]
  <2> DEFINE d == docs[T \ {x}]
  <2>1. T \ {x} \in SUBSET S
    OBVIOUS
  <2>2. d = [id \in T \ {x} |-> Document(store.data[id])]
    BY <2>1
  <2>3. DOMAIN d = T \ {x}
    BY <2>2
  <2>4. IsFiniteSet(DOMAIN d)
    BY <1>2, <2>1, <2>3, FS_Subset
  <2>5. With(d, x, Document(store.data[x])) = docs[T]
    BY <2>2, <2>3 DEF With
  <2>6. h[T] = Exact(docs[T]) /\ h[T \ {x}] = Exact(d)
    OBVIOUS
  <2> HIDE DEF d, docs, h
  <2>7. Next1(Exact(d), x) = Exact(With(d, x, Document(store.data[x])))
    BY <2>4, AddExact DEF Document
  <2>8. QED
    BY <2>5, <2>6, <2>7
<1>4. h[{}] = EmptyIndex
  <2>1. docs[{}] = <<>>
    OBVIOUS
  <2>2. QED
    BY <2>1, EmptyExact
<1>5. \A T \in SUBSET S : T # {} => (CHOOSE x \in T : TRUE) \in T
  OBVIOUS
<1> HIDE DEF Next1, docs, S
<1>6. h = [T \in SUBSET S |->
               IF T = {} THEN EmptyIndex
               ELSE Next1(h[T \ {CHOOSE x \in T : TRUE}], CHOOSE x \in T : TRUE)]
  <2>1. \A T \in SUBSET S : T # {} =>
           h[T] = Next1(h[T \ {CHOOSE x \in T : TRUE}], CHOOSE x \in T : TRUE)
    BY <1>3, <1>5
  <2>2. h = [T \in SUBSET S |-> h[T]]
    OBVIOUS
  <2> HIDE DEF h
  <2>3. QED
    BY <1>4, <2>1, <2>2
<1> HIDE DEF h
<1>7. it = [T \in SUBSET S |->
               IF T = {} THEN EmptyIndex
               ELSE Next1(it[T \ {CHOOSE x \in T : TRUE}], CHOOSE x \in T : TRUE)]
  BY <1>6
<1> HIDE DEF it
<1> DEFINE P == {T \in SUBSET S : it[T] = h[T]}
<1>8. {} \in P
  BY <1>4, <1>7
<1>9. ASSUME NEW T \in SUBSET S, T # {}
      PROVE  \E x \in T : T \ {x} \in P => T \in P
  <2> DEFINE x == CHOOSE x \in T : TRUE
  <2>1. x \in T
    BY <1>5, <1>9
  <2>2. it[T] = Next1(it[T \ {x}], x)
    BY <1>7, <1>9
  <2>3. h[T] = Next1(h[T \ {x}], x)
    BY <1>6, <1>9
  <2> HIDE DEF x
  <2>4. T \ {x} \in P => T \in P
    BY <2>2, <2>3
  <2>5. QED
    BY <2>1, <2>4
<1>10. S \in P
  <2>1. P \in SUBSET SUBSET S
    OBVIOUS
  <2> HIDE DEF P
  <2>2. QED
    BY <1>2, <1>8, <1>9, <2>1, SubsetInduction
<1>11. Rebuilt = Exact(docs[S])
  BY <1>1, <1>10 DEF h
<1>12. docs[S] = [id \in S |-> Document(store.data[id])]
  BY DEF docs
<1>13. Rebuilt.documents = docs[S] /\ Held(Rebuilt) = S
  BY <1>11, <1>12 DEF Exact, Held
<1>14. QED
  BY <1>11, <1>12, <1>13 DEF S

-----------------------------------------------------------------------------
(* Types. *)

LEMMA NoCallIs == NoCall \in CallRecord /\ NoCall.step = "idle" /\ ~NoCall.awaited
  BY DEF NoCall, CallRecord

LEMMA TypesFollow == BasicInv /\ StoreInv /\ SparseInv => TypeOK
<1> SUFFICES ASSUME BasicInv, StoreInv, SparseInv PROVE TypeOK
  OBVIOUS
<1>1. Ids(store) \subseteq Source \X Nat /\ Held(sparse) \subseteq Source \X Nat
      /\ DOMAIN store.vectors \subseteq Nat
  BY StoreIs DEF StoreInv, SparseInv, ChunkId
<1>2. \A d \in Range(store.data) : d.meta \in Meta
  <2>1. store.data \in [Ids(store) -> ChunkRow(Content, Meta)]
    BY StoreIs DEF StoreInv
  <2>2. QED
    BY <2>1 DEF Range, ChunkRow
<1>3. \A d \in Range(sparse.documents) : d.meta \in Meta
  BY DEF SparseInv, Range, Docs, Held
<1>4. QED
  BY <1>1, <1>2, <1>3 DEF TypeOK, BasicInv, CallRecord, Meta

LEMMA NextBasic ==
    ASSUME BasicInv, CallInv, [Next]_vars
    PROVE  BasicInv' /\ CallInv'
<1> USE RagIndexAssumption
<1>1. ASSUME NEW c \in Call, StartIndex(c) PROVE BasicInv' /\ CallInv'
  <2>1. PICK s \in Source, v \in Version, checked \in BOOLEAN :
           calls' = [calls EXCEPT ![c] = [step |-> "embed", source |-> s, version |-> v,
                                          checked |-> checked, awaited |-> TRUE]]
    BY <1>1 DEF StartIndex
  <2>2. calls' \in [Call -> CallRecord]
    BY <2>1 DEF BasicInv, CallRecord
  <2>3. starts' \in 0..MaxStarts /\ astray' \in BOOLEAN
    BY <1>1 DEF StartIndex, BasicInv
  <2>4. CallInv'
    BY <2>1 DEF CallInv, BasicInv
  <2>5. QED
    BY <1>1, <2>2, <2>3, <2>4 DEF StartIndex, BasicInv
<1>2. ASSUME NEW c \in Call, NEW s, NEW v, SkipIndex(c, s, v) PROVE BasicInv' /\ CallInv'
  BY <1>2 DEF SkipIndex, BasicInv, CallInv
<1>3. ASSUME NEW c \in Call, Embedded(c) PROVE BasicInv' /\ CallInv'
  BY <1>3 DEF Embedded, BasicInv, CallInv, CallRecord
<1>4. ASSUME NEW c \in Call, Commit(c) PROVE BasicInv' /\ CallInv'
  <2>1. calls[c].step = "add" /\ calls[c].source \in Source
    BY <1>4 DEF Commit, CallInv
  <2>2. calls' = [calls EXCEPT ![c] = IF calls[c].awaited
                                        THEN [calls[c] EXCEPT !.step = "sparse"] ELSE NoCall]
    BY <1>4 DEF Commit
  <2>3. shrunk' \subseteq Source
    BY <1>4, <2>1 DEF Commit, BasicInv
  <2>4. calls' \in [Call -> CallRecord]
    <3>1. calls[c] \in CallRecord
      BY DEF BasicInv
    <3>2. [calls[c] EXCEPT !.step = "sparse"] \in CallRecord
      BY <3>1 DEF CallRecord
    <3>3. QED
      BY <2>2, <3>2, NoCallIs DEF BasicInv
  <2>5. CallInv'
    BY <2>1, <2>2, NoCallIs DEF CallInv, BasicInv, CallRecord
  <2>6. QED
    BY <1>4, <2>3, <2>4, <2>5 DEF Commit, BasicInv
<1>5. ASSUME NEW c \in Call, FailIndex(c) PROVE BasicInv' /\ CallInv'
  BY <1>5, NoCallIs DEF FailIndex, BasicInv, CallInv
<1>6. ASSUME NEW c \in Call, Cancel(c) PROVE BasicInv' /\ CallInv'
  <2>1. calls' = [calls EXCEPT ![c] = IF calls[c].step = "add"
                                        THEN [calls[c] EXCEPT !.awaited = FALSE] ELSE NoCall]
    BY <1>6 DEF Cancel
  <2>2. calls' \in [Call -> CallRecord]
    <3>1. calls[c] \in CallRecord
      BY DEF BasicInv
    <3>2. [calls[c] EXCEPT !.awaited = FALSE] \in CallRecord
      BY <3>1 DEF CallRecord
    <3>3. QED
      BY <2>1, <3>2, NoCallIs DEF BasicInv
  <2>3. CallInv'
    BY <2>1, NoCallIs DEF CallInv, BasicInv, CallRecord
  <2>4. QED
    BY <1>6, <2>2, <2>3 DEF Cancel, BasicInv
<1>7. ASSUME NEW c \in Call, FinishIndex(c) PROVE BasicInv' /\ CallInv'
  BY <1>7, NoCallIs DEF FinishIndex, BasicInv, CallInv
<1>8. ASSUME NEW s \in Source, Delete(s) PROVE BasicInv' /\ CallInv'
  BY <1>8 DEF Delete, Event, BasicInv, CallInv
<1>9. ASSUME Search PROVE BasicInv' /\ CallInv'
  <2>1. UNCHANGED <<store, strategy, calls, starts, shrunk>> /\ Event /\ Ensure
    BY <1>9 DEF Search
  <2>2. astray' \in BOOLEAN
    <3>1. astray' = astray \/ astray' = (astray /\ ~Quiet)
      BY <2>1 DEF Ensure
    <3>2. astray \in BOOLEAN
      BY DEF BasicInv
    <3>3. (astray /\ ~Quiet) \in BOOLEAN
      BY Zenon
    <3>4. QED
      BY <3>1, <3>2, <3>3
  <2>3. events' \in 0..MaxEvents
    BY <2>1 DEF Event, BasicInv
  <2>4. QED
    BY <2>1, <2>2, <2>3 DEF BasicInv, CallInv
<1>10. ASSUME NEW new \in Strategy, Restart(new) PROVE BasicInv' /\ CallInv'
  <2>1. calls' = [c \in Call |-> NoCall] /\ strategy' = new /\ astray' = FALSE
        /\ UNCHANGED <<store, starts, shrunk>> /\ Event
    BY <1>10 DEF Restart
  <2>2. events' \in 0..MaxEvents
    BY <2>1 DEF Event, BasicInv
  <2>3. calls' \in [Call -> CallRecord] /\ CallInv'
    BY <2>1, NoCallIs DEF CallInv
  <2>4. QED
    BY <2>1, <2>2, <2>3 DEF BasicInv
<1>11. ASSUME UNCHANGED vars PROVE BasicInv' /\ CallInv'
  BY <1>11 DEF vars, BasicInv, CallInv
<1>12. QED
  BY <1>1, <1>2, <1>3, <1>4, <1>5, <1>6, <1>7, <1>8, <1>9, <1>10, <1>11 DEF Next

(* Who writes the store, and who the sparse index. *)
LEMMA NextStore ==
    ASSUME BasicInv, CallInv, StoreInv, [Next]_vars
    PROVE  StoreInv'
<1>1. ASSUME NEW c \in Call, Commit(c) PROVE StoreInv'
  <2> DEFINE call == calls[c]
             new == NewIds(call)
  <2>1. call.source \in Source /\ call.version \in Version /\ store' = Add(store, ChunksOf(call))
    BY <1>1 DEF Commit, CallInv
  <2>2. strategy \in Strategy /\ store \in Stores(ChunkId, Content, Meta)
    BY DEF BasicInv, StoreInv
  <2> HIDE DEF call
  <2>3. MetaOf(call).source = call.source
    BY <2>1, <2>2, ChunksAre
  <2>4. /\ store' \in Stores(ChunkId, Content, Meta)
        /\ Ids(store') = Ids(store) \union new
        /\ \A i \in DOMAIN Chunks[<<call.version, strategy>>] :
              store'.data[<<call.source, i>>].meta = MetaOf(call)
        /\ \A id \in Ids(store) : id \notin new => store'.data[id] = store.data[id]
    BY <2>1, <2>2, CommitIs DEF NewIds
  <2>5. ASSUME NEW id \in Ids(store')
        PROVE  store'.data[id].meta.source = id[1]
    <3>1. CASE id \in new
      BY <2>3, <2>4, <3>1 DEF NewIds
    <3>2. CASE id \notin new
      BY <2>4, <3>2 DEF StoreInv
    <3>3. QED
      BY <3>1, <3>2
  <2>6. QED
    BY <2>4, <2>5 DEF StoreInv
<1>2. ASSUME NEW s \in Source, Delete(s) PROVE StoreInv'
  <2>1. store' = DeleteBySource(store, s)
    BY <1>2 DEF Delete
  <2>2. /\ store' \in Stores(ChunkId, Content, Meta)
        /\ Ids(store') = {id \in Ids(store) : id[1] # s}
        /\ \A id \in Ids(store') : store'.data[id] = store.data[id]
    BY <2>1, DeleteStoreIs
  <2>3. QED
    BY <2>2 DEF StoreInv
<1>3. CASE store' = store
  BY <1>3 DEF StoreInv
<1>4. QED
  BY <1>1, <1>2, <1>3
  DEF Next, StartIndex, SkipIndex, Embedded, FailIndex, Cancel, FinishIndex, Search, Restart, vars

LEMMA EmptySparse ==
    EmptyIndex = Exact(EmptyIndex.documents) /\ Held(EmptyIndex) = {} /\ EmptyIndex.documents = <<>>
  BY EmptyExact DEF EmptyIndex, Held

LEMMA NextSparse ==
    ASSUME BasicInv, CallInv, StoreInv, SparseInv, [Next]_vars
    PROVE  SparseInv'
<1>1. ASSUME NEW c \in Call, FinishIndex(c) PROVE SparseInv'
  <2>1. calls[c].source \in Source /\ calls[c].version \in Version
        /\ sparse' = AddChunks(sparse, ChunksOf(calls[c]))
    BY <1>1 DEF FinishIndex, CallInv
  <2>2. strategy \in Strategy
    BY DEF BasicInv
  <2>3. PICK index : index = AddChunks(sparse, ChunksOf(calls[c]))
    OBVIOUS
  <2>4. /\ index = Exact(index.documents)
        /\ index.documents \in [Held(index) -> Docs]
        /\ Held(index) \subseteq ChunkId /\ IsFiniteSet(Held(index))
        /\ Sourced(index)
    <3>1. index = Exact(index.documents) /\ Held(index) \subseteq ChunkId
      BY <2>1, <2>2, <2>3, FinishIs
    <3>2. index.documents \in [Held(index) -> Docs] /\ IsFiniteSet(Held(index))
      BY <2>1, <2>2, <2>3, FinishIs
    <3>3. Sourced(index)
      BY <2>1, <2>2, <2>3, FinishIs
    <3>4. QED
      BY <3>1, <3>2, <3>3
  <2>5. sparse' = index
    BY <2>1, <2>3
  <2>6. QED
    BY <2>4, <2>5 DEF SparseInv
<1>2. ASSUME NEW s \in Source, Delete(s) PROVE SparseInv'
  <2>1. PICK index : index = DeleteAll(sparse, OfSource(sparse, s))
    OBVIOUS
  <2>2. /\ index = Exact(index.documents)
        /\ Held(index) = {id \in Held(sparse) : id[1] # s}
        /\ \A id \in Held(index) : index.documents[id] = sparse.documents[id]
        /\ index.documents = [id \in Held(index) |-> sparse.documents[id]]
    <3>1. index = Exact(index.documents)
      BY <2>1, DeleteSparseIs
    <3>2. Held(index) = {id \in Held(sparse) : id[1] # s}
      BY <2>1, DeleteSparseIs
    <3>3. index.documents = [id \in Held(index) |-> sparse.documents[id]]
      BY <2>1, DeleteSparseIs
    <3>4. \A id \in Held(index) : index.documents[id] = sparse.documents[id]
      BY <3>3
    <3>5. QED
      BY <3>1, <3>2, <3>3, <3>4
  <2>3. Held(index) \subseteq Held(sparse) /\ IsFiniteSet(Held(index))
    BY <2>2, FS_Subset DEF SparseInv
  <2>4. index.documents \in [Held(index) -> Docs]
    BY <2>2, <2>3 DEF SparseInv
  <2>5. sparse' = index
    BY <1>2, <2>1 DEF Delete, OfSource
  <2>6. QED
    BY <2>2, <2>3, <2>4, <2>5 DEF SparseInv, Sourced
<1>3. ASSUME sparse' = Rebuilt PROVE SparseInv'
  <2>1. /\ Rebuilt = Exact(Rebuilt.documents)
        /\ Held(Rebuilt) = {id \in Ids(store) : OfStrategy(id)}
        /\ \A id \in Held(Rebuilt) : Rebuilt.documents[id] = Document(store.data[id])
        /\ Rebuilt.documents = [id \in Held(Rebuilt) |-> Rebuilt.documents[id]]
    BY RebuiltIs
  <2>2. Ids(store) \subseteq ChunkId /\ IsFiniteSet(Ids(store))
        /\ store.data \in [Ids(store) -> ChunkRow(Content, Meta)]
    BY StoreIs DEF StoreInv
  <2>3. Held(Rebuilt) \subseteq Ids(store) /\ IsFiniteSet(Held(Rebuilt))
    BY <2>1, <2>2, FS_Subset
  <2>4. ASSUME NEW id \in Held(Rebuilt)
        PROVE  Rebuilt.documents[id] \in Docs /\ Rebuilt.documents[id].meta.source = id[1]
    <3>1. id \in Ids(store) /\ Rebuilt.documents[id] = Document(store.data[id])
      BY <2>1, <2>3
    <3>2. store.data[id] \in ChunkRow(Content, Meta) /\ store.data[id].meta.source = id[1]
      BY <2>2, <3>1 DEF StoreInv
    <3>3. QED
      BY <3>1, <3>2 DEF Document, Docs, ChunkRow
  <2>5. PICK index : index = Rebuilt
    OBVIOUS
  <2>6. index.documents \in [Held(index) -> Docs]
    BY <2>1, <2>4, <2>5
  <2>7. QED
    BY <1>3, <2>1, <2>2, <2>3, <2>4, <2>5, <2>6 DEF SparseInv, Sourced
<1>4. ASSUME sparse' = EmptyIndex PROVE SparseInv'
  BY <1>4, EmptySparse, FS_EmptySet DEF SparseInv, Sourced
<1>5. CASE sparse' = sparse
  BY <1>5 DEF SparseInv
<1>6. QED
  BY <1>1, <1>2, <1>3, <1>4, <1>5
  DEF Next, StartIndex, SkipIndex, Embedded, Commit, FailIndex, Cancel, Search, Ensure, Restart, vars

-----------------------------------------------------------------------------
(* Versions. *)

LEMMA RowsAre == ASSUME StoreInv, NEW s PROVE RowsOf(s) = {id \in Ids(store) : id[1] = s}
  BY DEF RowsOf, StoreInv

(* A source whose rows a step leaves alone keeps its version. *)
LEMMA VersionKept ==
    ASSUME NEW s, RowsOf(s)' = RowsOf(s), \A id \in RowsOf(s) : store'.data[id] = store.data[id],
           RowsOf(s) = {} \/ \E v \in Version, st \in Strategy : OneVersion(s, v, st)
    PROVE  RowsOf(s)' = {} \/ \E v \in Version, st \in Strategy : OneVersion(s, v, st)'
<1>1. CASE RowsOf(s) = {}
  BY <1>1
<1>2. ASSUME NEW v \in Version, NEW st \in Strategy, OneVersion(s, v, st)
      PROVE  OneVersion(s, v, st)'
  <2>1. HoldsVersion(s, v, st)
    BY <1>2 DEF OneVersion
  <2>2. \A i \in DOMAIN Chunks[<<v, st>>] : <<s, i>> \in RowsOf(s)
    BY <2>1 DEF HoldsVersion
  <2>3. HoldsVersion(s, v, st)'
    <3>1. RowsOf(s)' = {<<s, i>> : i \in DOMAIN Chunks[<<v, st>>]}
      BY <2>1 DEF HoldsVersion
    <3>2. \A i \in DOMAIN Chunks[<<v, st>>] : store'.data[<<s, i>>].content = Chunks[<<v, st>>][i]
      BY <2>1, <2>2 DEF HoldsVersion
    <3>3. QED
      BY <3>1, <3>2 DEF HoldsVersion
  <2>4. QED
    BY <1>2, <2>3 DEF OneVersion
<1>3. QED
  BY <1>1, <1>2

LEMMA NextVersion ==
    ASSUME BasicInv, CallInv, StoreInv, StoreInv', VersionInv, [Next]_vars
    PROVE  VersionInv'
<1>1. ASSUME NEW c \in Call, Commit(c) PROVE VersionInv'
  <2>0. PICK call : call = calls[c]
    OBVIOUS
  <2> DEFINE made == Chunks[<<call.version, strategy>>]
             new == {<<call.source, i>> : i \in DOMAIN made}
             old == {id \in Ids(store) : store.data[id].meta.source = call.source}
  <2>1. /\ call.source \in Source /\ call.version \in Version /\ call.checked \in BOOLEAN
        /\ strategy \in Strategy /\ store \in Stores(ChunkId, Content, Meta)
    BY <1>1, <2>0 DEF Commit, CallInv, BasicInv, CallRecord, StoreInv
  <2>2. /\ store' = Add(store, ChunksOf(call))
        /\ shrunk' = IF old \subseteq new THEN shrunk \ {call.source} ELSE shrunk \union {call.source}
    BY <1>1, <2>0 DEF Commit
  <2>3. PICK db : db = Add(store, ChunksOf(call))
    OBVIOUS
  <2>4. Ids(db) = Ids(store) \union new
    BY <2>1, <2>3, CommitIs
  <2>5. \A i \in DOMAIN made : /\ db.data[<<call.source, i>>].content = made[i]
                               /\ db.data[<<call.source, i>>].meta = MetaOf(call)
    BY <2>1, <2>3, CommitIs
  <2>6. \A id \in Ids(store) : id \notin new => db.data[id] = store.data[id]
    BY <2>1, <2>3, CommitIs
  <2>7. store' = db
    BY <2>2, <2>3
  <2>8. ASSUME NEW s \in Source \ shrunk', s # call.source
        PROVE  RowsOf(s)' = {} \/ \E v \in Version, st \in Strategy : OneVersion(s, v, st)'
    <3>1. s \in Source \ shrunk
      BY <2>2, <2>8
    <3>2. \A id \in new : id[1] # s
      BY <2>8
    <3>3. RowsOf(s)' = RowsOf(s)
      <4>1. RowsOf(s) = {id \in Ids(store) : id[1] = s}
        BY RowsAre
      <4>2. RowsOf(s)' = {id \in Ids(db) : id[1] = s}
        BY <2>7 DEF RowsOf, StoreInv
      <4>3. QED
        BY <2>4, <3>2, <4>1, <4>2
    <3>4. \A id \in RowsOf(s) : store'.data[id] = store.data[id]
      <4>1. \A id \in RowsOf(s) : id \in Ids(store) /\ id[1] = s
        BY RowsAre
      <4>2. QED
        BY <2>6, <2>7, <3>2, <4>1
    <3>5. RowsOf(s) = {} \/ \E v \in Version, st \in Strategy : OneVersion(s, v, st)
      BY <3>1 DEF VersionInv
    <3>6. QED
      BY <3>3, <3>4, <3>5, VersionKept
  <2>9. ASSUME call.source \notin shrunk'
        PROVE  OneVersion(call.source, call.version, strategy)'
    <3> DEFINE s == call.source
    <3>1. old \subseteq new
      BY <2>2, <2>9
    <3>2. RowsOf(s)' = new
      <4>1. RowsOf(s)' = {id \in Ids(db) : db.data[id].meta.source = s}
        BY <2>7 DEF RowsOf
      <4>2. \A id \in new : id \in Ids(db) /\ db.data[id].meta.source = s
        BY <2>4, <2>5 DEF MetaOf
      <4>3. \A id \in Ids(db) : db.data[id].meta.source = s => id \in new
        BY <2>4, <2>6, <3>1
      <4>4. QED
        BY <4>1, <4>2, <4>3
    <3>3. HoldsVersion(s, call.version, strategy)'
      BY <2>5, <2>7, <3>2, <1>1 DEF HoldsVersion, Commit
    <3>4. \A id \in new : store'.data[id].meta = MetaOf(call)
      BY <2>5, <2>7
    <3>5. \/ MetaOf(call) = [source |-> s, checksum |-> call.version, strategy |-> strategy]
          \/ MetaOf(call) = [source |-> s, checksum |-> None, strategy |-> None]
      BY <2>1 DEF MetaOf
    <3>6. strategy' = strategy
      BY <1>1 DEF Commit
    <3>7. QED
      BY <3>2, <3>3, <3>4, <3>5, <3>6 DEF OneVersion
  <2>10. ASSUME NEW s \in Source \ shrunk'
         PROVE  RowsOf(s)' = {} \/ \E v \in Version, st \in Strategy : OneVersion(s, v, st)'
    <3>1. CASE s # call.source
      BY <2>8, <3>1
    <3>2. CASE s = call.source
      <4>1. PICK st \in Strategy : st = strategy
        BY <2>1
      <4>2. OneVersion(s, call.version, st)'
        BY <2>9, <3>2, <4>1, <1>1 DEF Commit, OneVersion, HoldsVersion
      <4>3. QED
        BY <2>1, <4>1, <4>2
    <3>3. QED
      BY <3>1, <3>2
  <2>11. QED
    BY <2>10 DEF VersionInv
<1>2. ASSUME NEW s0 \in Source, Delete(s0) PROVE VersionInv'
  <2>1. PICK db : db = DeleteBySource(store, s0)
    OBVIOUS
  <2>2. Ids(db) = {id \in Ids(store) : id[1] # s0} /\ \A id \in Ids(db) : db.data[id] = store.data[id]
    BY <2>1, DeleteStoreIs
  <2>3. store' = db /\ shrunk' = shrunk \ {s0}
    BY <1>2, <2>1 DEF Delete
  <2>4. \A s : RowsOf(s)' = {id \in Ids(db) : id[1] = s}
    BY <2>3 DEF RowsOf, StoreInv
  <2>5. RowsOf(s0)' = {}
    BY <2>2, <2>4
  <2>6. ASSUME NEW s \in Source \ shrunk', s # s0
        PROVE  RowsOf(s)' = {} \/ \E v \in Version, st \in Strategy : OneVersion(s, v, st)'
    <3>1. RowsOf(s) = {} \/ \E v \in Version, st \in Strategy : OneVersion(s, v, st)
      BY <2>3, <2>6 DEF VersionInv
    <3>2. RowsOf(s) = {id \in Ids(store) : id[1] = s}
      BY RowsAre
    <3>3. RowsOf(s)' = RowsOf(s)
      BY <2>2, <2>4, <2>6, <3>2
    <3>4. \A id \in RowsOf(s) : store'.data[id] = store.data[id]
      BY <2>2, <2>3, <2>6, <3>2
    <3>5. QED
      BY <3>1, <3>3, <3>4, VersionKept
  <2>7. QED
    BY <2>5, <2>6 DEF VersionInv
<1>3. CASE UNCHANGED <<store, shrunk>>
  <2> SUFFICES ASSUME NEW s \in Source \ shrunk
               PROVE  RowsOf(s)' = {} \/ \E v \in Version, st \in Strategy : OneVersion(s, v, st)'
    BY <1>3 DEF VersionInv
  <2>1. RowsOf(s)' = RowsOf(s)
    BY <1>3 DEF RowsOf
  <2>2. RowsOf(s) = {} \/ \E v \in Version, st \in Strategy : OneVersion(s, v, st)
    BY DEF VersionInv
  <2>3. \A id \in RowsOf(s) : store'.data[id] = store.data[id]
    BY <1>3
  <2>4. QED
    BY <2>1, <2>2, <2>3, VersionKept
<1>4. QED
  BY <1>1, <1>2, <1>3
  DEF Next, StartIndex, SkipIndex, Embedded, FailIndex, Cancel, FinishIndex, Search, Restart, vars

-----------------------------------------------------------------------------
(* Agreement of the two indexes. *)

(* The calls that have committed are the same, and so is what they wrote to. *)
LEMMA ArrivalsKept ==
    ASSUME CallInv, UNCHANGED <<store, sparse, strategy>>,
           \A c \in Call : calls[c].step = "sparse" => calls'[c] = calls[c],
           \A c \in Call : calls'[c].step = "sparse" => calls'[c] = calls[c],
           ArrivedInv, MatchInv
    PROVE  ArrivedInv' /\ MatchInv'
<1>1. ArrivedInv'
  BY DEF ArrivedInv, MetaOf
<1>2. \A id : Arriving(id) => Arriving(id)'
  BY DEF Arriving, NewIds
<1>3. MatchInv'
  <2> SUFFICES ASSUME NEW id \in Held(sparse')
               PROVE  /\ id \in Ids(store')
                      /\ ~Arriving(id)' => /\ sparse'.documents[id] = Document(store'.data[id])
                                           /\ OfStrategy(id)'
    BY DEF MatchInv
  <2>1. id \in Held(sparse)
    OBVIOUS
  <2>2. id \in Ids(store)
    BY <2>1 DEF MatchInv
  <2>3. ~Arriving(id) => sparse.documents[id] = Document(store.data[id]) /\ OfStrategy(id)
    BY <2>1 DEF MatchInv
  <2>4. QED
    BY <1>2, <2>2, <2>3 DEF OfStrategy
<1>4. QED
  BY <1>1, <1>3

LEMMA CommitAgrees ==
    ASSUME BasicInv, CallInv, StoreInv, AgreeInv, ~astray', NEW c \in Call, Commit(c)
    PROVE  AloneInv' /\ ArrivedInv' /\ MatchInv'
<1> DEFINE call == calls[c]
           made == Chunks[<<call.version, strategy>>]
           new == {<<call.source, i>> : i \in DOMAIN made}
<1>1. AloneInv /\ ArrivedInv /\ MatchInv
  BY DEF Commit, AgreeInv
<1>2. calls[c].step = "add" /\ calls[c].awaited
  BY <1>1 DEF Commit, AloneInv
<1>3. calls' = [calls EXCEPT ![c] = [calls[c] EXCEPT !.step = "sparse"]]
      /\ UNCHANGED <<sparse, strategy>>
  BY <1>2 DEF Commit
<1>4. calls \in [Call -> CallRecord] /\ strategy \in Strategy
  BY DEF BasicInv
<1>5. /\ calls'[c].step = "sparse" /\ calls'[c].source = call.source
      /\ calls'[c].version = call.version /\ calls'[c].checked = call.checked
      /\ calls'[c].awaited = call.awaited
      /\ \A d \in Call : d # c => calls'[d] = calls[d]
  BY <1>3, <1>4 DEF CallRecord
<1>6. AloneInv'
  <2>1. \A d \in Call : calls'[d].source = calls[d].source /\ calls'[d].awaited = calls[d].awaited
                        /\ (calls'[d].step # "idle" <=> calls[d].step # "idle")
    BY <1>2, <1>5
  <2>2. QED
    BY <1>1, <2>1 DEF AloneInv
<1>7. /\ call.source \in Source /\ call.version \in Version
      /\ store \in Stores(ChunkId, Content, Meta) /\ store' = Add(store, ChunksOf(call))
  BY DEF Commit, CallInv, StoreInv
<1>8. MetaOf(calls[c])' = MetaOf(call)
  BY <1>3, <1>5 DEF MetaOf
<1>9. \A d \in Call : d # c /\ calls[d].step = "sparse" => calls[d].source # call.source
  BY <1>1, <1>2 DEF AloneInv
<1> HIDE DEF call
<1>10. PICK db : db = Add(store, ChunksOf(call))
  OBVIOUS
<1>11. Ids(db) = Ids(store) \union new
  BY <1>4, <1>7, <1>10, CommitIs
<1>12. \A i \in DOMAIN made : /\ db.data[<<call.source, i>>].content = made[i]
                              /\ db.data[<<call.source, i>>].meta = MetaOf(call)
  BY <1>4, <1>7, <1>10, CommitIs
<1>13. \A id \in Ids(store) : id \notin new => db.data[id] = store.data[id]
  BY <1>4, <1>7, <1>10, CommitIs
<1>14. store' = db
  BY <1>7, <1>10
<1>15. ArrivedInv'
  <2> SUFFICES ASSUME NEW d \in Call, calls'[d].step = "sparse",
                      NEW i \in DOMAIN Chunks[<<calls'[d].version, strategy'>>]
               PROVE  /\ <<calls'[d].source, i>> \in Ids(db)
                      /\ db.data[<<calls'[d].source, i>>].content
                            = Chunks[<<calls'[d].version, strategy'>>][i]
                      /\ db.data[<<calls'[d].source, i>>].meta = MetaOf(calls[d])'
    BY <1>14 DEF ArrivedInv
  <2>1. CASE d = c
    BY <1>3, <1>5, <1>8, <1>11, <1>12, <2>1
  <2>2. CASE d # c
    <3>1. calls'[d] = calls[d] /\ calls[d].step = "sparse" /\ strategy' = strategy
          /\ calls[d].source # call.source /\ i \in DOMAIN Chunks[<<calls[d].version, strategy>>]
      BY <1>3, <1>5, <1>9, <2>2
    <3>2. /\ <<calls[d].source, i>> \in Ids(store)
          /\ store.data[<<calls[d].source, i>>].content = Chunks[<<calls[d].version, strategy>>][i]
          /\ store.data[<<calls[d].source, i>>].meta = MetaOf(calls[d])
      BY <1>1, <3>1 DEF ArrivedInv
    <3>3. <<calls[d].source, i>> \notin new
      BY <3>1
    <3>4. <<calls[d].source, i>> \in Ids(db)
          /\ db.data[<<calls[d].source, i>>] = store.data[<<calls[d].source, i>>]
      BY <1>11, <1>13, <3>2, <3>3
    <3>5. MetaOf(calls[d])' = MetaOf(calls[d])
      BY <3>1 DEF MetaOf
    <3>6. QED
      BY <3>1, <3>2, <3>4, <3>5
  <2>3. QED
    BY <2>1, <2>2
<1>16. ASSUME NEW id, ~Arriving(id)'
       PROVE  ~Arriving(id) /\ id \notin new
  <2>1. \A d \in Call : calls'[d].step = "sparse" => id \notin NewIds(calls[d])'
    BY <1>16 DEF Arriving
  <2>2. id \notin new
    BY <1>3, <1>5, <2>1 DEF NewIds
  <2>3. ASSUME NEW d \in Call, calls[d].step = "sparse"
        PROVE  id \notin NewIds(calls[d])
    <3>1. d # c
      BY <1>2, <2>3
    <3>2. calls'[d] = calls[d] /\ strategy' = strategy
      BY <1>3, <1>5, <3>1
    <3>3. QED
      BY <2>1, <2>3, <3>2 DEF NewIds
  <2>4. QED
    BY <2>2, <2>3 DEF Arriving
<1>17. MatchInv'
  <2> SUFFICES ASSUME NEW id \in Held(sparse')
               PROVE  /\ id \in Ids(store')
                      /\ ~Arriving(id)' => /\ sparse'.documents[id] = Document(store'.data[id])
                                           /\ OfStrategy(id)'
    BY DEF MatchInv
  <2>1. id \in Held(sparse) /\ id \in Ids(store)
    BY <1>1, <1>3 DEF MatchInv
  <2>2. ASSUME ~Arriving(id)'
        PROVE  sparse'.documents[id] = Document(store'.data[id]) /\ OfStrategy(id)'
    <3>1. ~Arriving(id) /\ id \notin new
      BY <1>16, <2>2
    <3>2. sparse.documents[id] = Document(store.data[id]) /\ OfStrategy(id)
      BY <1>1, <2>1, <3>1 DEF MatchInv
    <3>3. store'.data[id] = store.data[id]
      BY <1>13, <1>14, <2>1, <3>1
    <3>4. QED
      BY <1>3, <3>2, <3>3 DEF OfStrategy
  <2>3. QED
    BY <1>11, <1>14, <2>1, <2>2
<1>18. QED
  BY <1>6, <1>15, <1>17

LEMMA FinishAgrees ==
    ASSUME BasicInv, CallInv, StoreInv, SparseInv, AgreeInv, ~astray', NEW c \in Call, FinishIndex(c)
    PROVE  AloneInv' /\ ArrivedInv' /\ MatchInv'
<1> DEFINE call == calls[c]
           made == Chunks[<<call.version, strategy>>]
           new == {<<call.source, i>> : i \in DOMAIN made}
<1>1. AloneInv /\ ArrivedInv /\ MatchInv
  BY DEF FinishIndex, AgreeInv
<1>2. /\ call.step = "sparse" /\ call.source \in Source /\ call.version \in Version
      /\ sparse' = AddChunks(sparse, ChunksOf(call))
      /\ calls' = [calls EXCEPT ![c] = NoCall] /\ UNCHANGED <<store, strategy>>
  BY DEF FinishIndex, CallInv
<1>3. strategy \in Strategy /\ calls \in [Call -> CallRecord]
  BY DEF BasicInv
<1>4. calls'[c].step = "idle" /\ \A d \in Call : d # c => calls'[d] = calls[d]
  BY <1>2, <1>3, NoCallIs
<1>5. AloneInv'
  BY <1>1, <1>4 DEF AloneInv
<1>6. ArrivedInv'
  <2> SUFFICES ASSUME NEW d \in Call, calls'[d].step = "sparse",
                      NEW i \in DOMAIN Chunks[<<calls'[d].version, strategy'>>]
               PROVE  /\ <<calls'[d].source, i>> \in Ids(store')
                      /\ store'.data[<<calls'[d].source, i>>].content
                            = Chunks[<<calls'[d].version, strategy'>>][i]
                      /\ store'.data[<<calls'[d].source, i>>].meta = MetaOf(calls[d])'
    BY DEF ArrivedInv
  <2>1. d # c
    BY <1>4
  <2>2. calls'[d] = calls[d] /\ calls[d].step = "sparse" /\ strategy' = strategy /\ store' = store
    BY <1>2, <1>4, <2>1
  <2>3. MetaOf(calls[d])' = MetaOf(calls[d])
    BY <2>2 DEF MetaOf
  <2>4. i \in DOMAIN Chunks[<<calls[d].version, strategy>>]
    BY <2>2
  <2>5. /\ <<calls[d].source, i>> \in Ids(store)
        /\ store.data[<<calls[d].source, i>>].content = Chunks[<<calls[d].version, strategy>>][i]
        /\ store.data[<<calls[d].source, i>>].meta = MetaOf(calls[d])
    BY <1>1, <2>2, <2>4 DEF ArrivedInv
  <2>6. QED
    BY <2>2, <2>3, <2>5
<1>7. \A i \in DOMAIN made :
         /\ <<call.source, i>> \in Ids(store)
         /\ store.data[<<call.source, i>>].content = made[i]
         /\ store.data[<<call.source, i>>].meta = MetaOf(call)
  BY <1>1, <1>2 DEF ArrivedInv
<1> HIDE DEF call
<1>8. PICK index : index = AddChunks(sparse, ChunksOf(call))
  OBVIOUS
<1>9. Held(index) = Held(sparse) \union new
  BY <1>2, <1>3, <1>8, FinishIs
<1>10. Placed(index, call)
  BY <1>2, <1>3, <1>8, FinishIs
<1>11. \A id \in Held(sparse) : id \notin new => index.documents[id] = sparse.documents[id]
  BY <1>2, <1>3, <1>8, FinishIs
<1>12. /\ DOMAIN ChunksOf(call) = DOMAIN made
       /\ \A i \in DOMAIN made : ChunksOf(call)[i].content = made[i]
                                 /\ ChunksOf(call)[i].meta = MetaOf(call)
  BY <1>2, <1>3, ChunksAre
<1>13. sparse' = index
  BY <1>2, <1>8
<1>14. MatchInv'
  <2> SUFFICES ASSUME NEW id \in Held(index)
               PROVE  /\ id \in Ids(store')
                      /\ ~Arriving(id)' => /\ index.documents[id] = Document(store'.data[id])
                                           /\ OfStrategy(id)'
    BY <1>13 DEF MatchInv
  <2>1. ASSUME NEW i \in DOMAIN made, id = <<call.source, i>>
        PROVE  /\ id \in Ids(store)
               /\ index.documents[id] = Document(store.data[id]) /\ OfStrategy(id)
    <3>1. id \in Ids(store) /\ store.data[id].content = made[i] /\ store.data[id].meta = MetaOf(call)
      BY <1>7, <2>1
    <3>2. index.documents[id] = Document(ChunksOf(call)[i])
      BY <1>10, <1>12, <2>1 DEF Placed
    <3>3. OfStrategy(id)
      BY <3>1 DEF OfStrategy, MetaOf
    <3>4. QED
      BY <1>12, <3>1, <3>2, <3>3 DEF Document
  <2>2. ASSUME id \notin new
        PROVE  /\ id \in Ids(store)
               /\ ~Arriving(id)' => index.documents[id] = Document(store.data[id]) /\ OfStrategy(id)
    <3>1. id \in Held(sparse) /\ index.documents[id] = sparse.documents[id]
      BY <1>9, <1>11, <2>2
    <3>2. ASSUME Arriving(id) PROVE Arriving(id)'
      <4>1. PICK d \in Call : calls[d].step = "sparse" /\ id \in NewIds(calls[d])
        BY <3>2 DEF Arriving
      <4>2. d # c
        BY <2>2, <4>1 DEF NewIds, call
      <4>3. calls'[d] = calls[d] /\ strategy' = strategy
        BY <1>2, <1>4, <4>2
      <4>4. calls'[d].step = "sparse" /\ id \in NewIds(calls[d])'
        BY <4>1, <4>3 DEF NewIds
      <4>5. QED
        BY <4>4 DEF Arriving
    <3>3. QED
      BY <1>1, <3>1, <3>2 DEF MatchInv
  <2>3. (OfStrategy(id) => OfStrategy(id)') /\ store' = store
    BY <1>2 DEF OfStrategy
  <2>4. QED
    BY <2>1, <2>2, <2>3
<1>15. QED
  BY <1>5, <1>6, <1>14

LEMMA DeleteAgrees ==
    ASSUME BasicInv, CallInv, StoreInv, SparseInv, AgreeInv, ~astray', NEW s \in Source, Delete(s)
    PROVE  AloneInv' /\ ArrivedInv' /\ MatchInv'
<1>1. AloneInv /\ ArrivedInv /\ MatchInv
  BY DEF Delete, AgreeInv
<1>2. calls' = calls /\ strategy' = strategy /\ Active(s) = {}
  BY DEF Delete
<1>3. \A c \in Call : calls[c].step = "sparse" => calls[c].source # s
  BY <1>2 DEF Active
<1>4. PICK db : db = DeleteBySource(store, s)
  OBVIOUS
<1>5. Ids(db) = {id \in Ids(store) : id[1] # s} /\ \A id \in Ids(db) : db.data[id] = store.data[id]
  BY <1>4, DeleteStoreIs
<1>6. PICK index : index = DeleteAll(sparse, OfSource(sparse, s))
  OBVIOUS
<1>7. Held(index) = {id \in Held(sparse) : id[1] # s}
  BY <1>6, DeleteSparseIs
<1>8. \A id \in Held(index) : index.documents[id] = sparse.documents[id]
  <2>1. index.documents = [id \in Held(index) |-> sparse.documents[id]]
    BY <1>6, DeleteSparseIs
  <2>2. QED
    BY <2>1
<1>9. store' = db /\ sparse' = index
  BY <1>4, <1>6 DEF Delete, OfSource
<1>10. AloneInv'
  BY <1>1, <1>2 DEF AloneInv
<1>11. ArrivedInv'
  <2> SUFFICES ASSUME NEW c \in Call, calls[c].step = "sparse",
                      NEW i \in DOMAIN Chunks[<<calls[c].version, strategy>>]
               PROVE  /\ <<calls[c].source, i>> \in Ids(db)
                      /\ db.data[<<calls[c].source, i>>].content
                            = Chunks[<<calls[c].version, strategy>>][i]
                      /\ db.data[<<calls[c].source, i>>].meta = MetaOf(calls[c])
    BY <1>2, <1>9 DEF ArrivedInv, MetaOf
  <2>1. /\ <<calls[c].source, i>> \in Ids(store)
        /\ store.data[<<calls[c].source, i>>].content = Chunks[<<calls[c].version, strategy>>][i]
        /\ store.data[<<calls[c].source, i>>].meta = MetaOf(calls[c])
    BY <1>1 DEF ArrivedInv
  <2>2. <<calls[c].source, i>> \in Ids(db)
    BY <1>3, <1>5, <2>1
  <2>3. QED
    BY <1>5, <2>1, <2>2
<1>12. MatchInv'
  <2> SUFFICES ASSUME NEW id \in Held(index)
               PROVE  /\ id \in Ids(db)
                      /\ ~Arriving(id) => /\ index.documents[id] = Document(db.data[id])
                                          /\ OfStrategy(id)'
    BY <1>2, <1>9 DEF MatchInv, Arriving, NewIds
  <2>1. id \in Held(sparse) /\ id[1] # s
    BY <1>7
  <2>2. id \in Ids(db) /\ db.data[id] = store.data[id]
    BY <1>1, <1>5, <2>1 DEF MatchInv
  <2>3. OfStrategy(id) => OfStrategy(id)'
    BY <1>2, <1>9, <2>2 DEF OfStrategy
  <2>4. QED
    BY <1>1, <1>8, <2>1, <2>2, <2>3 DEF MatchInv
<1>13. QED
  BY <1>10, <1>11, <1>12

LEMMA SearchAgrees ==
    ASSUME CallInv, StoreInv, AgreeInv, ~astray', Search
    PROVE  AloneInv' /\ ArrivedInv' /\ MatchInv'
<1>1. UNCHANGED <<store, strategy, calls>>
  BY DEF Search
<1>2. ~astray \/ Quiet
  BY DEF Search, Ensure
<1>3. AloneInv /\ ArrivedInv
  BY <1>2 DEF AgreeInv, Quiet, AloneInv, ArrivedInv
<1>4. AloneInv' /\ ArrivedInv'
  BY <1>1, <1>3 DEF AloneInv, ArrivedInv, MetaOf
<1>5. CASE sparse' = sparse /\ ~astray
  BY <1>1, <1>4, <1>5, ArrivalsKept DEF AgreeInv
<1>6. CASE sparse' = Rebuilt
  <2>1. PICK index : index = Rebuilt
    OBVIOUS
  <2>2. Held(index) = {id \in Ids(store) : OfStrategy(id)}
    BY <2>1, RebuiltIs
  <2>3. \A id \in Held(index) : index.documents[id] = Document(store.data[id])
    BY <2>1, RebuiltIs
  <2>4. sparse' = index
    BY <1>6, <2>1
  <2>5. MatchInv'
    BY <1>1, <2>2, <2>3, <2>4 DEF MatchInv, OfStrategy
  <2>6. QED
    BY <1>4, <2>5
<1>7. CASE sparse' = EmptyIndex
  BY <1>4, <1>7, EmptySparse DEF MatchInv
<1>8. QED
  BY <1>4, <1>5, <1>6, <1>7 DEF Search, Ensure

LEMMA NextAgree ==
    ASSUME BasicInv, CallInv, StoreInv, SparseInv, AgreeInv, [Next]_vars
    PROVE  AgreeInv'
<1> SUFFICES ASSUME ~astray' PROVE AloneInv' /\ ArrivedInv' /\ MatchInv'
  BY DEF AgreeInv
<1>1. ASSUME NEW c \in Call, StartIndex(c) PROVE AloneInv' /\ ArrivedInv' /\ MatchInv'
  <2>1. PICK s \in Source, v \in Version, checked \in BOOLEAN :
           /\ calls' = [calls EXCEPT ![c] = [step |-> "embed", source |-> s, version |-> v,
                                             checked |-> checked, awaited |-> TRUE]]
           /\ ~astray /\ Active(s) = {}
    BY <1>1 DEF StartIndex
  <2>2. AloneInv /\ ArrivedInv /\ MatchInv
    BY <2>1 DEF AgreeInv
  <2>3. calls'[c].step = "embed" /\ calls'[c].source = s /\ calls'[c].awaited
        /\ \A d \in Call : d # c => calls'[d] = calls[d]
    BY <2>1 DEF BasicInv
  <2>4. \A d \in Call : calls[d].step # "idle" => calls[d].source # s
    BY <2>1 DEF Active
  <2>5. AloneInv'
    BY <2>2, <2>3, <2>4 DEF AloneInv
  <2>6. \A d \in Call : /\ calls[d].step = "sparse" => calls'[d] = calls[d]
                        /\ calls'[d].step = "sparse" => calls'[d] = calls[d]
    BY <1>1, <2>3 DEF StartIndex
  <2>7. ArrivedInv' /\ MatchInv'
    BY <1>1, <2>2, <2>6, ArrivalsKept DEF StartIndex
  <2>8. QED
    BY <2>5, <2>7
<1>2. ASSUME NEW c \in Call, UNCHANGED <<store, sparse, strategy>>, ~astray,
             calls[c].step \in {"embed", "add"},
             \A d \in Call : d # c => calls'[d] = calls[d],
             \/ calls'[c].step = "idle"
             \/ /\ calls'[c].step = "add" /\ calls'[c].awaited = calls[c].awaited
                /\ calls'[c].source = calls[c].source
      PROVE  AloneInv' /\ ArrivedInv' /\ MatchInv'
  <2>1. AloneInv /\ ArrivedInv /\ MatchInv
    BY <1>2 DEF AgreeInv
  <2>2. AloneInv'
    BY <1>2, <2>1 DEF AloneInv
  <2>3. \A d \in Call : /\ calls[d].step = "sparse" => calls'[d] = calls[d]
                        /\ calls'[d].step = "sparse" => calls'[d] = calls[d]
    BY <1>2
  <2>4. QED
    BY <1>2, <2>1, <2>2, <2>3, ArrivalsKept
<1>3. ASSUME NEW c \in Call, Embedded(c) PROVE AloneInv' /\ ArrivedInv' /\ MatchInv'
  <2>1. /\ calls' = [calls EXCEPT ![c].step = "add"] /\ UNCHANGED <<store, sparse, strategy>>
        /\ ~astray /\ calls[c].step = "embed"
    BY <1>3 DEF Embedded
  <2>2. /\ calls'[c].step = "add" /\ calls'[c].awaited = calls[c].awaited
        /\ calls'[c].source = calls[c].source
        /\ \A d \in Call : d # c => calls'[d] = calls[d]
    BY <2>1 DEF BasicInv, CallRecord
  <2>3. QED
    BY <1>2, <2>1, <2>2
<1>4. ASSUME NEW c \in Call, FailIndex(c) PROVE AloneInv' /\ ArrivedInv' /\ MatchInv'
  <2>1. /\ UNCHANGED <<store, sparse, strategy>> /\ ~astray /\ calls[c].step \in {"embed", "add"}
        /\ calls' = [calls EXCEPT ![c] = NoCall]
    BY <1>4 DEF FailIndex
  <2>2. calls'[c].step = "idle" /\ \A d \in Call : d # c => calls'[d] = calls[d]
    BY <2>1, NoCallIs DEF BasicInv
  <2>3. QED
    BY <1>2, <2>1, <2>2
<1>5. ASSUME NEW c \in Call, Cancel(c) PROVE AloneInv' /\ ArrivedInv' /\ MatchInv'
  <2>1. ~astray /\ calls[c].step = "embed" /\ UNCHANGED <<store, sparse, strategy>>
        /\ calls' = [calls EXCEPT ![c] = NoCall]
    BY <1>5 DEF Cancel
  <2>2. calls'[c].step = "idle" /\ \A d \in Call : d # c => calls'[d] = calls[d]
    BY <2>1, NoCallIs DEF BasicInv
  <2>3. QED
    BY <1>2, <2>1, <2>2
<1>6. ASSUME NEW new \in Strategy, Restart(new) PROVE AloneInv' /\ ArrivedInv' /\ MatchInv'
  <2>1. sparse' = EmptyIndex /\ \A c \in Call : calls'[c].step = "idle"
    BY <1>6, NoCallIs DEF Restart
  <2>2. QED
    BY <2>1, EmptySparse DEF AloneInv, ArrivedInv, MatchInv
<1>7. CASE UNCHANGED <<store, sparse, strategy, calls, astray>>
  <2>1. AloneInv /\ ArrivedInv /\ MatchInv
    BY <1>7 DEF AgreeInv
  <2>2. QED
    BY <1>7, <2>1, ArrivalsKept DEF AloneInv
<1>8. ASSUME NEW c \in Call, NEW s, NEW v, SkipIndex(c, s, v)
      PROVE  AloneInv' /\ ArrivedInv' /\ MatchInv'
  BY <1>7, <1>8 DEF SkipIndex
<1>9. QED
  BY <1>1, <1>3, <1>4, <1>5, <1>6, <1>7, <1>8, CommitAgrees, FinishAgrees, DeleteAgrees, SearchAgrees
  DEF Next, vars

-----------------------------------------------------------------------------
(* Theorems. *)

LEMMA InitInv == Init => IInv
<1> SUFFICES ASSUME Init PROVE IInv
  OBVIOUS
<1>1. BasicInv /\ CallInv
  <2>1. calls \in [Call -> CallRecord] /\ CallInv
    BY NoCallIs DEF Init, CallInv
  <2>2. 0 \in 0..MaxStarts /\ 0 \in 0..MaxEvents
    BY RagIndexAssumption
  <2>3. QED
    BY <2>1, <2>2 DEF Init, BasicInv
<1>2. StoreInv
  BY EmptyIsStore DEF Init, StoreInv
<1>3. SparseInv
  BY EmptySparse, FS_EmptySet DEF Init, SparseInv, Sourced
<1>4. VersionInv
  BY EmptyIsStore DEF Init, VersionInv, RowsOf
<1>5. AgreeInv
  <2>1. sparse = EmptyIndex /\ \A c \in Call : calls[c].step = "idle"
    BY NoCallIs DEF Init
  <2>2. QED
    BY <2>1, EmptySparse DEF AgreeInv, AloneInv, ArrivedInv, MatchInv
<1>6. QED
  BY <1>1, <1>2, <1>3, <1>4, <1>5 DEF IInv

(* No interleaving of calls that index, are cancelled or fail, of deletions,
   searches and restarts leaves the inductive invariant. *)
THEOREM Invariant == Spec => []IInv
<1>1. IInv /\ [Next]_vars => IInv'
  BY NextBasic, NextStore, NextSparse, NextVersion, NextAgree DEF IInv
<1>2. QED
  BY InitInv, <1>1, PTL DEF Spec

(* Every variable of the two indexes and of the calls stays in its range. *)
THEOREM TypeCorrect == Spec => []TypeOK
<1>1. IInv => TypeOK
  BY TypesFollow DEF IInv
<1>2. QED
  BY Invariant, <1>1, PTL

(* Whatever add_document, delete_by_metadata and the rebuild did to the
   counters, they are those of the documents held. *)
THEOREM CountersAreExact == Spec => []SparseCountersExact
<1>1. IInv => SparseCountersExact
  <2> SUFFICES ASSUME IInv PROVE CountersExact(sparse)
    BY DEF SparseCountersExact
  <2>1. PICK d : d = sparse.documents
    OBVIOUS
  <2>2. sparse = Exact(d)
    BY <2>1 DEF IInv, SparseInv
  <2>3. CountersExact(Exact(d))
    BY ExactCounters
  <2>4. QED
    BY <2>2, <2>3
<1>2. QED
  BY Invariant, <1>1, PTL

(* The store holds, of each source, the chunks of one version and chunker,
   whatever calls were under way together, failed or were cancelled; a source
   whose text lost chunks is excepted until it is deleted or grows back. *)
THEOREM VersionsAreWhole == Spec => []WholeVersions
<1>1. IInv => WholeVersions
  BY DEF IInv, VersionInv, OneVersion, WholeVersions
<1>2. QED
  BY Invariant, <1>1, PTL

(* Every chunk has, at its row, the vector of its content: what _sync_search
   finds through the vectors is what is in the table. *)
THEOREM VectorsAreThere == Spec => []VectorsOfRows(store)
<1>1. IInv => VectorsOfRows(store)
  BY DEF IInv, StoreInv, Stores
<1>2. QED
  BY Invariant, <1>1, PTL

(* aindex returns early for a checksum it finds only when the store holds that
   version of the source, chunked as this process chunks. *)
THEOREM SkipsAreCurrent == Spec => SkipsOnlyCurrent
<1>1. ASSUME IInv, NEW c \in Call, NEW s \in Source, NEW v \in Version, SkipIndex(c, s, v)
      PROVE  s \in shrunk \/ HoldsVersion(s, v, strategy)
  <2> SUFFICES ASSUME s \notin shrunk PROVE HoldsVersion(s, v, strategy)
    OBVIOUS
  <2>1. PICK d \in Range(store.data) : /\ d.meta.source = s /\ d.meta.strategy = strategy
                                       /\ d.meta.checksum = v
    BY <1>1 DEF SkipIndex, Skips, NeedsReindex
  <2>2. PICK id \in Ids(store) : d = store.data[id]
    BY DEF Range, Ids
  <2>3. id \in RowsOf(s)
    BY <2>1, <2>2 DEF RowsOf
  <2>4. PICK v1 \in Version, st \in Strategy : OneVersion(s, v1, st)
    BY <1>1, <2>3 DEF IInv, VersionInv
  <2>5. strategy # None
    BY <1>1, RagIndexAssumption DEF IInv, BasicInv
  <2>6. d.meta = [source |-> s, checksum |-> v1, strategy |-> st]
    BY <2>1, <2>2, <2>3, <2>4, <2>5 DEF OneVersion
  <2>7. v1 = v /\ st = strategy
    BY <2>1, <2>6
  <2>8. QED
    BY <2>4, <2>7 DEF OneVersion
<1>2. IInv => \A c \in Call, s \in Source, v \in Version :
                 SkipIndex(c, s, v) => s \in shrunk \/ HoldsVersion(s, v, strategy)
  BY <1>1
<1>3. QED
  BY Invariant, <1>2, PTL DEF SkipsOnlyCurrent

(* After _ensure_bm25_consistent a search reads, of every source no call is
   about to finish, the same chunks in both indexes. *)
THEOREM SearchesAgree == Spec => IndexesAgree
<1> DEFINE arriving == {calls[c].source : c \in {d \in Call : calls[d].step = "sparse"}}
           settled(id) == id[1] \notin arriving
           Agree ==
             /\ {id \in Held(sparse') : settled(id)}
                   = {id \in Ids(store) : settled(id) /\ OfStrategy(id)}
             /\ \A id \in Held(sparse') :
                   settled(id) => sparse'.documents[id].content = store.data[id].content
<1>1. ASSUME IInv, Search, sparse' # EmptyIndex, ~astray' PROVE Agree
  <2>1. CASE sparse' = Rebuilt
    <3>1. PICK index : index = Rebuilt
      OBVIOUS
    <3>2. Held(index) = {id \in Ids(store) : OfStrategy(id)}
      BY <1>1, <3>1, RebuiltIs DEF IInv
    <3>3. \A id \in Held(index) : index.documents[id] = Document(store.data[id])
      BY <1>1, <3>1, RebuiltIs DEF IInv
    <3>4. sparse' = index
      BY <2>1, <3>1
    <3> HIDE DEF settled
    <3>5. {id \in Held(index) : settled(id)} = {id \in Ids(store) : settled(id) /\ OfStrategy(id)}
      BY <3>2
    <3>6. ASSUME NEW id \in Held(index)
          PROVE  index.documents[id].content = store.data[id].content
      <4>1. index.documents[id] = Document(store.data[id])
        BY <3>3
      <4>2. QED
        BY <4>1 DEF Document
    <3>7. QED
      BY <3>4, <3>5, <3>6
  <2>2. CASE sparse' = sparse /\ ~astray /\ sparse.total = Count(store)
    <3>1. MatchInv
      BY <1>1, <2>2 DEF IInv, AgreeInv
    <3>2. Held(sparse) \subseteq Ids(store)
      BY <3>1 DEF MatchInv
    <3>3. IsFiniteSet(Ids(store))
      BY <1>1, StoreIs DEF IInv, StoreInv
    <3>4. Cardinality(Held(sparse)) = Cardinality(Ids(store))
      BY <1>1, <2>2 DEF IInv, SparseInv, Exact, Held, Count
    <3>5. Held(sparse) = Ids(store)
      BY <3>2, <3>3, <3>4, FS_Subset
    <3>6. ASSUME NEW id, Arriving(id) PROVE ~settled(id)
      <4>1. PICK c \in Call : calls[c].step = "sparse" /\ id \in NewIds(calls[c])
        BY <3>6 DEF Arriving
      <4>2. id[1] = calls[c].source
        BY <4>1 DEF NewIds
      <4>3. c \in {d \in Call : calls[d].step = "sparse"}
        BY <4>1
      <4>4. QED
        BY <4>2, <4>3
    <3>7. \A id \in Held(sparse) : settled(id) =>
             sparse.documents[id] = Document(store.data[id]) /\ OfStrategy(id)
      BY <3>1, <3>6 DEF MatchInv
    <3> HIDE DEF settled
    <3>8. {id \in Held(sparse) : settled(id)} = {id \in Ids(store) : settled(id) /\ OfStrategy(id)}
      BY <3>5, <3>7
    <3>9. ASSUME NEW id \in Held(sparse), settled(id)
          PROVE  sparse.documents[id].content = store.data[id].content
      <4>1. sparse.documents[id] = Document(store.data[id])
        BY <3>7, <3>9
      <4>2. QED
        BY <4>1 DEF Document
    <3>10. QED
      BY <2>2, <3>8, <3>9
  <2>3. QED
    BY <1>1, <2>1, <2>2 DEF Search, Ensure
<1>2. IInv => ((Search /\ sparse' # EmptyIndex /\ ~astray') => Agree)
  BY <1>1
<1>3. QED
  BY Invariant, <1>2, PTL DEF IndexesAgree
=============================================================================
