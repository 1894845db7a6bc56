--------------------------- MODULE GraphBuildProofs ---------------------------
(***************************************************************************)
(* GraphBuild, proved for every finite prompt list and every order of the  *)
(* walk: a cycle is reported exactly when there is one, the levels are the *)
(* lengths of the longest chains of dependencies, and the drain of a built *)
(* graph hands out prompts in their order without stalling.                *)
(***************************************************************************)
EXTENDS GraphBuild, FiniteSetTheorems, SequenceTheorems, WellFoundedInduction, TLAPS

(* A dependency relation: each node has a set of nodes. *)
IsGraph(g) == IsFiniteSet(DOMAIN g) /\ \A s \in DOMAIN g : g[s] \subseteq DOMAIN g

(* The levels c of some nodes of g solve the equation of assign_levels: zero,
   or one above the highest dependency. *)
LevelSolved(g, c, s) ==
    /\ c[s] \in Nat
    /\ \A d \in g[s] : d \in DOMAIN c /\ c[d] < c[s]
    /\ c[s] = 0 \/ \E d \in g[s] : c[s] = c[d] + 1

Solved(g, c) == DOMAIN c \subseteq DOMAIN g /\ \A s \in DOMAIN c : LevelSolved(g, c, s)

(* All of them do. *)
Levelled(g, c) == Solved(g, c) /\ DOMAIN c = DOMAIN g

-----------------------------------------------------------------------------
(* The stack t of the walk over g: each call is on the path way, without a
   level in c, and was made by the one below it; it has asked its dependencies
   but those left, and those it asked have a level. The last call may be about
   to make another, for a node of X. *)
Frame(g) == [seq : DOMAIN g, left : SUBSET DOMAIN g]

FrameOK(g, c, way, f) ==
    /\ f.seq \notin DOMAIN c /\ f.seq \in way
    /\ g[f.seq] # {} /\ f.left \subseteq g[f.seq]

Asked(g, f) == g[f.seq] \ f.left

Calls(g, c, f, next) == next \in g[f.seq] /\ Asked(g, f) \subseteq DOMAIN c \cup {next}

OnStack(t) == {t[i].seq : i \in 1..Len(t)}

StackOK(g, c, way, t, X) ==
    /\ t \in Seq(Frame(g))
    /\ \A i \in 1..Len(t) : FrameOK(g, c, way, t[i])
    /\ \A i, j \in 1..Len(t) : t[i].seq = t[j].seq => i = j
    /\ \A i \in 1..(Len(t) - 1) : Calls(g, c, t[i], t[i + 1].seq)
    /\ t # <<>> => Asked(g, t[Len(t)]) \subseteq DOMAIN c \cup X
    /\ way \subseteq DOMAIN c \cup OnStack(t)

(* The nodes the loop has come to have a level, but for the one it is at. *)
Come(c, t, s) == s \in DOMAIN c \/ (t # <<>> /\ s = t[1].seq)

TodoOK(g, c, t, rest) ==
    /\ rest \subseteq DOMAIN g
    /\ \A s \in DOMAIN g \ rest : Come(c, t, s)

WalkInv ==
    /\ IsGraph(nodes)
    /\ Solved(nodes, cache)
    /\ StackOK(nodes, cache, path, stack, {})
    /\ TodoOK(nodes, cache, stack, todo)

(* What was built is a levelled graph of the list. *)
GraphInv ==
    /\ list \in PromptLists
    /\ phase \in {"start", "validating", "validated", "building", "over"}
    /\ phase = "building" => nodes = Dependencies(list)
    /\ phase # "over" => graph.outcome = "none"
    /\ graph.outcome \in {"none", "built", "cycle"}
    /\ graph.outcome = "cycle" => Cyclic(Dependencies(list))
    /\ graph.outcome = "built" => /\ graph.deps = Dependencies(list)
                                  /\ Levelled(graph.deps, graph.level)

DrainInv ==
    /\ graph.outcome # "built" => in_progress = {} /\ completed = {}
    /\ graph.outcome = "built" =>
          \A s \in in_progress \cup completed :
              s \in DOMAIN graph.deps /\ graph.deps[s] \subseteq completed

IInv == WalkInv /\ GraphInv /\ DrainInv
-----------------------------------------------------------------------------
(* Least and largest elements. *)

(* A nonempty set of naturals has a least element. *)
LEMMA LeastNat ==
    ASSUME NEW T \in SUBSET Nat, T # {}
    PROVE  \E x \in T : \A y \in T : x <= y
<1>1. PICK x \in T : \A y \in T : ~(<<y, x>> \in OpToRel(<, Nat))
  <2> HIDE DEF OpToRel
  <2> QED
    BY NatLessThanWellFounded, WFMin
<1>2. ASSUME NEW y \in T, y < x
      PROVE  FALSE
  <2>1. <<y, x>> \in OpToRel(<, Nat)
    BY <1>2 DEF OpToRel
  <2>2. QED
    BY <1>1, <2>1
<1>3. QED
  BY <1>2

(* A finite nonempty set of naturals has a largest one, which Max chooses:
   the element with the fewest above it. *)
LEMMA MaxIs ==
    ASSUME NEW S \in SUBSET Nat, IsFiniteSet(S), S # {}
    PROVE  Max(S) \in S /\ \A y \in S : Max(S) >= y
<1> DEFINE Above(x) == {y \in S : y > x}
           T == {Cardinality(Above(x)) : x \in S}
<1>1. \A x \in S : IsFiniteSet(Above(x)) /\ Cardinality(Above(x)) \in Nat
  BY FS_Subset, FS_CardinalityType
<1>2. PICK x \in S : \A y \in S : Cardinality(Above(x)) <= Cardinality(Above(y))
  <2>1. T \in SUBSET Nat /\ T # {}
    BY <1>1
  <2>2. PICK n \in T : \A k \in T : n <= k
    <3> HIDE DEF T
    <3> QED
      BY <2>1, LeastNat
  <2>3. QED
    BY <2>2
<1>3. ASSUME NEW y \in S, y > x
      PROVE  FALSE
  <2> DEFINE A == Above(x)  B == Above(y)
  <2>0. x \in Nat /\ y \in Nat /\ S \subseteq Nat
    BY <1>3
  <2>1. B \in SUBSET A /\ y \in A /\ y \notin B
    <3>1. \A z \in S : z > y => z > x
      BY <1>3, <2>0
    <3>2. ~(y > y)
      BY <2>0
    <3>3. QED
      BY <1>3, <3>1, <3>2
  <2>2. IsFiniteSet(A) /\ Cardinality(A) \in Nat /\ Cardinality(B) \in Nat
    BY <1>1
  <2>3. Cardinality(A) <= Cardinality(B)
    BY <1>2
  <2> HIDE DEF A, B
  <2>4. Cardinality(B) <= Cardinality(A) /\ Cardinality(A) # Cardinality(B)
    BY <2>1, <2>2, FS_Subset
  <2>5. QED
    BY <2>2, <2>3, <2>4
<1>4. x \in S /\ \A y \in S : x >= y
  BY <1>3
<1>5. QED
  BY <1>4 DEF Max

(* The maximum is the largest element. *)
LEMMA MaxOf ==
    ASSUME NEW S \in SUBSET Nat, NEW m \in S, \A y \in S : y <= m
    PROVE  Max(S) = m
<1>1. m \in S /\ \A y \in S : m >= y
  OBVIOUS
<1>2. Max(S) \in S /\ \A y \in S : Max(S) >= y
  BY <1>1 DEF Max
<1>3. PICK x \in S : x = Max(S)
  BY <1>2
<1>4. x >= m /\ m >= x /\ x \in Nat /\ m \in Nat
  BY <1>1, <1>2, <1>3
<1>5. QED
  BY <1>3, <1>4

(* The image of a finite set is finite. *)
LEMMA ImageFinite ==
    ASSUME NEW S, IsFiniteSet(S), NEW f, DOMAIN f = S
    PROVE  IsFiniteSet({f[x] : x \in S})
<1> DEFINE T == {f[x] : x \in S}
           g == [x \in S |-> f[x]]
<1>1. g \in Surjection(S, T)
  BY DEF Surjection
<1>2. QED
  <2> HIDE DEF T, g
  <2>1. IsFiniteSet(T)
    BY <1>1, FS_Surjection
  <2>2. QED
    BY <2>1 DEF T

-----------------------------------------------------------------------------
(* Levelled graphs. *)

ChainOf(g, p) ==
    /\ p \in Seq(DOMAIN g) /\ p # <<>>
    /\ \A i, j \in 1..Len(p) : p[i] = p[j] => i = j
    /\ \A i \in 1..(Len(p) - 1) : p[i] \in g[p[i + 1]]

(* Chains of the reference definition: no chain is longer than the number of
   nodes, since its elements are distinct. *)
LEMMA ChainsAre ==
    ASSUME NEW g, IsFiniteSet(DOMAIN g), NEW p
    PROVE  p \in Chains(g) <=> ChainOf(g, p)
<1>1. ASSUME p \in Chains(g) PROVE ChainOf(g, p)
  <2>1. PICK k \in 1..Cardinality(DOMAIN g) : p \in [1..k -> DOMAIN g]
    BY <1>1 DEF Chains
  <2>2. k \in Nat /\ k # 0
    BY <2>1, FS_CardinalityType
  <2>3. p \in Seq(DOMAIN g) /\ Len(p) = k /\ DOMAIN p = 1..k
    BY <2>1, <2>2
  <2>4. p # <<>>
    BY <2>2, <2>3
  <2>5. /\ \A i, j \in DOMAIN p : p[i] = p[j] => i = j
        /\ \A i \in 1..(Len(p) - 1) : p[i] \in g[p[i + 1]]
    BY <1>1 DEF Chains
  <2>6. QED
    BY <2>3, <2>4, <2>5 DEF ChainOf
<1>2. ASSUME ChainOf(g, p) PROVE p \in Chains(g)
  <2>1. p \in Seq(DOMAIN g) /\ p # <<>>
    BY <1>2 DEF ChainOf
  <2>2. PICK k \in Nat : k = Len(p)
    BY <2>1
  <2>3. p \in [1..k -> DOMAIN g] /\ DOMAIN p = 1..k /\ k # 0
    BY <2>1, <2>2
  <2>4. p \in Injection(1..k, DOMAIN g)
    BY <1>2, <2>2, <2>3 DEF ChainOf, Injection, IsInjective
  <2>5. Cardinality(1..k) = k
    BY <2>3, FS_Interval
  <2>6. k <= Cardinality(DOMAIN g)
    BY <2>4, <2>5, FS_Injection
  <2>7. k \in 1..Cardinality(DOMAIN g)
    BY <2>3, <2>6, FS_CardinalityType
  <2>8. p \in UNION {[1..n -> DOMAIN g] : n \in 1..Cardinality(DOMAIN g)}
    BY <2>3, <2>7
  <2>9. QED
    BY <1>2, <2>2, <2>3, <2>8 DEF Chains, ChainOf
<1>3. QED
  BY <1>1, <1>2

(* Along a chain the levels increase, so that no chain is longer than its last
   level allows. *)
LEMMA ChainLevels ==
    ASSUME NEW g, NEW c, Levelled(g, c), NEW p, ChainOf(g, p)
    PROVE  /\ \A i \in 1..Len(p) : p[i] \in DOMAIN g /\ c[p[i]] \in Nat
           /\ \A i \in 1..(Len(p) - 1) : c[p[i]] < c[p[i + 1]]
<1>1. p \in Seq(DOMAIN g) /\ Len(p) \in Nat
  BY DEF ChainOf
<1>2. \A i \in 1..Len(p) : p[i] \in DOMAIN g /\ c[p[i]] \in Nat
  BY <1>1 DEF Levelled, Solved, LevelSolved
<1>3. ASSUME NEW i \in 1..(Len(p) - 1)
      PROVE  c[p[i]] < c[p[i + 1]]
  <2>1. i + 1 \in 1..Len(p)
    BY <1>1
  <2>2. p[i] \in g[p[i + 1]] /\ p[i + 1] \in DOMAIN c
    BY <1>2, <2>1 DEF ChainOf, Levelled
  <2>3. QED
    BY <2>2 DEF Levelled, Solved, LevelSolved
<1>4. QED
  BY <1>2, <1>3

(* The level of the i-th node of a chain is at least i - 1: else take the least
   i for which it is not. *)
LEMMA ChainAtLeast ==
    ASSUME NEW g, NEW c, Levelled(g, c), NEW p, ChainOf(g, p)
    PROVE  \A i \in 1..Len(p) : i - 1 <= c[p[i]]
<1> DEFINE T == {i \in 1..Len(p) : ~(i - 1 <= c[p[i]])}
<1>1. PICK n \in Nat : n = Len(p)
  BY DEF ChainOf
<1>2. SUFFICES ASSUME T # {} PROVE FALSE
  OBVIOUS
<1>3. T \in SUBSET Nat
  BY <1>1
<1>4. PICK i \in T : \A j \in T : i <= j
  <2> HIDE DEF T
  <2> QED
    BY <1>2, <1>3, LeastNat
<1>5. i \in 1..n /\ c[p[i]] \in Nat /\ ~(i - 1 <= c[p[i]])
  BY <1>1, ChainLevels
<1>6. PICK x \in Nat : x = c[p[i]]
  BY <1>5
<1>7. i # 1 /\ i \in Nat
  BY <1>5, <1>6
<1>8. i - 1 \in 1..(n - 1) /\ i - 1 \in 1..n /\ (i - 1) + 1 = i
  BY <1>5, <1>7
<1>9. c[p[i - 1]] < c[p[(i - 1) + 1]] /\ c[p[i - 1]] \in Nat
  BY <1>1, <1>8, ChainLevels
<1>10. PICK y \in Nat : y = c[p[i - 1]]
  BY <1>9
<1>11. y < x
  BY <1>6, <1>8, <1>9, <1>10
<1>12. (i - 1) - 1 <= y
  <2>1. i - 1 \notin T
    BY <1>4, <1>7
  <2>2. QED
    BY <1>1, <1>8, <1>10, <2>1
<1>13. QED
  BY <1>5, <1>6, <1>7, <1>11, <1>12

(* The last node of a chain has the highest level: else take the least distance
   from it at which there is a higher one. *)
LEMMA ChainAtMost ==
    ASSUME NEW g, NEW c, Levelled(g, c), NEW p, ChainOf(g, p)
    PROVE  \A i \in 1..Len(p) : c[p[i]] <= c[p[Len(p)]]
<1>1. PICK n \in Nat : n = Len(p)
  BY DEF ChainOf
<1>2. PICK last \in Nat : last = c[p[n]]
  <2>1. n # 0
    BY <1>1 DEF ChainOf
  <2>2. QED
    BY <1>1, <2>1, ChainLevels
<1> DEFINE T == {k \in 0..(n - 1) : ~(c[p[n - k]] <= last)}
<1>3. T = {}
  <2>1. SUFFICES ASSUME T # {} PROVE FALSE
    OBVIOUS
  <2>2. T \in SUBSET Nat
    BY <1>1
  <2>3. PICK k \in T : \A j \in T : k <= j
    <3> HIDE DEF T
    <3> QED
      BY <2>1, <2>2, LeastNat
  <2>4. k \in 0..(n - 1) /\ n - k \in 1..n
    BY <1>1
  <2>5. PICK x \in Nat : x = c[p[n - k]]
    BY <1>1, <2>4, ChainLevels
  <2>6. ~(x <= last)
    BY <2>5
  <2>7. k # 0
    <3>1. ASSUME k = 0 PROVE x = last
      BY <1>1, <1>2, <2>5, <3>1
    <3>2. QED
      BY <1>2, <2>6, <3>1
  <2>8. k - 1 \in 0..(n - 1) /\ n - (k - 1) \in 1..n /\ n - (k - 1) = (n - k) + 1 /\ n - k \in 1..(n - 1)
    BY <1>1, <2>4, <2>7
  <2>9. PICK y \in Nat : y = c[p[n - (k - 1)]]
    BY <1>1, <2>8, ChainLevels
  <2>10. x < y
    BY <1>1, <2>5, <2>8, <2>9, ChainLevels
  <2>11. y <= last
    <3>1. k - 1 \notin T
      BY <2>3, <2>4
    <3>2. QED
      BY <2>8, <2>9, <3>1
  <2>12. QED
    BY <1>2, <2>6, <2>10, <2>11
<1>4. ASSUME NEW i \in 1..n
      PROVE  c[p[i]] <= last
  <2>1. n - i \in 0..(n - 1) /\ n - (n - i) = i
    BY <1>1
  <2>2. c[p[n - (n - i)]] <= last
    BY <1>3, <2>1
  <2>3. QED
    BY <2>1, <2>2
<1>5. QED
  BY <1>1, <1>2, <1>4

(* A levelled graph has no cycle. *)
LEMMA LevelledAcyclic ==
    ASSUME NEW g, NEW c, IsGraph(g), Levelled(g, c)
    PROVE  ~Cyclic(g)
<1>1. SUFFICES ASSUME NEW p \in Chains(g), p[Len(p)] \in g[p[1]]
               PROVE  FALSE
  BY DEF Cyclic
<1>2. ChainOf(g, p)
  BY <1>1, ChainsAre DEF IsGraph
<1>3. PICK n \in Nat : n = Len(p)
  BY <1>2 DEF ChainOf
<1>4. 1 \in 1..n /\ n \in 1..n
  BY <1>2, <1>3 DEF ChainOf
<1>5. p[1] \in DOMAIN g /\ c[p[1]] \in Nat /\ c[p[n]] \in Nat
  BY <1>2, <1>3, <1>4, ChainLevels
<1>6. c[p[1]] <= c[p[n]]
  BY <1>2, <1>3, <1>4, ChainAtMost
<1>7. c[p[n]] < c[p[1]]
  BY <1>1, <1>3, <1>5 DEF Levelled, Solved, LevelSolved
<1>8. QED
  BY <1>5, <1>6, <1>7

(* The chain p with one more node, which depends on the last. *)
LEMMA ChainGrows ==
    ASSUME NEW g, NEW c, Levelled(g, c), NEW p, ChainOf(g, p),
           NEW s \in DOMAIN g, p[Len(p)] \in g[s]
    PROVE  ChainOf(g, Append(p, s)) /\ Len(Append(p, s)) = Len(p) + 1
           /\ Append(p, s)[Len(p) + 1] = s
<1>1. PICK n \in Nat : n = Len(p)
  BY DEF ChainOf
<1>2. p \in Seq(DOMAIN g) /\ n # 0
  BY <1>1 DEF ChainOf
<1>3. PICK q : q = Append(p, s)
  OBVIOUS
<1>4. /\ q \in Seq(DOMAIN g) /\ Len(q) = n + 1
      /\ \A i \in 1..n : q[i] = p[i]
      /\ q[n + 1] = s
  BY <1>1, <1>2, <1>3, AppendProperties
<1>5. q # <<>>
  BY <1>1, <1>4
<1>6. ASSUME NEW i \in 1..n
      PROVE  q[i] # s
  <2>1. c[p[i]] <= c[p[n]] /\ c[p[i]] \in Nat /\ c[p[n]] \in Nat
    BY <1>1, <1>2, ChainAtMost, ChainLevels
  <2>2. c[p[n]] < c[s] /\ c[s] \in Nat
    BY <1>1 DEF Levelled, Solved, LevelSolved
  <2>3. c[p[i]] # c[s]
    BY <2>1, <2>2
  <2>4. QED
    BY <1>4, <2>3
<1>7. ASSUME NEW i \in 1..(n + 1), NEW j \in 1..(n + 1), q[i] = q[j]
      PROVE  i = j
  <2>1. CASE i \in 1..n /\ j \in 1..n
    BY <1>1, <1>4, <1>7, <2>1 DEF ChainOf
  <2>2. CASE i = n + 1 \/ j = n + 1
    <3>1. (i = n + 1 \/ i \in 1..n) /\ (j = n + 1 \/ j \in 1..n)
      BY <1>1
    <3>2. QED
      BY <1>4, <1>6, <1>7, <2>2, <3>1
  <2>3. QED
    BY <1>1, <2>1, <2>2
<1>8. ASSUME NEW i \in 1..n
      PROVE  q[i] \in g[q[i + 1]]
  <2>1. CASE i = n
    BY <1>1, <1>4, <2>1
  <2>2. CASE i # n
    <3>1. i \in 1..(n - 1) /\ i + 1 \in 1..n
      BY <1>1, <2>2
    <3>2. QED
      BY <1>1, <1>4, <3>1 DEF ChainOf
  <2>3. QED
    BY <2>1, <2>2
<1>9. ChainOf(g, q)
  BY <1>1, <1>4, <1>5, <1>7, <1>8 DEF ChainOf
<1>10. QED
  BY <1>1, <1>3, <1>4, <1>9

(* Each node ends a chain as long as its level: else take one of least level
   that does not, and the chain of the dependency its level comes from. *)
LEMMA ChainOfLevel ==
    ASSUME NEW g, NEW c, IsGraph(g), Levelled(g, c)
    PROVE  \A s \in DOMAIN g : \E p \in Chains(g) : p[Len(p)] = s /\ Len(p) - 1 = c[s]
<1> DEFINE Reached(s) == \E p \in Chains(g) : p[Len(p)] = s /\ Len(p) - 1 = c[s]
           T == {c[s] : s \in {r \in DOMAIN g : ~Reached(r)}}
<1> HIDE DEF Reached
<1>1. SUFFICES ASSUME T # {} PROVE FALSE
  BY DEF Reached
<1>2. T \in SUBSET Nat
  BY DEF Levelled, Solved, LevelSolved
<1>3. PICK x \in T : \A y \in T : x <= y
  <2> HIDE DEF T
  <2> QED
    BY <1>1, <1>2, LeastNat
<1>4. PICK s \in DOMAIN g : ~Reached(s) /\ c[s] = x
  OBVIOUS
<1>5. LevelSolved(g, c, s)
  BY DEF Levelled, Solved
<1>6. CASE c[s] = 0
  <2>1. PICK p : p = <<s>>
    OBVIOUS
  <2>2. ChainOf(g, p) /\ Len(p) = 1 /\ p[1] = s
    BY <2>1 DEF ChainOf
  <2>3. p \in Chains(g)
    BY <2>2, ChainsAre DEF IsGraph
  <2>4. p[Len(p)] = s /\ Len(p) - 1 = c[s]
    BY <1>6, <2>2
  <2>5. QED
    BY <1>4, <2>3, <2>4 DEF Reached
<1>7. ASSUME NEW d \in g[s], c[s] = c[d] + 1
      PROVE  FALSE
  <2>1. d \in DOMAIN g /\ c[d] \in Nat
    BY DEF IsGraph, Levelled, Solved, LevelSolved
  <2>2. Reached(d)
    <3>1. SUFFICES ASSUME ~Reached(d) PROVE FALSE
      OBVIOUS
    <3>2. c[d] \in T
      BY <2>1, <3>1
    <3>3. c[s] <= c[d]
      BY <1>3, <1>4, <3>2
    <3>4. QED
      BY <1>7, <2>1, <3>3
  <2>3. PICK p \in Chains(g) : p[Len(p)] = d /\ Len(p) - 1 = c[d]
    BY <2>2 DEF Reached
  <2>4. ChainOf(g, p)
    BY ChainsAre DEF IsGraph
  <2>5. PICK q : q = Append(p, s)
    OBVIOUS
  <2>6. PICK n \in Nat : n = Len(p)
    BY <2>4 DEF ChainOf
  <2>7. ChainOf(g, q) /\ Len(q) = n + 1 /\ q[n + 1] = s
    BY <2>3, <2>4, <2>5, <2>6, ChainGrows
  <2>8. q \in Chains(g)
    BY <2>7, ChainsAre DEF IsGraph
  <2>9. q[Len(q)] = s /\ Len(q) - 1 = c[s]
    BY <1>7, <2>1, <2>3, <2>6, <2>7
  <2>10. QED
    BY <1>4, <2>8, <2>9 DEF Reached
<1>8. QED
  BY <1>5, <1>6, <1>7 DEF LevelSolved

(* The level of a node is the length of the longest chain below it. *)
Lengths(g, s) == {Len(p) - 1 : p \in {q \in Chains(g) : q[Len(q)] = s}}

LEMMA LevelIsDepth ==
    ASSUME NEW g, NEW c, IsGraph(g), Levelled(g, c), NEW s \in DOMAIN g
    PROVE  c[s] = Max(Lengths(g, s))
<1>1. ASSUME NEW p \in Chains(g), p[Len(p)] = s
      PROVE  Len(p) - 1 \in Nat /\ Len(p) - 1 <= c[s]
  <2>1. ChainOf(g, p)
    BY ChainsAre DEF IsGraph
  <2>2. PICK n \in Nat : n = Len(p)
    BY <2>1 DEF ChainOf
  <2>3. n \in 1..n
    BY <2>1, <2>2 DEF ChainOf
  <2>4. n - 1 <= c[p[n]]
    BY <2>1, <2>2, <2>3, ChainAtLeast
  <2>5. QED
    BY <1>1, <2>2, <2>3, <2>4
<1>2. Lengths(g, s) \in SUBSET Nat /\ \A y \in Lengths(g, s) : y <= c[s]
  BY <1>1 DEF Lengths
<1>3. c[s] \in Lengths(g, s)
  BY ChainOfLevel DEF Lengths
<1>4. QED
  BY <1>2, <1>3, MaxOf

(* The equation has one solution: the levels GraphExecutor runs, which it takes
   from the equation, are those the walk gives. *)
THEOREM OneLevelling ==
    ASSUME NEW g, IsGraph(g), NEW c, Levelled(g, c), NEW e, Levelled(g, e), NEW s \in DOMAIN g
    PROVE  c[s] = e[s]
<1>1. c[s] = Max(Lengths(g, s))
  BY LevelIsDepth
<1>2. e[s] = Max(Lengths(g, s))
  BY LevelIsDepth
<1>3. QED
  BY <1>1, <1>2

(* The levels with one more. *)
Extended(c, s, l) == [n \in DOMAIN c \cup {s} |-> IF n = s THEN l ELSE c[n]]

LEMMA ExtendedIs ==
    ASSUME NEW c, NEW s, NEW l
    PROVE  Extended(c, s, l)[s] = l
BY DEF Extended

LEMMA ExtendedDomain ==
    ASSUME NEW c, NEW s, NEW l
    PROVE  DOMAIN Extended(c, s, l) = DOMAIN c \cup {s}
BY DEF Extended

LEMMA ExtendedAt ==
    ASSUME NEW c, NEW s, NEW l, NEW n \in DOMAIN c, n # s
    PROVE  Extended(c, s, l)[n] = c[n]
BY DEF Extended

(* A level assigned keeps the levels solved, and assigns what is asked. *)
LEMMA Extends ==
    ASSUME NEW g, NEW c, Solved(g, c), NEW s \in DOMAIN g \ DOMAIN c, NEW l,
           NEW e, e = Extended(c, s, l),
           LevelSolved(g, e, s)
    PROVE  Solved(g, e) /\ DOMAIN e = DOMAIN c \cup {s}
<1>1. DOMAIN e = DOMAIN c \cup {s} /\ DOMAIN e \subseteq DOMAIN g
  <2>1. DOMAIN e = DOMAIN c \cup {s}
    BY ExtendedDomain
  <2>2. QED
    BY <2>1 DEF Solved
<1>2. \A n \in DOMAIN c : e[n] = c[n]
  BY ExtendedAt
<1>3. ASSUME NEW r \in DOMAIN c
      PROVE  LevelSolved(g, e, r)
  BY <1>1, <1>2 DEF Solved, LevelSolved
<1>4. QED
  BY <1>1, <1>3 DEF Solved

(* A node without dependencies gets level 0. *)
LEMMA LeafSolved ==
    ASSUME NEW g, NEW c, Solved(g, c), NEW s \in DOMAIN g \ DOMAIN c, g[s] = {},
           NEW e, e = Extended(c, s, 0)
    PROVE  Solved(g, e) /\ DOMAIN e = DOMAIN c \cup {s}
<1>1. e[s] = 0
  BY ExtendedIs
<1>2. LevelSolved(g, e, s)
  BY <1>1 DEF LevelSolved
<1>3. QED
  BY <1>2, Extends

(* A node whose dependencies all have one gets the level above the highest. *)
LEMMA AboveSolved ==
    ASSUME NEW g, NEW c, IsGraph(g), Solved(g, c), NEW s \in DOMAIN g \ DOMAIN c,
           g[s] # {}, g[s] \subseteq DOMAIN c,
           NEW l, l = LevelAbove({c[d] : d \in g[s]}),
           NEW e, e = Extended(c, s, l)
    PROVE  Solved(g, e) /\ DOMAIN e = DOMAIN c \cup {s}
<1> DEFINE S == {c[d] : d \in g[s]}
<1>1. S \in SUBSET Nat /\ S # {}
  BY DEF Solved, LevelSolved
<1>2. IsFiniteSet(S)
  <2>1. IsFiniteSet(g[s])
    BY FS_Subset DEF IsGraph
  <2> DEFINE f == [d \in g[s] |-> c[d]]
  <2>2. IsFiniteSet({f[d] : d \in g[s]})
    <3>1. DOMAIN f = g[s]
      OBVIOUS
    <3> HIDE DEF f
    <3>2. QED
      BY <2>1, <3>1, ImageFinite
  <2>3. S = {f[d] : d \in g[s]}
    OBVIOUS
  <2>4. QED
    BY <2>2, <2>3
<1>3. PICK m \in S : m = Max(S) /\ \A y \in S : m >= y
  <2> HIDE DEF S
  <2> QED
    BY <1>1, <1>2, MaxIs
<1>4. l = 1 + m /\ m \in Nat
  <2>1. l = 1 + Max(S)
    BY DEF LevelAbove
  <2>2. m \in Nat
    BY <1>1
  <2>3. QED
    BY <1>3, <2>1, <2>2
<1>5. e[s] = l /\ \A d \in g[s] : d \in DOMAIN e /\ e[d] = c[d]
  <2>1. e[s] = l
    BY ExtendedIs
  <2>2. DOMAIN e = DOMAIN c \cup {s}
    BY ExtendedDomain
  <2>3. ASSUME NEW d \in g[s] PROVE e[d] = c[d]
    BY ExtendedAt
  <2>4. QED
    BY <2>1, <2>2, <2>3
<1>6. \A d \in g[s] : d \in DOMAIN e /\ e[d] < e[s]
  <2>1. ASSUME NEW d \in g[s] PROVE e[d] < e[s]
    <3>1. c[d] \in S /\ c[d] \in Nat
      BY <1>1
    <3>2. m >= c[d]
      BY <1>3, <3>1
    <3>3. PICK k \in Nat : k = c[d]
      BY <3>1
    <3>4. e[d] = k /\ e[s] = 1 + m /\ m >= k
      BY <1>4, <1>5, <3>2, <3>3
    <3>5. QED
      BY <1>4, <3>4
  <2>2. QED
    BY <1>5, <2>1
<1>7. \E d \in g[s] : e[s] = e[d] + 1
  <2>1. PICK d \in g[s] : c[d] = m
    OBVIOUS
  <2>2. e[s] = e[d] + 1
    <3>1. e[s] = 1 + m /\ e[d] = m
      BY <1>4, <1>5, <2>1
    <3>2. QED
      BY <1>4, <3>1
  <2>3. QED
    BY <2>2
<1>8. LevelSolved(g, e, s)
  <2>1. e[s] \in Nat
    <3>1. e[s] = 1 + m
      BY <1>4, <1>5
    <3>2. QED
      BY <1>4, <3>1
  <2>2. QED
    BY <2>1, <1>6, <1>7 DEF LevelSolved
<1>9. QED
  BY <1>8, Extends

-----------------------------------------------------------------------------
(* The steps of the walk. *)

(* A call that meets a node on the path which has no level closes a cycle: the
   calls from that node to the last one, read from the last one down. *)
LEMMA StackCycle ==
    ASSUME NEW g, IsGraph(g), NEW c, NEW way, NEW t, StackOK(g, c, way, t, {}), t # <<>>,
           NEW d \in t[Len(t)].left, d \in way, d \notin DOMAIN c
    PROVE  Cyclic(g)
<1>1. t \in Seq(Frame(g))
  BY DEF StackOK
<1>2. PICK n \in Nat : n = Len(t)
  BY <1>1
<1>3. n # 0 /\ \A i \in 1..n : t[i] \in Frame(g) /\ t[i].seq \in DOMAIN g
  <2>1. n # 0
    BY <1>1, <1>2
  <2>2. \A i \in 1..n : t[i] \in Frame(g)
    BY <1>1, <1>2
  <2>3. \A f \in Frame(g) : f.seq \in DOMAIN g
    BY DEF Frame
  <2>4. QED
    BY <2>1, <2>2, <2>3
<1>4. PICK j \in 1..n : t[j].seq = d
  BY <1>2 DEF StackOK, OnStack
<1>5. PICK m \in Nat : m = n + 1 - j
  BY <1>4
<1>6. PICK p : p = [i \in 1..m |-> t[n + 1 - i].seq]
  OBVIOUS
<1>7. \A i \in 1..m : n + 1 - i \in 1..n /\ p[i] = t[n + 1 - i].seq
  BY <1>4, <1>5, <1>6
<1>8. p \in [1..m -> DOMAIN g]
  BY <1>3, <1>6, <1>7
<1>9. p \in Seq(DOMAIN g) /\ Len(p) = m
  BY <1>8
<1>10. m # 0 /\ p # <<>>
  BY <1>4, <1>5, <1>9
<1>11. ASSUME NEW i \in 1..m, NEW k \in 1..m, p[i] = p[k]
       PROVE  i = k
  <2>1. \A a, b \in 1..n : t[a].seq = t[b].seq => a = b
    BY <1>2 DEF StackOK
  <2>2. n + 1 - i \in 1..n /\ n + 1 - k \in 1..n /\ t[n + 1 - i].seq = t[n + 1 - k].seq
    BY <1>7, <1>11
  <2>3. n + 1 - i = n + 1 - k
    BY <2>1, <2>2
  <2>4. QED
    BY <2>3, <1>5
<1>12. ASSUME NEW i \in 1..(m - 1)
       PROVE  p[i] \in g[p[i + 1]]
  <2>1. i \in 1..m /\ i + 1 \in 1..m
    BY <1>5
  <2>2. PICK h \in Int : h = n + 1 - (i + 1)
    BY <1>5
  <2>3. h \in 1..(n - 1) /\ h + 1 = n + 1 - i
    BY <1>4, <1>5, <2>1, <2>2
  <2>4. p[i] = t[h + 1].seq /\ p[i + 1] = t[h].seq
    BY <1>7, <2>1, <2>2, <2>3
  <2>5. Calls(g, c, t[h], t[h + 1].seq)
    BY <1>2, <2>3 DEF StackOK
  <2>6. QED
    BY <2>4, <2>5 DEF Calls
<1>13. ChainOf(g, p)
  BY <1>9, <1>10, <1>11, <1>12 DEF ChainOf
<1>14. p \in Chains(g)
  BY <1>13, ChainsAre DEF IsGraph
<1>15. p[1] = t[n].seq /\ p[m] = d
  <2>1. 1 \in 1..m /\ m \in 1..m /\ n + 1 - 1 = n /\ n + 1 - m = j
    BY <1>4, <1>5, <1>10
  <2>2. QED
    BY <1>4, <1>7, <2>1
<1>16. d \in g[t[n].seq]
  <2>1. FrameOK(g, c, way, t[n])
    BY <1>2, <1>3 DEF StackOK
  <2>2. QED
    BY <1>2, <2>1 DEF FrameOK
<1>17. QED
  BY <1>9, <1>14, <1>15, <1>16 DEF Cyclic

(* The empty stack. *)
LEMMA EmptyStack ==
    ASSUME NEW g, NEW c, NEW X
    PROVE  StackOK(g, c, {}, <<>>, X)
BY DEF StackOK, OnStack

(* The last call asks a dependency d. *)
Asks(t, d) == Append(SubSeq(t, 1, Len(t) - 1), [t[Len(t)] EXCEPT !.left = @ \ {d}])

LEMMA AsksIs ==
    ASSUME NEW g, NEW t \in Seq(Frame(g)), t # <<>>, NEW d \in t[Len(t)].left
    PROVE  /\ Asks(t, d) \in Seq(Frame(g)) /\ Asks(t, d) # <<>>
           /\ Len(Asks(t, d)) = Len(t)
           /\ \A i \in 1..Len(t) : Asks(t, d)[i].seq = t[i].seq
           /\ \A i \in 1..(Len(t) - 1) : Asks(t, d)[i] = t[i]
           /\ Asks(t, d)[Len(t)].left = t[Len(t)].left \ {d}
<1>1. PICK n \in Nat : n = Len(t)
  OBVIOUS
<1>2. n # 0
  BY <1>1
<1>3. PICK u : u = SubSeq(t, 1, n - 1)
  OBVIOUS
<1>4. \A i \in 1..n : t[i] \in Frame(g)
  BY <1>1
<1>5. \A i \in 1..(n - 1) : t[i] \in Frame(g)
  BY <1>1, <1>4
<1>6. 1 \in Int /\ n - 1 \in Int
  OBVIOUS
<1>7. /\ SubSeq(t, 1, n - 1) \in Seq(Frame(g))
      /\ Len(SubSeq(t, 1, n - 1)) = IF 1 <= n - 1 THEN (n - 1) - 1 + 1 ELSE 0
      /\ \A i \in 1..((n - 1) - 1 + 1) : SubSeq(t, 1, n - 1)[i] = t[1 + i - 1]
  BY <1>5, <1>6, SubSeqProperties
<1>8. u \in Seq(Frame(g)) /\ Len(u) = n - 1
  BY <1>1, <1>2, <1>3, <1>7
<1>9. \A i \in 1..(n - 1) : u[i] = t[i]
  BY <1>1, <1>3, <1>7
<1>10. PICK f : f = [t[n] EXCEPT !.left = @ \ {d}]
  OBVIOUS
<1>11. f \in Frame(g) /\ f.seq = t[n].seq /\ f.left = t[n].left \ {d}
  BY <1>2, <1>4, <1>10 DEF Frame
<1>12. PICK v : v = Append(u, f)
  OBVIOUS
<1>13. /\ v \in Seq(Frame(g)) /\ Len(v) = n
       /\ \A i \in 1..(n - 1) : v[i] = u[i]
       /\ v[n] = f
  <2>1. PICK k \in Nat : k = n - 1
    BY <1>2
  <2>2. /\ v \in Seq(Frame(g)) /\ Len(v) = k + 1
        /\ \A i \in 1..k : v[i] = u[i]
        /\ v[k + 1] = f
    BY <1>8, <1>11, <1>12, <2>1, AppendProperties
  <2>3. QED
    BY <2>1, <2>2
<1>14. v # <<>>
  BY <1>2, <1>13
<1>15. \A i \in 1..(n - 1) : v[i] = t[i]
  BY <1>9, <1>13
<1>16. \A i \in 1..n : v[i].seq = t[i].seq
  <2>1. \A i \in 1..n : i = n \/ i \in 1..(n - 1)
    OBVIOUS
  <2>2. QED
    BY <1>11, <1>13, <1>15, <2>1
<1>17. v = Asks(t, d)
  BY <1>1, <1>3, <1>10, <1>12 DEF Asks
<1>18. QED
  BY <1>1, <1>11, <1>13, <1>14, <1>15, <1>16, <1>17

LEMMA AskKeeps ==
    ASSUME NEW g, NEW c, NEW way, NEW t, StackOK(g, c, way, t, {}), t # <<>>,
           NEW d \in t[Len(t)].left
    PROVE  /\ StackOK(g, c, way, Asks(t, d), {d})
           /\ d \in g[t[Len(t)].seq] /\ d \in DOMAIN g
<1>1. t \in Seq(Frame(g))
  BY DEF StackOK
<1>2. PICK n \in Nat : n = Len(t)
  BY <1>1
<1>3. PICK v : v = Asks(t, d)
  OBVIOUS
<1>4. /\ v \in Seq(Frame(g)) /\ v # <<>> /\ Len(v) = n
      /\ \A i \in 1..n : v[i].seq = t[i].seq
      /\ \A i \in 1..(n - 1) : v[i] = t[i]
      /\ v[n].left = t[n].left \ {d}
  BY <1>1, <1>2, <1>3, AsksIs
<1>5. n \in 1..n
  BY <1>2, <1>4
<1>6. t[n] \in Frame(g) /\ FrameOK(g, c, way, t[n])
  BY <1>1, <1>2, <1>5 DEF StackOK
<1>7. d \in g[t[n].seq] /\ d \in DOMAIN g
  BY <1>2, <1>6 DEF Frame, FrameOK
<1>8. ASSUME NEW i \in 1..n
      PROVE  FrameOK(g, c, way, v[i])
  <2>1. CASE i = n
    BY <1>4, <1>6, <2>1 DEF FrameOK
  <2>2. CASE i # n
    <3>1. i \in 1..(n - 1)
      BY <2>2
    <3>2. QED
      BY <1>2, <1>4, <3>1 DEF StackOK
  <2>3. QED
    BY <2>1, <2>2
<1>9. \A i, j \in 1..n : v[i].seq = v[j].seq => i = j
  BY <1>2, <1>4 DEF StackOK
<1>10. ASSUME NEW i \in 1..(n - 1)
       PROVE  Calls(g, c, v[i], v[i + 1].seq)
  <2>1. i + 1 \in 1..n
    OBVIOUS
  <2>2. QED
    BY <1>2, <1>4, <2>1 DEF StackOK
<1>11. Asked(g, v[n]) \subseteq DOMAIN c \cup {d}
  <2>1. Asked(g, t[n]) \subseteq DOMAIN c
    BY <1>2 DEF StackOK
  <2>2. v[n].seq = t[n].seq
    BY <1>4, <1>5
  <2>3. QED
    BY <1>4, <2>1, <2>2 DEF Asked
<1>12. OnStack(v) = OnStack(t)
  BY <1>2, <1>4 DEF OnStack
<1>13. way \subseteq DOMAIN c \cup OnStack(v)
  BY <1>12 DEF StackOK
<1>14. StackOK(g, c, way, v, {d})
  BY <1>4, <1>8, <1>9, <1>10, <1>11, <1>13 DEF StackOK
<1>15. QED
  BY <1>2, <1>3, <1>7, <1>14

(* A call for a node that has a level returns at once. *)
LEMMA ReturnKeeps ==
    ASSUME NEW g, NEW c, NEW way, NEW t, NEW s \in DOMAIN c, StackOK(g, c, way, t, {s})
    PROVE  StackOK(g, c, way, t, {})
BY DEF StackOK

(* A call for a node without dependencies gives it a level, and leaves it on
   the path. *)
LEMMA LeafKeeps ==
    ASSUME NEW g, NEW c, NEW way, NEW t, NEW s, s \notin DOMAIN c, s \notin way,
           StackOK(g, c, way, t, {s}), NEW e, DOMAIN e = DOMAIN c \cup {s}
    PROVE  StackOK(g, e, way \cup {s}, t, {})
<1>1. ASSUME NEW i \in 1..Len(t)
      PROVE  FrameOK(g, e, way \cup {s}, t[i])
  <2>1. FrameOK(g, c, way, t[i])
    BY DEF StackOK
  <2>2. QED
    BY <2>1 DEF FrameOK
<1>2. ASSUME NEW i \in 1..(Len(t) - 1)
      PROVE  Calls(g, e, t[i], t[i + 1].seq)
  <2>1. Calls(g, c, t[i], t[i + 1].seq)
    BY DEF StackOK
  <2>2. QED
    BY <2>1 DEF Calls
<1>3. QED
  BY <1>1, <1>2 DEF StackOK

Pushed(g, t, s) == Append(t, [seq |-> s, left |-> g[s]])

Popped(t) == SubSeq(t, 1, Len(t) - 1)

(* Who asks for s, and the node of the loop for which it does. *)
MayCall(g, t, s) == t # <<>> => s \in g[t[Len(t)].seq]

First(t, s) == IF t = <<>> THEN s ELSE t[1].seq

(* A call for another node goes onto the stack, with all to ask. *)
LEMMA PushKeeps ==
    ASSUME NEW g, NEW c, NEW way, NEW t, NEW s \in DOMAIN g, s \notin DOMAIN c, s \notin way,
           StackOK(g, c, way, t, {s}), g[s] # {}, g[s] \subseteq DOMAIN g,
           MayCall(g, t, s)
    PROVE  /\ StackOK(g, c, way \cup {s}, Pushed(g, t, s), {})
           /\ Come(c, Pushed(g, t, s), First(t, s))
<1>0. PICK v : v = Pushed(g, t, s)
  OBVIOUS
<1>1. t \in Seq(Frame(g))
  BY DEF StackOK
<1>2. PICK n \in Nat : n = Len(t)
  BY <1>1
<1>3. PICK f : f = [seq |-> s, left |-> g[s]]
  OBVIOUS
<1>4. f \in Frame(g) /\ f.seq = s /\ f.left = g[s]
  BY <1>3 DEF Frame
<1>5. /\ v \in Seq(Frame(g)) /\ Len(v) = n + 1
      /\ \A i \in 1..n : v[i] = t[i]
      /\ v[n + 1] = f
  BY <1>0, <1>1, <1>2, <1>3, <1>4, AppendProperties DEF Pushed
<1>6. \A i \in 1..(n + 1) : i = n + 1 \/ i \in 1..n
  OBVIOUS
<1>7. \A i \in 1..n : FrameOK(g, c, way, t[i])
  BY <1>2 DEF StackOK
<1>8. ASSUME NEW i \in 1..(n + 1)
      PROVE  FrameOK(g, c, way \cup {s}, v[i])
  <2>1. CASE i = n + 1
    BY <1>4, <1>5, <2>1 DEF FrameOK
  <2>2. CASE i \in 1..n
    BY <1>5, <1>7, <2>2 DEF FrameOK
  <2>3. QED
    BY <1>6, <2>1, <2>2
<1>9. \A i \in 1..n : v[i].seq # s
  BY <1>5, <1>7 DEF FrameOK
<1>10. ASSUME NEW i \in 1..(n + 1), NEW j \in 1..(n + 1), v[i].seq = v[j].seq
       PROVE  i = j
  <2>1. CASE i \in 1..n /\ j \in 1..n
    BY <1>2, <1>5, <1>10, <2>1 DEF StackOK
  <2>2. CASE i = n + 1 \/ j = n + 1
    BY <1>4, <1>5, <1>6, <1>9, <1>10, <2>2
  <2>3. QED
    BY <1>6, <2>1, <2>2
<1>11. ASSUME NEW i \in 1..n
       PROVE  Calls(g, c, v[i], v[i + 1].seq)
  <2>1. CASE i = n
    <3>1. n # 0 /\ t # <<>>
      BY <1>1, <1>2, <2>1
    <3>2. Asked(g, t[n]) \subseteq DOMAIN c \cup {s} /\ s \in g[t[n].seq]
      BY <1>2, <3>1 DEF StackOK, MayCall
    <3>3. QED
      BY <1>4, <1>5, <2>1, <3>2 DEF Calls
  <2>2. CASE i # n
    <3>1. i \in 1..(n - 1) /\ i + 1 \in 1..n
      BY <2>2
    <3>2. Calls(g, c, t[i], t[i + 1].seq)
      BY <1>2, <3>1 DEF StackOK
    <3>3. QED
      BY <1>5, <3>1, <3>2
  <2>3. QED
    BY <2>1, <2>2
<1>12. Asked(g, v[n + 1]) = {}
  BY <1>4, <1>5 DEF Asked
<1>13. way \cup {s} \subseteq DOMAIN c \cup OnStack(v)
  <2>1. s \in OnStack(v)
    <3>1. n + 1 \in 1..Len(v)
      BY <1>2, <1>5
    <3>2. v[n + 1].seq = s
      BY <1>4, <1>5
    <3>3. QED
      BY <3>1, <3>2 DEF OnStack
  <2>2. OnStack(t) \subseteq OnStack(v)
    <3>1. ASSUME NEW i \in 1..n PROVE t[i].seq \in OnStack(v)
      <4>1. i \in 1..Len(v) /\ v[i].seq = t[i].seq
        BY <1>5
      <4>2. QED
        BY <4>1 DEF OnStack
    <3>2. QED
      BY <1>2, <3>1 DEF OnStack
  <2>3. QED
    BY <2>1, <2>2 DEF StackOK
<1>14. StackOK(g, c, way \cup {s}, v, {})
  <2>1. Len(v) - 1 = n
    BY <1>5
  <2>2. QED
    BY <1>5, <1>8, <1>10, <1>11, <1>12, <1>13, <2>1 DEF StackOK
<1>15. v # <<>>
  BY <1>5
<1>16. v[1].seq = First(t, s)
  <2>1. CASE t = <<>>
    <3>1. n = 0
      BY <1>2, <2>1
    <3>2. QED
      BY <1>4, <1>5, <2>1, <3>1 DEF First
  <2>2. CASE t # <<>>
    <3>1. 1 \in 1..n
      BY <1>1, <1>2, <2>2
    <3>2. QED
      BY <1>5, <2>2, <3>1 DEF First
  <2>3. QED
    BY <2>1, <2>2
<1>17. QED
  BY <1>0, <1>14, <1>15, <1>16 DEF Come

(* The last call, all of whose dependencies have a level, gets one and goes. *)
LastCall(t, s) == s = t[Len(t)].seq /\ t[Len(t)].left = {}

Answered(g, c, s) == s \in DOMAIN g \ DOMAIN c /\ g[s] # {} /\ g[s] \subseteq DOMAIN c

Grown(c, s, e) == DOMAIN e = DOMAIN c \cup {s}

LEMMA PopKeeps ==
    ASSUME NEW g, NEW c, NEW way, NEW t, StackOK(g, c, way, t, {}), t # <<>>,
           NEW s, LastCall(t, s), NEW e, Grown(c, s, e)
    PROVE  /\ Answered(g, c, s)
           /\ StackOK(g, e, way \ {s}, Popped(t), {})
           /\ Come(e, Popped(t), t[1].seq)
<1>0. PICK v : v = Popped(t)
  OBVIOUS
<1>1. t \in Seq(Frame(g))
  BY DEF StackOK
<1>2. PICK n \in Nat : n = Len(t)
  BY <1>1
<1>3. n # 0 /\ n \in 1..n
  BY <1>1, <1>2
<1>4. \A i \in 1..n : t[i] \in Frame(g) /\ FrameOK(g, c, way, t[i])
  BY <1>1, <1>2 DEF StackOK
<1>5. t[n] \in Frame(g) /\ FrameOK(g, c, way, t[n]) /\ s = t[n].seq /\ t[n].left = {}
  BY <1>2, <1>3, <1>4 DEF LastCall
<1>6. s \in DOMAIN g \ DOMAIN c /\ g[s] # {}
  BY <1>5 DEF Frame, FrameOK
<1>7. g[s] \subseteq DOMAIN c
  <2>1. Asked(g, t[n]) \subseteq DOMAIN c
    BY <1>2 DEF StackOK
  <2>2. QED
    BY <1>5, <2>1 DEF Asked
<1>8. PICK k \in Nat : k = n - 1
  BY <1>3
<1>9. v \in Seq(Frame(g)) /\ Len(v) = k /\ \A i \in 1..k : v[i] = t[i]
  <2>1. \A i \in 1..k : t[i] \in Frame(g)
    BY <1>4, <1>8
  <2>2. /\ SubSeq(t, 1, k) \in Seq(Frame(g))
        /\ Len(SubSeq(t, 1, k)) = IF 1 <= k THEN k - 1 + 1 ELSE 0
        /\ \A i \in 1..(k - 1 + 1) : SubSeq(t, 1, k)[i] = t[1 + i - 1]
    BY <2>1, SubSeqProperties
  <2>3. v = SubSeq(t, 1, k)
    BY <1>0, <1>2, <1>8 DEF Popped
  <2>4. QED
    BY <2>2, <2>3
<1>10. \A i \in 1..k : i \in 1..n /\ v[i] = t[i] /\ v[i].seq # s
  <2>1. ASSUME NEW i \in 1..k PROVE t[i].seq # s
    <3>1. i \in 1..n /\ i # n
      BY <1>8
    <3>2. QED
      BY <1>2, <1>3, <1>5, <3>1 DEF StackOK
  <2>2. QED
    BY <1>8, <1>9, <2>1
<1>11. ASSUME NEW i \in 1..k
       PROVE  FrameOK(g, e, way \ {s}, v[i])
  BY <1>4, <1>10 DEF FrameOK, Grown
<1>12. \A i, j \in 1..k : v[i].seq = v[j].seq => i = j
  BY <1>2, <1>10 DEF StackOK
<1>13. ASSUME NEW i \in 1..(k - 1)
       PROVE  Calls(g, e, v[i], v[i + 1].seq)
  <2>1. i \in 1..(n - 1) /\ i \in 1..k /\ i + 1 \in 1..k
    BY <1>8
  <2>2. Calls(g, c, t[i], t[i + 1].seq)
    BY <1>2, <2>1 DEF StackOK
  <2>3. QED
    BY <1>10, <2>1, <2>2 DEF Calls, Grown
<1>14. ASSUME v # <<>>
       PROVE  Asked(g, v[k]) \subseteq DOMAIN e
  <2>1. k # 0
    BY <1>9, <1>14
  <2>2. k \in 1..(n - 1) /\ k \in 1..k /\ k + 1 = n
    BY <1>8, <2>1
  <2>3. Calls(g, c, t[k], s)
    BY <1>2, <1>5, <2>2 DEF StackOK
  <2>4. QED
    BY <1>10, <2>2, <2>3 DEF Calls, Grown
<1>15. way \ {s} \subseteq DOMAIN e \cup OnStack(v)
  <2>1. ASSUME NEW i \in 1..n, t[i].seq # s PROVE t[i].seq \in OnStack(v)
    <3>1. i \in 1..k
      BY <1>5, <1>8, <2>1
    <3>2. i \in 1..Len(v) /\ v[i].seq = t[i].seq
      BY <1>9, <3>1
    <3>3. QED
      BY <3>2 DEF OnStack
  <2>2. QED
    BY <1>2, <2>1 DEF StackOK, OnStack, Grown
<1>16. StackOK(g, e, way \ {s}, v, {})
  BY <1>9, <1>11, <1>12, <1>13, <1>14, <1>15 DEF StackOK
<1>17. t[1].seq = s \/ (v # <<>> /\ v[1].seq = t[1].seq)
  <2>1. CASE k = 0
    BY <1>5, <1>8, <2>1
  <2>2. CASE k # 0
    <3>1. v # <<>>
      <4>1. Len(v) # 0
        BY <1>9, <2>2
      <4>2. QED
        BY <4>1
    <3>2. 1 \in 1..k
      BY <2>2
    <3>3. QED
      BY <1>10, <3>1, <3>2
  <2>3. QED
    BY <2>1, <2>2
<1>18. Come(e, v, t[1].seq)
  BY <1>17 DEF Come, Grown
<1>19. QED
  BY <1>0, <1>6, <1>7, <1>16, <1>18 DEF Answered

-----------------------------------------------------------------------------
(* The graph of a finite list. *)

LEMMA GraphOf ==
    ASSUME NEW ps, IsFiniteSet(DOMAIN ps)
    PROVE  IsGraph(Dependencies(ps)) /\ DOMAIN Dependencies(ps) = SequenceNumbers(ps)
<1>1. DOMAIN Dependencies(ps) = SequenceNumbers(ps)
  BY DEF Dependencies
<1>2. IsFiniteSet(SequenceNumbers(ps))
  <2>1. PICK f : f = [i \in DOMAIN ps |-> ps[i].sequence]
    OBVIOUS
  <2>2. DOMAIN f = DOMAIN ps
    BY <2>1
  <2>3. SequenceNumbers(ps) = {f[i] : i \in DOMAIN ps}
    BY <2>1 DEF SequenceNumbers
  <2>4. QED
    BY <2>2, <2>3, ImageFinite
<1>3. \A names : Named(ps, names) \subseteq SequenceNumbers(ps)
  BY DEF Named, PromptByName, SequenceNumbers
<1>4. ASSUME NEW s \in SequenceNumbers(ps)
      PROVE  Dependencies(ps)[s] \subseteq SequenceNumbers(ps)
  BY <1>3 DEF Dependencies
<1>5. QED
  BY <1>1, <1>2, <1>4 DEF IsGraph

(* A walk begins with everything to come. *)
LEMMA BeginKeeps ==
    ASSUME NEW ps, IsFiniteSet(DOMAIN ps), Begin(ps)
    PROVE  WalkInv' /\ nodes' = Dependencies(ps)
<1>1. PICK g : g = Dependencies(ps)
  OBVIOUS
<1>2. nodes' = g /\ IsGraph(g) /\ todo' = DOMAIN g /\ stack' = <<>> /\ path' = {} /\ cache' = <<>>
  BY <1>1, GraphOf DEF Begin
<1>3. DOMAIN cache' = {}
  BY <1>2
<1>4. Solved(g, cache')
  BY <1>3 DEF Solved
<1>5. StackOK(g, cache', path', stack', {})
  <2>1. PICK c : c = cache'
    OBVIOUS
  <2>2. StackOK(g, c, {}, <<>>, {})
    BY EmptyStack
  <2>3. QED
    BY <1>2, <2>1, <2>2
<1>6. TodoOK(g, cache', stack', todo')
  BY <1>2 DEF TodoOK
<1>7. WalkInv' = (/\ IsGraph(nodes') /\ Solved(nodes', cache')
                  /\ StackOK(nodes', cache', path', stack', {})
                  /\ TodoOK(nodes', cache', stack', todo'))
  BY DEF WalkInv
<1>8. QED
  BY <1>1, <1>2, <1>4, <1>5, <1>6, <1>7

-----------------------------------------------------------------------------
(* A call for s, made by the last frame of below. *)
LEMMA CallKeeps ==
    ASSUME NEW g, g = nodes, IsGraph(g), NEW c, c = cache, Solved(g, c),
           NEW s \in DOMAIN g, NEW way, NEW below, StackOK(g, c, way, below, {s}),
           MayCall(g, below, s), Call(s, way, below)
    PROVE  /\ Solved(g, cache') /\ StackOK(g, cache', path', stack', {})
           /\ DOMAIN c \subseteq DOMAIN cache'
           /\ Come(cache', stack', First(below, s))
<1>1. PICK e, w, t : e = cache' /\ w = path' /\ t = stack'
  OBVIOUS
<1>2. CASE s \in DOMAIN c
  <2>1. e = c /\ w = way /\ t = below
    BY <1>1, <1>2 DEF Call, Assigned
  <2>2. StackOK(g, c, way, below, {})
    BY <1>2, ReturnKeeps
  <2>3. Come(c, below, First(below, s))
    BY <1>2 DEF Come, First
  <2>4. QED
    BY <1>1, <2>1, <2>2, <2>3
<1>3. CASE s \notin DOMAIN c /\ g[s] = {}
  <2>1. s \notin way /\ w = way \cup {s} /\ t = below /\ Caches(s, 0)
    BY <1>1, <1>3 DEF Call, Assigned
  <2>2. e = Extended(c, s, 0)
    BY <1>1, <2>1 DEF Caches, Extended
  <2>3. Solved(g, e) /\ DOMAIN e = DOMAIN c \cup {s}
    BY <1>3, <2>2, LeafSolved
  <2>4. StackOK(g, e, way \cup {s}, below, {})
    BY <1>3, <2>1, <2>3, LeafKeeps
  <2>5. Come(e, below, First(below, s))
    BY <2>3 DEF Come, First
  <2>6. QED
    BY <1>1, <2>1, <2>3, <2>4, <2>5
<1>4. CASE s \notin DOMAIN c /\ g[s] # {}
  <2>1. s \notin way /\ w = way \cup {s} /\ e = c /\ t = Pushed(g, below, s)
    BY <1>1, <1>4 DEF Call, Assigned, Pushed
  <2>2. g[s] \subseteq DOMAIN g
    BY DEF IsGraph
  <2>3. StackOK(g, c, way \cup {s}, Pushed(g, below, s), {})
    BY <1>4, <2>1, <2>2, PushKeeps
  <2>4. Come(c, Pushed(g, below, s), First(below, s))
    BY <1>4, <2>1, <2>2, PushKeeps
  <2>5. QED
    BY <1>1, <2>1, <2>3, <2>4
<1>5. QED
  BY <1>2, <1>3, <1>4

LEMMA CallLeaves ==
    ASSUME NEW s, NEW way, NEW below, Call(s, way, below)
    PROVE  UNCHANGED <<phase, nodes, graph, validated>>
BY DEF Call

LEMMA WalkAfter ==
    ASSUME NEW g, g = nodes', NEW c, c = cache', NEW w, w = path', NEW t, t = stack', NEW r, r = todo',
           IsGraph(g), Solved(g, c), StackOK(g, c, w, t, {}), TodoOK(g, c, t, r)
    PROVE  WalkInv'
BY DEF WalkInv

LEMMA NextNodeKeeps ==
    ASSUME WalkInv, NextNode
    PROVE  WalkInv' /\ UNCHANGED <<list, phase, nodes, graph, validated, drainVars>>
<1>1. PICK g, c, r : g = nodes /\ c = cache /\ r = todo
  OBVIOUS
<1>2. IsGraph(g) /\ Solved(g, c) /\ TodoOK(g, c, <<>>, r) /\ stack = <<>>
  BY <1>1 DEF WalkInv, NextNode
<1>3. PICK s \in r : todo' = r \ {s} /\ Call(s, {}, <<>>)
  BY <1>1, <1>2 DEF NextNode
<1>4. s \in DOMAIN g /\ StackOK(g, c, {}, <<>>, {s})
  BY <1>2, EmptyStack DEF TodoOK
<1>5. /\ Solved(g, cache') /\ StackOK(g, cache', path', stack', {})
      /\ DOMAIN c \subseteq DOMAIN cache'
      /\ Come(cache', stack', s)
      /\ UNCHANGED <<phase, nodes, graph, validated>>
  <2>1. PICK below : below = <<>>
    OBVIOUS
  <2>2. PICK way : way = {}
    OBVIOUS
  <2>3. StackOK(g, c, way, below, {s}) /\ Call(s, way, below)
    BY <1>3, <1>4, <2>1, <2>2
  <2>4. MayCall(g, below, s) /\ First(below, s) = s
    BY <2>1 DEF MayCall, First
  <2>5. /\ Solved(g, cache') /\ StackOK(g, cache', path', stack', {})
        /\ DOMAIN c \subseteq DOMAIN cache'
        /\ Come(cache', stack', First(below, s))
    BY <1>1, <1>2, <1>4, <2>3, <2>4, CallKeeps
  <2>6. QED
    BY <2>3, <2>4, <2>5, CallLeaves
<1>6. TodoOK(g, cache', stack', todo')
  <2>1. \A n \in DOMAIN g \ r : n \in DOMAIN c
    BY <1>2 DEF TodoOK, Come
  <2>2. \A n \in DOMAIN g \ r : Come(cache', stack', n)
    BY <1>5, <2>1 DEF Come
  <2>3. QED
    BY <1>2, <1>3, <1>5, <2>2 DEF TodoOK
<1>7. WalkInv'
  <2>1. PICK g1, c1, w1, t1, r1 :
             g1 = nodes' /\ c1 = cache' /\ w1 = path' /\ t1 = stack' /\ r1 = todo'
    OBVIOUS
  <2>2. g1 = g
    BY <1>1, <1>5, <2>1
  <2>3. QED
    BY <1>2, <1>5, <1>6, <2>1, <2>2, WalkAfter
<1>8. QED
  BY <1>5, <1>7 DEF NextNode

LEMMA NextDependencyKeeps ==
    ASSUME WalkInv, NextDependency
    PROVE  WalkInv' /\ UNCHANGED <<list, phase, nodes, graph, validated, drainVars>>
<1>1. PICK g, c, w, t, r : g = nodes /\ c = cache /\ w = path /\ t = stack /\ r = todo
  OBVIOUS
<1>2. /\ IsGraph(g) /\ Solved(g, c) /\ StackOK(g, c, w, t, {}) /\ TodoOK(g, c, t, r)
      /\ t # <<>>
  BY <1>1 DEF WalkInv, NextDependency
<1>3. PICK d \in t[Len(t)].left : Call(d, w, Asks(t, d))
  BY <1>1 DEF NextDependency, Top, Under, Asks
<1>4. PICK below : below = Asks(t, d)
  OBVIOUS
<1>5. /\ StackOK(g, c, w, below, {d}) /\ d \in g[t[Len(t)].seq] /\ d \in DOMAIN g
  BY <1>2, <1>3, <1>4, AskKeeps
<1>6. /\ below # <<>> /\ below[1].seq = t[1].seq
      /\ below[Len(below)].seq = t[Len(t)].seq
  <2>1. PICK n \in Nat : n = Len(t)
    BY <1>2 DEF StackOK
  <2>2. n # 0
    BY <1>2, <2>1 DEF StackOK
  <2>3. below # <<>> /\ Len(below) = n /\ \A i \in 1..n : below[i].seq = t[i].seq
    BY <1>2, <1>3, <1>4, <2>1, AsksIs DEF StackOK
  <2>4. QED
    BY <2>1, <2>2, <2>3
<1>7. /\ Solved(g, cache') /\ StackOK(g, cache', path', stack', {})
      /\ DOMAIN c \subseteq DOMAIN cache'
      /\ Come(cache', stack', t[1].seq)
      /\ UNCHANGED <<phase, nodes, graph, validated>>
  <2>1. MayCall(g, below, d) /\ First(below, d) = t[1].seq
    BY <1>5, <1>6 DEF MayCall, First
  <2>2. Call(d, w, below)
    BY <1>3, <1>4
  <2>3. /\ Solved(g, cache') /\ StackOK(g, cache', path', stack', {})
        /\ DOMAIN c \subseteq DOMAIN cache'
        /\ Come(cache', stack', First(below, d))
    BY <1>1, <1>2, <1>5, <2>1, <2>2, CallKeeps
  <2>4. QED
    BY <2>1, <2>2, <2>3, CallLeaves
<1>8. todo' = r
  BY <1>1 DEF NextDependency
<1>9. TodoOK(g, cache', stack', todo')
  <2>1. \A n \in DOMAIN g \ r : n \in DOMAIN c \/ n = t[1].seq
    BY <1>2 DEF TodoOK, Come
  <2>2. \A n \in DOMAIN g \ r : Come(cache', stack', n)
    BY <1>7, <2>1 DEF Come
  <2>3. QED
    BY <1>2, <1>8, <2>2 DEF TodoOK
<1>10. WalkInv'
  <2>1. PICK g1, c1, w1, t1, r1 :
             g1 = nodes' /\ c1 = cache' /\ w1 = path' /\ t1 = stack' /\ r1 = todo'
    OBVIOUS
  <2>2. g1 = g
    BY <1>1, <1>7, <2>1
  <2>3. QED
    BY <1>2, <1>7, <1>9, <2>1, <2>2, WalkAfter
<1>11. QED
  BY <1>7, <1>10 DEF NextDependency

LEMMA AssignLevelKeeps ==
    ASSUME WalkInv, AssignLevel
    PROVE  WalkInv'
<1>1. PICK g, c, w, t, r : g = nodes /\ c = cache /\ w = path /\ t = stack /\ r = todo
  OBVIOUS
<1>2. /\ IsGraph(g) /\ Solved(g, c) /\ StackOK(g, c, w, t, {}) /\ TodoOK(g, c, t, r)
      /\ t # <<>>
  BY <1>1 DEF WalkInv, AssignLevel
<1>3. PICK s : s = t[Len(t)].seq
  OBVIOUS
<1>4. PICK l : l = LevelAbove({c[d] : d \in g[s]})
  OBVIOUS
<1>5. PICK e, v : e = cache' /\ v = stack'
  OBVIOUS
<1>6. /\ e = Extended(c, s, l)
      /\ v = Popped(t) /\ t[Len(t)].left = {}
      /\ path' = w \ {s} /\ nodes' = g /\ todo' = r
  BY <1>1, <1>3, <1>4, <1>5 DEF AssignLevel, Caches, Extended, Top, Under, Popped
<1>7. DOMAIN e = DOMAIN c \cup {s}
  BY <1>6, ExtendedDomain
<1>8. /\ Answered(g, c, s)
      /\ StackOK(g, e, w \ {s}, Popped(t), {})
      /\ Come(e, Popped(t), t[1].seq)
  <2>1. LastCall(t, s) /\ Grown(c, s, e)
    BY <1>3, <1>6, <1>7 DEF LastCall, Grown
  <2>2. QED
    BY <1>2, <2>1, PopKeeps
<1>9. Solved(g, e)
  BY <1>2, <1>4, <1>6, <1>8, AboveSolved DEF Answered
<1>10. TodoOK(g, e, v, r)
  <2>1. \A n \in DOMAIN g \ r : n \in DOMAIN c \/ n = t[1].seq
    BY <1>2 DEF TodoOK, Come
  <2>2. \A n \in DOMAIN g \ r : Come(e, v, n)
    BY <1>6, <1>7, <1>8, <2>1 DEF Come
  <2>3. QED
    BY <1>2, <2>2 DEF TodoOK
<1>11. PICK w1 : w1 = path'
  OBVIOUS
<1>12. QED
  BY <1>2, <1>5, <1>6, <1>8, <1>9, <1>10, <1>11, WalkAfter

LEMMA WalkStays ==
    ASSUME WalkInv, UNCHANGED walkVars
    PROVE  WalkInv'
BY DEF WalkInv, walkVars

(* Every step keeps the invariant of the walk. *)
LEMMA NextWalk ==
    ASSUME IInv, [Next]_vars
    PROVE  WalkInv'
<1>1. WalkInv /\ IsFiniteSet(DOMAIN list)
  BY ListsAreFinite DEF IInv, GraphInv
<1>2. CASE Validate
  <2>1. PICK ps : ps = ValidationList(list)
    OBVIOUS
  <2>2. DOMAIN ps = DOMAIN list
    BY <2>1 DEF ValidationList
  <2>3. IsFiniteSet(DOMAIN ps) /\ Begin(ps)
    BY <1>1, <1>2, <2>1, <2>2 DEF Validate
  <2>4. QED
    BY <2>3, BeginKeeps
<1>3. CASE BuildGraph
  <2>1. PICK ps : ps = list
    OBVIOUS
  <2>2. IsFiniteSet(DOMAIN ps) /\ Begin(ps)
    BY <1>1, <1>3, <2>1 DEF BuildGraph
  <2>3. QED
    BY <2>2, BeginKeeps
<1>4. CASE NextNode
  BY <1>1, <1>4, NextNodeKeeps
<1>5. CASE NextDependency
  BY <1>1, <1>5, NextDependencyKeeps
<1>6. CASE CycleDetected
  BY <1>1, <1>6, WalkStays DEF CycleDetected, Returns
<1>7. CASE AssignLevel
  BY <1>1, <1>7, AssignLevelKeeps
<1>8. CASE AllAssigned
  BY <1>1, <1>8, WalkStays DEF AllAssigned, Returns
<1>9. CASE StartReady \/ Complete
  BY <1>1, <1>9, WalkStays DEF StartReady, Complete
<1>10. CASE Done \/ UNCHANGED vars
  BY <1>1, <1>10, WalkStays DEF Done, vars
<1>11. QED
  BY <1>2, <1>3, <1>4, <1>5, <1>6, <1>7, <1>8, <1>9, <1>10 DEF Next, Walk

(* A walk that has come to all nodes and has no call under way has levelled
   them. *)
LEMMA AllLevelled ==
    ASSUME WalkInv, stack = <<>>, todo = {}
    PROVE  Levelled(nodes, cache)
BY DEF WalkInv, TodoOK, Come, Levelled, Solved

(* A walk that raises met a cycle. *)
LEMMA RaisedCyclic ==
    ASSUME WalkInv, CycleDetected
    PROVE  Cyclic(nodes)
<1>1. PICK g, c, w, t : g = nodes /\ c = cache /\ w = path /\ t = stack
  OBVIOUS
<1>2. IsGraph(g) /\ StackOK(g, c, w, t, {}) /\ t # <<>>
  BY <1>1 DEF WalkInv, CycleDetected
<1>3. PICK d \in t[Len(t)].left : d \in w /\ d \notin DOMAIN c
  BY <1>1 DEF CycleDetected, Raises, Assigned, Top
<1>4. Cyclic(g)
  BY <1>2, <1>3, StackCycle
<1>5. QED
  BY <1>1, <1>4

LEMMA GraphStays ==
    ASSUME GraphInv, UNCHANGED <<list, phase, graph>>, phase = "building" => UNCHANGED nodes
    PROVE  GraphInv'
BY DEF GraphInv

LEMMA NextGraph ==
    ASSUME IInv, [Next]_vars
    PROVE  GraphInv'
<1>1. WalkInv /\ GraphInv
  BY DEF IInv
<1>2. CASE Validate
  BY <1>1, <1>2 DEF Validate, GraphInv
<1>3. CASE BuildGraph
  <2>1. nodes' = Dependencies(list)
    BY <1>3 DEF BuildGraph, Begin
  <2>2. QED
    BY <1>1, <1>3, <2>1 DEF BuildGraph, GraphInv
<1>4. CASE NextNode
  BY <1>1, <1>4, NextNodeKeeps, GraphStays
<1>5. CASE NextDependency
  BY <1>1, <1>5, NextDependencyKeeps, GraphStays
<1>6. CASE CycleDetected
  <2>1. Cyclic(nodes)
    BY <1>1, <1>6, RaisedCyclic
  <2>2. CASE phase = "validating"
    BY <1>1, <1>6, <2>2 DEF CycleDetected, Returns, GraphInv, Walking
  <2>3. CASE phase = "building"
    <3>1. /\ phase' = "over" /\ list' = list
          /\ graph' = [NoGraph EXCEPT !.outcome = "cycle"]
      BY <1>6, <2>3 DEF CycleDetected, Returns
    <3>2. graph'.outcome = "cycle"
      BY <3>1 DEF NoGraph
    <3>3. Cyclic(Dependencies(list'))
      BY <1>1, <2>1, <2>3, <3>1 DEF GraphInv
    <3>4. QED
      BY <1>1, <3>1, <3>2, <3>3 DEF GraphInv
  <2>4. QED
    BY <1>6, <2>2, <2>3 DEF CycleDetected, Walking
<1>7. CASE AssignLevel
  BY <1>1, <1>7, GraphStays DEF AssignLevel
<1>8. CASE AllAssigned
  <2>1. Levelled(nodes, cache)
    BY <1>1, <1>8, AllLevelled DEF AllAssigned
  <2>2. CASE phase = "validating"
    BY <1>1, <1>8, <2>2 DEF AllAssigned, Returns, GraphInv, Walking
  <2>3. CASE phase = "building"
    <3>1. /\ phase' = "over" /\ list' = list
          /\ graph' = [outcome |-> "built", deps |-> nodes, level |-> cache]
      BY <1>8, <2>3 DEF AllAssigned, Returns
    <3>2. graph'.outcome = "built" /\ graph'.deps = nodes /\ graph'.level = cache
      BY <3>1
    <3>3. graph'.deps = Dependencies(list')
      BY <1>1, <2>3, <3>1, <3>2 DEF GraphInv
    <3>4. Levelled(graph'.deps, graph'.level)
      BY <2>1, <3>2
    <3>5. QED
      BY <1>1, <3>1, <3>2, <3>3, <3>4 DEF GraphInv
  <2>4. QED
    BY <1>8, <2>2, <2>3 DEF AllAssigned, Walking
<1>9. CASE StartReady \/ Complete
  BY <1>1, <1>9, GraphStays DEF StartReady, Complete, walkVars
<1>10. CASE Done \/ UNCHANGED vars
  BY <1>1, <1>10, GraphStays DEF Done, vars, walkVars
<1>11. QED
  BY <1>2, <1>3, <1>4, <1>5, <1>6, <1>7, <1>8, <1>9, <1>10 DEF Next, Walk

LEMMA DrainStays ==
    ASSUME DrainInv, UNCHANGED <<graph, drainVars>>
    PROVE  DrainInv'
BY DEF DrainInv, drainVars

LEMMA NextDrain ==
    ASSUME IInv, [Next]_vars
    PROVE  DrainInv'
<1>1. WalkInv /\ GraphInv /\ DrainInv
  BY DEF IInv
<1>2. CASE Validate \/ BuildGraph
  BY <1>1, <1>2, DrainStays DEF Validate, BuildGraph
<1>3. CASE NextNode
  BY <1>1, <1>3, NextNodeKeeps, DrainStays
<1>4. CASE NextDependency
  BY <1>1, <1>4, NextDependencyKeeps, DrainStays
<1>5. CASE CycleDetected \/ AllAssigned
  <2>1. graph.outcome # "built" /\ UNCHANGED drainVars
    BY <1>1, <1>5 DEF CycleDetected, AllAssigned, Returns, Walking, GraphInv
  <2>2. in_progress' = {} /\ completed' = {}
    BY <1>1, <2>1 DEF DrainInv, drainVars
  <2>3. QED
    BY <2>2 DEF DrainInv
<1>6. CASE AssignLevel
  BY <1>1, <1>6, DrainStays DEF AssignLevel
<1>7. CASE StartReady
  <2>1. /\ graph.outcome = "built" /\ UNCHANGED <<graph, completed>>
        /\ \E s \in Ready : in_progress' = in_progress \cup {s}
    BY <1>7 DEF StartReady
  <2>2. QED
    BY <1>1, <2>1 DEF DrainInv, Ready, Pending
<1>8. CASE Complete
  <2>1. PICK s \in in_progress : /\ completed' = completed \cup {s}
                                 /\ in_progress' = in_progress \ {s}
    BY <1>8 DEF Complete
  <2>2. graph' = graph
    BY <1>8 DEF Complete
  <2>3. QED
    BY <1>1, <2>1, <2>2 DEF DrainInv
<1>9. CASE Done \/ UNCHANGED vars
  BY <1>1, <1>9, DrainStays DEF Done, vars
<1>10. QED
  BY <1>2, <1>3, <1>4, <1>5, <1>6, <1>7, <1>8, <1>9 DEF Next, Walk

LEMMA InitInv == Init => IInv
<1> SUFFICES ASSUME Init PROVE IInv
  OBVIOUS
<1>1. WalkInv
  <2>1. PICK g, c, w, t, r : g = nodes /\ c = cache /\ w = path /\ t = stack /\ r = todo
    OBVIOUS
  <2>2. g = <<>> /\ c = <<>> /\ w = {} /\ t = <<>> /\ r = {}
    BY <2>1 DEF Init
  <2>3. DOMAIN g = {} /\ DOMAIN c = {}
    BY <2>2
  <2>4. IsGraph(g)
    BY <2>3, FS_EmptySet DEF IsGraph
  <2>5. Solved(g, c)
    BY <2>3 DEF Solved
  <2>6. StackOK(g, c, w, t, {})
    BY <2>2, EmptyStack
  <2>7. TodoOK(g, c, t, r)
    BY <2>2, <2>3 DEF TodoOK
  <2>8. QED
    BY <2>1, <2>4, <2>5, <2>6, <2>7 DEF WalkInv
<1>2. graph.outcome = "none"
  BY DEF Init, NoGraph
<1>3. GraphInv
  BY <1>2 DEF Init, GraphInv
<1>4. DrainInv
  BY <1>2 DEF Init, DrainInv
<1>5. QED
  BY <1>1, <1>3, <1>4 DEF IInv

-----------------------------------------------------------------------------
(* The invariant of the walk, of what it builds and of the drain: the calls on
   the stack of assign_levels ask each other, the levels given so far solve
   the equation of the levels, and a built graph is levelled. *)
THEOREM Invariant == Spec => []IInv
<1>1. Init => IInv
  BY InitInv
<1>2. IInv /\ [Next]_vars => IInv'
  BY NextWalk, NextGraph, NextDrain DEF IInv
<1>3. QED
  BY <1>1, <1>2, PTL DEF Spec

(* build_execution_graph_with_edges raises exactly on the lists whose
   dependencies form a cycle, in whatever order it asks them. *)
THEOREM CyclesAreFound == Spec => []CyclesFound
<1>1. IInv => CyclesFound
  <2> SUFFICES ASSUME IInv PROVE CyclesFound
    OBVIOUS
  <2>1. graph.outcome = "built" => ~Cyclic(Dependencies(list))
    <3> SUFFICES ASSUME graph.outcome = "built" PROVE ~Cyclic(Dependencies(list))
      OBVIOUS
    <3>1. PICK g, c, ps : g = graph.deps /\ c = graph.level /\ ps = list
      OBVIOUS
    <3>2. g = Dependencies(ps) /\ Levelled(g, c) /\ IsFiniteSet(DOMAIN ps)
      BY <3>1, ListsAreFinite DEF IInv, GraphInv
    <3>3. IsGraph(g)
      BY <3>2, GraphOf
    <3>4. QED
      BY <3>1, <3>2, <3>3, LevelledAcyclic
  <2>2. QED
    BY <2>1 DEF IInv, GraphInv, CyclesFound
<1>2. QED
  BY <1>1, Invariant, PTL

(* The graph that was built, in rigid names. *)
LEMMA BuiltIs ==
    ASSUME IInv, graph.outcome = "built",
           NEW g, g = graph.deps, NEW c, c = graph.level
    PROVE  IsGraph(g) /\ Levelled(g, c)
<1>1. PICK ps : ps = list
  OBVIOUS
<1>2. g = Dependencies(ps) /\ Levelled(g, c) /\ IsFiniteSet(DOMAIN ps)
  BY <1>1, ListsAreFinite DEF IInv, GraphInv
<1>3. QED
  BY <1>2, GraphOf

(* The level of a prompt is the length of the longest chain of dependencies
   below it. *)
THEOREM LevelsAre == Spec => []LevelsAreDepths
<1>1. IInv => LevelsAreDepths
  <2> SUFFICES ASSUME IInv, graph.outcome = "built",
                      NEW s \in DOMAIN graph.deps
               PROVE  graph.level[s] = Max(Lengths(graph.deps, s))
    BY DEF LevelsAreDepths, Lengths
  <2>1. PICK g, c : g = graph.deps /\ c = graph.level
    OBVIOUS
  <2>2. IsGraph(g) /\ Levelled(g, c) /\ s \in DOMAIN g
    BY <2>1, BuiltIs
  <2>3. c[s] = Max(Lengths(g, s))
    BY <2>2, LevelIsDepth
  <2>4. QED
    BY <2>1, <2>3
<1>2. QED
  BY <1>1, Invariant, PTL

(* Draining a built graph through get_ready_prompts never stalls: what has the
   lowest level of all that is not completed is ready or under way. And each
   prompt is handed out after all it depends on. *)
THEOREM Drains == Spec => []ReadyDrains
<1>1. IInv => ReadyDrains
  <2> SUFFICES ASSUME IInv, graph.outcome = "built" PROVE ReadyDrains
    BY DEF ReadyDrains
  <2>1. \A s \in in_progress \cup completed :
            s \in DOMAIN graph.deps /\ graph.deps[s] \subseteq completed
    BY DEF IInv, DrainInv
  <2>2. ASSUME completed # DOMAIN graph.deps
        PROVE  Ready \cup in_progress # {}
    <3>1. PICK g, c, done : g = graph.deps /\ c = graph.level /\ done = completed
      OBVIOUS
    <3>2. IsGraph(g) /\ Levelled(g, c)
      BY <3>1, BuiltIs
    <3> DEFINE T == {c[s] : s \in DOMAIN g \ done}
    <3>3. T \in SUBSET Nat
      BY <3>2 DEF Levelled, Solved, LevelSolved
    <3>4. T # {}
      BY <2>1, <2>2, <3>1
    <3>5. PICK x \in T : \A y \in T : x <= y
      <4> HIDE DEF T
      <4> QED
        BY <3>3, <3>4, LeastNat
    <3>6. PICK s \in DOMAIN g \ done : c[s] = x
      OBVIOUS
    <3>7. ASSUME NEW d \in g[s], d \notin done
          PROVE  FALSE
      <4>1. d \in DOMAIN g
        BY <3>2 DEF IsGraph
      <4>2. c[s] <= c[d]
        BY <3>5, <3>6, <3>7, <4>1
      <4>3. c[d] < c[s] /\ c[s] \in Nat /\ c[d] \in Nat
        BY <3>2, <4>1 DEF Levelled, Solved, LevelSolved
      <4>4. QED
        BY <4>2, <4>3
    <3>8. s \in Ready \/ s \in in_progress
      BY <3>1, <3>6, <3>7 DEF Ready, Pending
    <3>9. QED
      BY <3>8
  <2>3. QED
    BY <2>1, <2>2 DEF ReadyDrains
<1>2. QED
  BY <1>1, Invariant, PTL
=============================================================================
