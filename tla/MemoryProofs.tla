---------------------------- MODULE MemoryProofs ----------------------------
(***************************************************************************)
(* Theorems of Memory, for every set of embedding models, any number of    *)
(* turns, uses and ends of the process.                                    *)
(***************************************************************************)
EXTENDS Memory, SequenceTheorems, TLAPS

-----------------------------------------------------------------------------
(* Rows and lists: records, read and written as functions of the part. *)

Values(p) == IF p = "embeddings" THEN Embedding ELSE Turn

LEMMA PartRecord ==
    ASSUME NEW f, NEW S, NEW T, f = [p \in Part |-> f[p]],
           f["texts"] \in S, f["turns"] \in S, f["metadatas"] \in S, f["embeddings"] \in T
    PROVE  f \in [texts : S, embeddings : T, turns : S, metadatas : S]
  BY DEF Part

LEMMA IsRow ==
    ASSUME NEW f, f = [p \in Part |-> f[p]], \A p \in Part : f[p] \in Values(p)
    PROVE  f \in RowType
  BY PartRecord DEF RowType, Part, Values

LEMMA RowParts ==
    ASSUME NEW r \in RowType
    PROVE  r = [p \in Part |-> r[p]] /\ \A p \in Part : r[p] \in Values(p)
  BY DEF RowType, Part, Values

LEMMA IsStore ==
    ASSUME NEW f, f = [p \in Part |-> f[p]], \A p \in Part : f[p] \in Seq(Values(p))
    PROVE  f \in StoreType
  BY PartRecord DEF StoreType, Part, Values

LEMMA StoreParts ==
    ASSUME NEW s \in StoreType
    PROVE  s = [p \in Part |-> s[p]] /\ \A p \in Part : s[p] \in Seq(Values(p))
  BY DEF StoreType, Part, Values

LEMMA EmptyStoreType == EmptyStore \in StoreType
<1>1. \A p \in Part : EmptyStore[p] \in Seq(Values(p))
  BY DEF EmptyStore
<1>2. EmptyStore = [p \in Part |-> EmptyStore[p]]
  BY DEF EmptyStore
<1>3. QED
  BY <1>1, <1>2, IsStore

LEMMA NewRowType == \A t \in Turn, m \in Model : NewRow(t, m) \in RowType
  BY IsRow DEF NewRow, Embedding, Values

(* Entry i, where all lists reach it. *)
LEMMA RowIsRow ==
    ASSUME store \in StoreType, NEW i \in Nat \ {0}, Readable(i)
    PROVE  Row(i) \in RowType
  BY IsRow, StoreParts DEF Row, Readable

LEMMA AppendPartType ==
    ASSUME store \in StoreType, NEW p \in Part, NEW row \in RowType
    PROVE  [store EXCEPT ![p] = Append(@, row[p])] \in StoreType
<1> DEFINE s == [store EXCEPT ![p] = Append(@, row[p])]
<1>1. store = [q \in Part |-> store[q]] /\ \A q \in Part : store[q] \in Seq(Values(q))
  BY StoreParts
<1>2. row[p] \in Values(p)
  BY RowParts
<1>3. s = [q \in Part |-> s[q]]
  BY <1>1
<1>4. \A q \in Part : s[q] = IF q = p THEN Append(store[q], row[q]) ELSE store[q]
  BY <1>1
<1>5. \A q \in Part : s[q] \in Seq(Values(q))
  BY <1>1, <1>2, <1>4
<1>6. s \in StoreType
  <2> HIDE DEF s
  <2>1. QED
    BY <1>3, <1>5, IsStore
<1>7. QED
  BY <1>6

LEMMA AppendRowType ==
    ASSUME store \in StoreType, NEW row \in RowType
    PROVE  [p \in Part |-> Append(store[p], row[p])] \in StoreType
<1> DEFINE s == [p \in Part |-> Append(store[p], row[p])]
<1>1. \A p \in Part : s[p] \in Seq(Values(p))
  BY StoreParts, RowParts
<1>2. s = [p \in Part |-> s[p]]
  OBVIOUS
<1>3. s \in StoreType
  <2> HIDE DEF s
  <2>1. QED
    BY <1>1, <1>2, IsStore
<1>4. QED
  BY <1>3

LEMMA MovedType ==
    ASSUME NEW row \in RowType, NEW m \in Model
    PROVE  [row EXCEPT !.embeddings.model = m] \in RowType
  BY DEF RowType, Embedding

(* The columns of rows, as Start rebuilds them from the file. *)
LEMMA ColumnsType ==
    ASSUME NEW rows \in Seq(RowType)
    PROVE  [p \in Part |-> [i \in DOMAIN rows |-> rows[i][p]]] \in StoreType
<1> DEFINE s == [p \in Part |-> [i \in DOMAIN rows |-> rows[i][p]]]
<1>1. ASSUME NEW p \in Part PROVE s[p] \in Seq(Values(p))
  <2>1. \A i \in 1..Len(rows) : rows[i][p] \in Values(p)
    BY RowParts
  <2>2. s[p] = [i \in 1..Len(rows) |-> rows[i][p]]
    OBVIOUS
  <2>3. QED
    BY <2>1, <2>2
<1>2. s = [p \in Part |-> s[p]]
  OBVIOUS
<1>3. s \in StoreType
  <2> HIDE DEF s
  <2>1. QED
    BY <1>1, <1>2, IsStore
<1>4. QED
  BY <1>3

LEMMA RowsType ==
    ASSUME store \in StoreType, \A i \in 1..count : Readable(i)
    PROVE  Rows \in Seq(RowType)
<1>1. count \in Nat
  BY StoreParts DEF count, Part
<1>2. \A i \in 1..count : Row(i) \in RowType
  BY <1>1, RowIsRow
<1>3. QED
  BY <1>1, <1>2 DEF Rows

-----------------------------------------------------------------------------
(* The inductive invariant. *)

Rewriting == user.op \in {"wipe", "readd", "rebind"}

(* What each actor holds, wherever it stands. *)
ActorInv ==
    /\ worker.step = "idle" => worker = IdleWorker
    /\ worker.step \in {"embed"} \union Part => worker.turn \in Turn /\ worker.model \in Model
    /\ user.op = "idle" => user.rows = <<>>
    /\ user.op = "search" => user.last = "none"
    /\ Rewriting /\ user.rows # <<>> => user.model \in Model /\ user.upto \in 1..Len(user.rows)
    /\ user.op = "wipe" => user.upto <= 1
    /\ user.op \in {"readd", "rebind"} => user.rows # <<>>
    /\ user.op = "rebind" => user.upto = Len(user.rows)

(* A process that is down holds nothing, and one that refused to start met a
   torn file. *)
ProcessInv ==
    /\ user.op # "idle" => process \in {"up", "closed"}
    /\ process \in {"down", "refused"} =>
          /\ queue = <<>> /\ worker = IdleWorker /\ store = EmptyStore /\ gone = 1..recorded
    /\ process = "refused" => file.kind = "torn"
    /\ file.kind # "whole" => file.rows = <<>>

(* An overlap is noticed as it happens. *)
OverlapInv == Overlap => overlapped

(* The entries that have all their parts: metadatas comes last. *)
Full == Len(store.metadatas)

After == [texts |-> {"embeddings", "turns", "metadatas"}, embeddings |-> {"turns", "metadatas"},
          turns |-> {"metadatas"}, metadatas |-> {}]

(* The lists that hold a part of the entry being added already. *)
Ahead == {p \in Part : worker.step \in After[p]}

WholeRow(r) ==
    r.embeddings.turn = r.texts /\ r.turns = r.texts /\ r.metadatas = r.texts

(* Rows of different turns among the first n. *)
GoodRows(rows, n) ==
    /\ \A i \in DOMAIN rows : WholeRow(rows[i]) /\ rows[i].texts \in 1..n
    /\ \A i, j \in DOMAIN rows : rows[i].texts = rows[j].texts => i = j

Entire == [i \in 1..Full |-> Row(i)]

(* The store: whole entries, and in front of them the parts of the one being
   added. *)
ShapeInv ==
    /\ \A p \in Part : Len(store[p]) = Full + (IF p \in Ahead THEN 1 ELSE 0)
    /\ \A p \in Ahead : store[p][Full + 1] = NewRow(worker.turn, worker.model)[p]
    /\ Ahead # {} => \A i \in 1..Full : store.texts[i] # worker.turn
    /\ GoodRows(Entire, recorded)

Moved(row) == [row EXCEPT !.embeddings.model = user.model]

(* What the thread is about to write is the store; what a reindexing holds was
   the store, and what it has added again is that under the new model. *)
CopyInv ==
    /\ GoodRows(file.rows, recorded)
    /\ worker.step \in {"open", "write"} => worker.rows = Entire
    /\ user.op = "wipe" /\ user.rows # <<>> => user.rows = Entire
    /\ Rewriting => GoodRows(user.rows, recorded)
    /\ user.op = "readd" => Full = user.upto - 1
    /\ user.op = "rebind" => Full = user.upto
    /\ user.op \in {"readd", "rebind"} => \A i \in 1..Full : Row(i) = Moved(user.rows[i])
    /\ user.op = "search" => user.upto <= count

TurnInv ==
    /\ 1..recorded = Pending \union Stored \union gone
    /\ Pending \intersect Stored = {} /\ gone \intersect (Pending \union Stored) = {}
    /\ \A i, j \in DOMAIN queue : queue[i] = queue[j] => i = j
    /\ worker.step \in {"embed", "texts"} => \A i \in DOMAIN queue : queue[i] # worker.turn

StoreInv == ~overlapped => ShapeInv /\ CopyInv /\ TurnInv

IInv == TypeOK /\ ActorInv /\ ProcessInv /\ OverlapInv /\ StoreInv

-----------------------------------------------------------------------------
(* Type correctness. *)

LEMMA InitTypeOK == Init => TypeOK
<1> SUFFICES ASSUME Init PROVE TypeOK
  OBVIOUS
<1>1. worker \in WorkerType /\ user \in UserType /\ file \in FileType
  BY DEF Init, IdleWorker, IdleUser, NoFile, WorkerType, UserType, FileType
<1>2. store \in StoreType
  BY EmptyStoreType DEF Init
<1>3. recorded \in 0..MaxRecords /\ uses \in 0..MaxUses /\ ends \in 0..MaxEnds
  BY MemoryAssumption DEF Init
<1>4. queue \in Seq(Turn)
  BY DEF Init
<1>5. QED
  BY <1>1, <1>2, <1>3, <1>4 DEF Init, TypeOK

(* The records of the application's thread. *)
LEMMA UserRecords ==
    /\ IdleUser \in UserType
    /\ \A l \in {"none", "hits", "raised", "unembedded"} : [IdleUser EXCEPT !.last = l] \in UserType
    /\ \A n \in Nat : [IdleUser EXCEPT !.op = "search", !.upto = n] \in UserType
    /\ [IdleUser EXCEPT !.op = "wipe"] \in UserType
    /\ \A rows \in Seq(RowType), m \in Model :
          [IdleUser EXCEPT !.op = "wipe", !.rows = rows, !.upto = 1, !.model = m] \in UserType
<1>1. IdleUser \in UserType
  BY DEF IdleUser, UserType
<1>2. \A l \in {"none", "hits", "raised", "unembedded"} : [IdleUser EXCEPT !.last = l] \in UserType
  BY <1>1 DEF UserType
<1>3. \A n \in Nat : [IdleUser EXCEPT !.op = "search", !.upto = n] \in UserType
  BY <1>1 DEF UserType
<1>4. [IdleUser EXCEPT !.op = "wipe"] \in UserType
  BY <1>1 DEF UserType
<1>5. \A rows \in Seq(RowType), m \in Model :
          [IdleUser EXCEPT !.op = "wipe", !.rows = rows, !.upto = 1, !.model = m] \in UserType
  BY <1>1 DEF UserType
<1>6. QED
  BY <1>1, <1>2, <1>3, <1>4, <1>5

(* A call of the application changes its own record and the backend. *)
LEMMA UseTypeOK ==
    ASSUME TypeOK, NEW op \in UserType, Use(op), backend' \in Model, overlapped' \in BOOLEAN
    PROVE  TypeOK'
<1>1. uses' \in 0..MaxUses
  BY MemoryAssumption DEF Use, TypeOK
<1>2. QED
  BY <1>1 DEF Use, TypeOK

LEMMA NextTypeOK == TypeOK /\ ActorInv /\ Next => TypeOK'
<1> SUFFICES ASSUME TypeOK, ActorInv, Next PROVE TypeOK'
  OBVIOUS
<1>0. overlapped' \in BOOLEAN /\ Step
  BY Zenon DEF Next
<1>a. Turn \subseteq Nat \ {0} /\ Part \subseteq {"texts", "embeddings", "turns", "metadatas"}
  BY DEF Turn, Part
<1>b. IdleWorker \in WorkerType /\ IdleUser \in UserType /\ NoFile \in FileType /\ Torn \in FileType
  BY DEF IdleWorker, IdleUser, NoFile, Torn, WorkerType, UserType, FileType
<1>1. CASE Record
  <2>1. recorded' \in Turn
    BY <1>1, MemoryAssumption DEF Record, TypeOK, Turn
  <2>2. recorded' \in 0..MaxRecords
    BY <2>1, MemoryAssumption DEF Turn
  <2>3. queue' \in Seq(Turn) /\ gone' \subseteq Turn
    <3>1. CASE process = "up"
      <4>1. queue' = Append(queue, recorded') /\ gone' = gone
        BY <1>1, <3>1 DEF Record
      <4>2. QED
        BY <2>1, <4>1 DEF TypeOK
    <3>2. CASE process # "up"
      BY <1>1, <2>1, <3>2 DEF Record, TypeOK
    <3>3. QED
      BY <3>1, <3>2
  <2>4. QED
    BY <1>0, <1>1, <2>2, <2>3 DEF Record, TypeOK
<1>2. CASE Search
  <2>1. count \in Nat
    BY StoreParts DEF TypeOK, count, Part
  <2>2. PICK failed \in BOOLEAN :
           Use(IF failed \/ count = 0
               THEN [IdleUser EXCEPT !.last = IF failed THEN "unembedded" ELSE "hits"]
               ELSE [IdleUser EXCEPT !.op = "search", !.upto = count])
    BY <1>2 DEF Search
  <2>3. backend' \in Model
    BY <1>2 DEF Search, TypeOK
  <2>4. (IF failed \/ count = 0
         THEN [IdleUser EXCEPT !.last = IF failed THEN "unembedded" ELSE "hits"]
         ELSE [IdleUser EXCEPT !.op = "search", !.upto = count]) \in UserType
    BY <2>1, UserRecords
  <2>5. QED
    BY <1>0, <2>2, <2>3, <2>4, UseTypeOK
<1>3. CASE Score
  <2>1. user' \in UserType
    <3>1. Len(user.rows) + 1 \in Nat \ {0}
      BY DEF TypeOK, UserType
    <3>2. Readable(Len(user.rows) + 1) => Row(Len(user.rows) + 1) \in RowType
      BY <3>1, RowIsRow DEF TypeOK
    <3>3. Readable(Len(user.rows) + 1) =>
             [user EXCEPT !.rows = Append(@, Row(Len(user.rows) + 1))] \in UserType
      <4> SUFFICES ASSUME Readable(Len(user.rows) + 1)
                   PROVE  [user EXCEPT !.rows = Append(@, Row(Len(user.rows) + 1))] \in UserType
        OBVIOUS
      <4>1. user \in UserType
        BY DEF TypeOK
      <4>2. Append(user.rows, Row(Len(user.rows) + 1)) \in Seq(RowType)
        BY <3>2, <4>1 DEF UserType
      <4>3. \A s \in Seq(RowType) : [user EXCEPT !.rows = s] \in UserType
        BY <4>1 DEF UserType
      <4>4. QED
        BY <4>2, <4>3
    <3>4. QED
      BY <1>3, <3>3, UserRecords DEF Score
  <2>2. QED
    BY <1>0, <1>3, <2>1 DEF Score, TypeOK
<1>4. CASE Clear
  BY <1>0, <1>4, UserRecords, UseTypeOK DEF Clear, TypeOK
<1>5. CASE Wipe
  <2>1. {store.texts[i] : i \in 1..count} \subseteq Turn
    BY StoreParts DEF TypeOK, count, Part, Values
  <2>2. user' \in UserType
    BY <1>5, <1>b DEF Wipe, TypeOK, UserType
  <2>3. store' \in StoreType
    BY <1>5, EmptyStoreType DEF Wipe
  <2>4. QED
    BY <1>0, <1>5, <2>1, <2>2, <2>3 DEF Wipe, TypeOK
<1>6. CASE Readd
  <2>1. user.model \in Model /\ user.upto \in 1..Len(user.rows)
    BY <1>6 DEF Readd, ActorInv, Rewriting
  <2>2. Moved(user.rows[user.upto]) \in RowType
    BY <2>1, MovedType DEF Moved, TypeOK, UserType
  <2>3. store' \in StoreType
    BY <1>6, <2>2, AppendRowType DEF Readd, Moved, TypeOK
  <2>4. user' \in UserType
    <3>1. user.upto + 1 \in Nat
      BY <2>1
    <3>2. QED
      BY <1>6, <3>1 DEF Readd, TypeOK, UserType
  <2>5. QED
    BY <1>0, <1>6, <2>3, <2>4 DEF Readd, TypeOK
<1>7. CASE Rebind
  BY <1>0, <1>7, <1>b DEF Rebind, TypeOK, ActorInv, Rewriting, UserType
<1>8. ASSUME NEW m \in Model, Reindex(m) PROVE TypeOK'
  <2>1. CASE count = 0
    BY <1>0, <1>8, <2>1, UserRecords, UseTypeOK DEF Reindex
  <2>2. CASE count # 0
    <3>1. backend' \in Model
      BY <1>8, <2>2 DEF Reindex, TypeOK
    <3>2. CASE Use([IdleUser EXCEPT !.last = "raised"])
      BY <1>0, <3>1, <3>2, UserRecords, UseTypeOK
    <3>3. CASE /\ \A i \in 1..count : Readable(i)
               /\ Use([IdleUser EXCEPT !.op = "wipe", !.rows = Rows, !.upto = 1, !.model = m])
      <4>1. Rows \in Seq(RowType)
        BY <3>3, RowsType DEF TypeOK
      <4>2. [IdleUser EXCEPT !.op = "wipe", !.rows = Rows, !.upto = 1, !.model = m] \in UserType
        BY <4>1, UserRecords
      <4>3. QED
        BY <1>0, <3>1, <3>3, <4>2, UseTypeOK
    <3>4. QED
      BY <1>8, <2>2, <3>2, <3>3 DEF Reindex
  <2>3. QED
    BY <2>1, <2>2
<1>9. ASSUME NEW m \in Model, Start(m) PROVE TypeOK'
  <2>1. store' \in StoreType
    BY <1>9, ColumnsType DEF Start, TypeOK, FileType
  <2>2. QED
    BY <1>0, <1>9, <2>1 DEF Start, TypeOK
<1>10. CASE Take
  <2>1. Head(queue) \in Turn /\ Tail(queue) \in Seq(Turn)
    BY <1>10 DEF Take, TypeOK
  <2>2. worker' \in WorkerType
    BY <1>10, <1>b, <2>1 DEF Take, TypeOK, WorkerType, IdleWorker
  <2>3. QED
    BY <1>0, <1>10, <2>1, <2>2 DEF Take, TypeOK
<1>11. CASE Embed
  BY <1>0, <1>11, <1>b DEF Embed, TypeOK, ActorInv, WorkerType, Part
<1>12. CASE Index
  <2>1. NewRow(worker.turn, worker.model) \in RowType
    BY <1>12, NewRowType DEF Index, ActorInv
  <2>2. store' \in StoreType
    BY <1>12, <2>1, AppendPartType DEF Index, AppendPart, TypeOK
  <2>3. worker' \in WorkerType
    <3>1. [IdleWorker EXCEPT !.step = "collect"] \in WorkerType
      BY <1>b DEF WorkerType
    <3>2. \A q \in Part : [worker EXCEPT !.step = q] \in WorkerType
      BY DEF TypeOK, WorkerType
    <3>3. worker.step # "metadatas" => PartAfter[worker.step] \in Part
      BY <1>12 DEF Index, Part, PartAfter
    <3>4. QED
      BY <1>12, <3>1, <3>2, <3>3 DEF Index
  <2>4. QED
    BY <1>0, <1>12, <2>2, <2>3 DEF Index, TypeOK
<1>13. CASE Collect
  <2>1. worker' \in WorkerType
    BY <1>13, <1>b, RowsType DEF Collect, TypeOK, WorkerType
  <2>2. QED
    BY <1>0, <1>13, <2>1 DEF Collect, TypeOK
<1>14. CASE OpenFile
  BY <1>0, <1>14, <1>b DEF OpenFile, TypeOK, WorkerType
<1>15. CASE WriteFile
  BY <1>0, <1>15, <1>b DEF WriteFile, TypeOK, WorkerType, FileType
<1>16. CASE Close \/ Exit
  BY <1>0, <1>16, MemoryAssumption DEF Close, Exit, TypeOK
<1>17. CASE Leave \/ Crash
  <2>1. 1..recorded \subseteq Turn
    BY MemoryAssumption DEF TypeOK, Turn
  <2>2. ends' \in 0..MaxEnds
    BY <1>17, MemoryAssumption DEF Leave, Crash, TypeOK
  <2>3. Lose
    BY <1>17 DEF Leave, Crash
  <2>4. QED
    BY <1>0, <1>b, <2>1, <2>2, <2>3, EmptyStoreType DEF Lose, TypeOK
<1>18. CASE Repair
  BY <1>0, <1>18, <1>b DEF Repair, TypeOK
<1>19. QED
  BY <1>0, <1>1, <1>2, <1>3, <1>4, <1>5, <1>6, <1>7, <1>8, <1>9, <1>10, <1>11, <1>12, <1>13,
     <1>14, <1>15, <1>16, <1>17, <1>18 DEF Step

-----------------------------------------------------------------------------
(* What the actors hold, what the process leaves, and when overlaps show. *)

LEMMA NextActor == TypeOK /\ ActorInv /\ Next => ActorInv'
<1> SUFFICES ASSUME TypeOK, ActorInv, Next PROVE ActorInv'
  OBVIOUS
<1>0. Step
  BY DEF Next
<1>a. IdleWorker.step = "idle" /\ "idle" \notin Part
  BY DEF IdleWorker, Part
<1>b. \A u : user' = [IdleUser EXCEPT !.last = u] => user'.op = "idle" /\ user'.rows = <<>>
  BY DEF IdleUser
<1>1. CASE UNCHANGED <<worker, user>>
  BY <1>1 DEF ActorInv, Rewriting
<1>2. CASE Search
  <2>1. /\ worker' = worker /\ user'.rows = <<>>
        /\ user'.op = "idle" \/ (user'.op = "search" /\ user'.last = "none")
    BY <1>2 DEF Search, Use, IdleUser
  <2>2. QED
    BY <2>1 DEF ActorInv, Rewriting
<1>3. CASE Score
  <2>1. user' = [user EXCEPT !.rows = user'.rows] \/ (user'.op = "idle" /\ user'.rows = <<>>)
    BY <1>3 DEF Score, IdleUser
  <2>2. worker' = worker /\ user.op = "search"
    BY <1>3 DEF Score
  <2>3. QED
    BY <2>1, <2>2 DEF ActorInv, Rewriting, TypeOK, UserType
<1>4. CASE Clear
  <2>1. worker' = worker /\ user'.op = "wipe" /\ user'.rows = <<>> /\ user'.upto = 0
    BY <1>4 DEF Clear, Use, IdleUser
  <2>2. QED
    BY <2>1 DEF ActorInv, Rewriting
<1>5. CASE Wipe
  <2>1. CASE user.rows = <<>>
    BY <1>5, <2>1 DEF Wipe, IdleUser, ActorInv, Rewriting
  <2>2. CASE user.rows # <<>>
    BY <1>5, <2>2 DEF Wipe, ActorInv, Rewriting, TypeOK, UserType
  <2>3. QED
    BY <2>1, <2>2
<1>6. CASE Readd
  <2>1. worker' = worker /\ user.rows # <<>> /\ user.upto \in 1..Len(user.rows)
    BY <1>6 DEF Readd, ActorInv, Rewriting
  <2>2. Len(user.rows) \in Nat
    BY DEF TypeOK, UserType
  <2>3. CASE user.upto < Len(user.rows)
    <3>1. user' = [user EXCEPT !.upto = user.upto + 1]
      BY <1>6, <2>3 DEF Readd
    <3>2. user'.op = "readd" /\ user'.rows = user.rows /\ user'.upto = user.upto + 1
          /\ user'.model = user.model
      BY <1>6, <3>1 DEF Readd, TypeOK, UserType
    <3>3. QED
      BY <1>6, <2>1, <2>2, <2>3, <3>2 DEF ActorInv, Rewriting, Readd
  <2>4. CASE ~(user.upto < Len(user.rows))
    <3>1. user'.op = "rebind" /\ user'.rows = user.rows /\ user'.upto = user.upto
          /\ user'.model = user.model
      BY <1>6, <2>4 DEF Readd, TypeOK, UserType
    <3>2. QED
      BY <1>6, <2>1, <2>2, <2>4, <3>1 DEF ActorInv, Rewriting, Readd
  <2>5. QED
    BY <2>3, <2>4
<1>7. CASE Rebind
  BY <1>7 DEF Rebind, IdleUser, ActorInv, Rewriting
<1>8. ASSUME NEW m \in Model, Reindex(m) PROVE ActorInv'
  <2>1. worker' = worker
    BY <1>8 DEF Reindex, Use
  <2>2. CASE user' = IdleUser \/ user' = [IdleUser EXCEPT !.last = "raised"]
    BY <2>1, <2>2 DEF IdleUser, ActorInv, Rewriting
  <2>3. CASE /\ count # 0
             /\ user' = [IdleUser EXCEPT !.op = "wipe", !.rows = Rows, !.upto = 1, !.model = m]
    <3>1. user'.op = "wipe" /\ user'.rows = Rows /\ user'.upto = 1 /\ user'.model = m
      BY <2>3 DEF IdleUser
    <3>2. count \in Nat \ {0} /\ Len(Rows) = count
      BY <2>3, StoreParts DEF TypeOK, count, Part, Rows
    <3>3. QED
      BY <2>1, <3>1, <3>2 DEF ActorInv, Rewriting
  <2>4. QED
    BY <1>8, <2>2, <2>3 DEF Reindex, Use
<1>9. ASSUME NEW m \in Model, Start(m) PROVE ActorInv'
  BY <1>1, <1>9 DEF Start
<1>10. CASE Take
  <2>1. Head(queue) \in Turn
    BY <1>10 DEF Take, TypeOK
  <2>2. worker'.turn = Head(queue) /\ worker'.step = "embed" /\ worker'.model = backend
    BY <1>10 DEF Take, IdleWorker
  <2>3. QED
    BY <1>10, <2>1, <2>2 DEF Take, ActorInv, Rewriting, TypeOK
<1>11. CASE Embed
  BY <1>11 DEF Embed, ActorInv, Rewriting, TypeOK, WorkerType, IdleWorker, Part
<1>12. CASE Index
  BY <1>12 DEF Index, ActorInv, Rewriting, TypeOK, WorkerType, IdleWorker, Part, PartAfter
<1>13. CASE Collect \/ OpenFile \/ WriteFile
  <2>1. user' = user /\ (worker' = IdleWorker \/ worker'.step \in {"open", "write"})
    BY <1>13 DEF Collect, OpenFile, WriteFile, TypeOK, WorkerType
  <2>2. QED
    BY <1>a, <2>1 DEF ActorInv, Rewriting, Part
<1>14. CASE Leave \/ Crash
  <2>1. worker' = IdleWorker /\ user' = IdleUser
    BY <1>14 DEF Leave, Crash, Lose
  <2>2. QED
    BY <2>1 DEF IdleUser, IdleWorker, ActorInv, Rewriting, Part
<1>15. CASE Record \/ Close \/ Exit \/ Repair
  BY <1>1, <1>15 DEF Record, Close, Exit, Repair
<1>16. QED
  BY <1>0, <1>2, <1>3, <1>4, <1>5, <1>6, <1>7, <1>8, <1>9, <1>10, <1>11, <1>12, <1>13, <1>14,
     <1>15 DEF Step

LEMMA NextProcess == TypeOK /\ ProcessInv /\ Next => ProcessInv'
<1> SUFFICES ASSUME TypeOK, ProcessInv, Next PROVE ProcessInv'
  OBVIOUS
<1>0. Step
  BY DEF Next
<1>a. IdleWorker.step = "idle" /\ IdleUser.op = "idle" /\ "idle" \notin Part
  BY DEF IdleWorker, IdleUser, Part
<1>1. CASE Record \/ Search \/ Clear \/ Close
  BY <1>1 DEF Record, Search, Clear, Use, Close, Running, ProcessInv
<1>2. ASSUME NEW m \in Model, Reindex(m) PROVE ProcessInv'
  BY <1>2 DEF Reindex, Use, Running, ProcessInv
<1>3. CASE Score \/ Wipe \/ Readd \/ Rebind
  BY <1>3 DEF Score, Wipe, Readd, Rebind, ProcessInv
<1>4. ASSUME NEW m \in Model, Start(m) PROVE ProcessInv'
  BY <1>4 DEF Start, ProcessInv
<1>5. CASE Take \/ Embed \/ Index \/ Collect
  BY <1>5, <1>a DEF Take, Embed, Index, Collect, ProcessInv
<1>6. CASE OpenFile \/ WriteFile
  BY <1>6, <1>a DEF OpenFile, WriteFile, Torn, ProcessInv
<1>7. CASE Exit
  BY <1>7 DEF Exit, Running, ProcessInv
<1>8. CASE Leave \/ Crash
  BY <1>8, <1>a DEF Leave, Crash, Lose, ProcessInv
<1>9. CASE Repair
  BY <1>9 DEF Repair, NoFile, ProcessInv
<1>10. QED
  BY <1>0, <1>1, <1>2, <1>3, <1>4, <1>5, <1>6, <1>7, <1>8, <1>9 DEF Step

LEMMA NextOverlap == Next => OverlapInv'
  BY Zenon DEF Next, OverlapInv

-----------------------------------------------------------------------------
(* The lists while nothing overlaps. *)

LEMMA GoodMore ==
    ASSUME NEW rows, NEW m \in Nat, NEW n \in Nat, m <= n, GoodRows(rows, m)
    PROVE  GoodRows(rows, n)
  BY DEF GoodRows

LEMMA ListFacts ==
    ASSUME TypeOK
    PROVE  /\ \A p \in Part : store[p] \in Seq(Values(p)) /\ Len(store[p]) \in Nat
           /\ Full \in Nat /\ count \in Nat /\ recorded \in Nat
  BY StoreParts, MemoryAssumption DEF TypeOK, Full, count, Part

LEMMA AheadIs ==
    /\ worker.step = "embeddings" => Ahead = {"texts"}
    /\ worker.step = "turns" => Ahead = {"texts", "embeddings"}
    /\ worker.step = "metadatas" => Ahead = {"texts", "embeddings", "turns"}
    /\ worker.step \notin {"embeddings", "turns", "metadatas"} => Ahead = {}
  BY DEF Ahead, After, Part

LEMMA ShapeFacts ==
    ASSUME TypeOK, ShapeInv
    PROVE  /\ \A i \in 1..Full : Readable(i) /\ Row(i) \in RowType
           /\ \A i \in 1..Full : Row(i).texts = store.texts[i]
           /\ Entire \in Seq(RowType) /\ Len(Entire) = Full /\ DOMAIN Entire = 1..Full
           /\ \A i \in 1..Full : Entire[i] = Row(i)
           /\ count = Full + (IF Ahead # {} THEN 1 ELSE 0)
           /\ Ahead = {} => Rows = Entire /\ \A i \in 1..count : Readable(i)
           /\ Ahead # {} => store.texts[Full + 1] = worker.turn
<1>1. \A i \in 1..Full : Readable(i)
  BY ListFacts DEF ShapeInv, Readable
<1>2. \A i \in 1..Full : Row(i) \in RowType
  BY <1>1, RowIsRow, ListFacts DEF TypeOK
<1>3. \A i \in 1..Full : Row(i).texts = store.texts[i]
  BY DEF Row, Part
<1>4. Entire \in Seq(RowType) /\ Len(Entire) = Full /\ DOMAIN Entire = 1..Full
      /\ \A i \in 1..Full : Entire[i] = Row(i)
  BY <1>2, ListFacts DEF Entire
<1>5. "texts" \in Ahead <=> Ahead # {}
  BY AheadIs
<1>6. count = Full + (IF Ahead # {} THEN 1 ELSE 0)
  BY <1>5, ListFacts DEF ShapeInv, count, Part
<1>7. Ahead = {} => Rows = Entire /\ \A i \in 1..count : Readable(i)
  BY <1>1, <1>6, ListFacts DEF Rows, Entire
<1>8. Ahead # {} => store.texts[Full + 1] = worker.turn
  BY <1>5 DEF ShapeInv, NewRow, Part
<1>9. QED
  BY <1>1, <1>2, <1>3, <1>4, <1>6, <1>7, <1>8

(* Steps that leave the lists alone. *)
LEMMA ShapeFrame ==
    ASSUME TypeOK, ShapeInv, store' = store, recorded' \in Nat, recorded <= recorded',
           Ahead' = Ahead, Ahead # {} => worker' = worker
    PROVE  ShapeInv' /\ Entire' = Entire /\ Full' = Full
<1>1. Entire' = Entire /\ Full' = Full
  BY DEF Entire, Full, Row
<1>2. GoodRows(Entire', recorded')
  BY <1>1, GoodMore, ListFacts DEF ShapeInv
<1>3. \A p \in Part : Len(store'[p]) = Full' + (IF p \in Ahead' THEN 1 ELSE 0)
  BY <1>1 DEF ShapeInv
<1>4. \A p \in Ahead' : store'[p][Full' + 1] = NewRow(worker'.turn, worker'.model)[p]
  BY <1>1 DEF ShapeInv
<1>5. Ahead' # {} => \A i \in 1..Full' : store'.texts[i] # worker'.turn
  BY <1>1 DEF ShapeInv
<1>6. QED
  BY <1>1, <1>2, <1>3, <1>4, <1>5 DEF ShapeInv

(* A list of whole entries alone: after a wipe, a re-add or a start. *)
LEMMA ShapeWhole ==
    ASSUME NEW rows, NEW n \in Nat, rows \in Seq(RowType), GoodRows(rows, n), recorded' = n,
           Ahead' = {}, store' = [p \in Part |-> [i \in 1..Len(rows) |-> rows[i][p]]]
    PROVE  ShapeInv' /\ Entire' = rows /\ Full' = Len(rows)
<1>1. Len(rows) \in Nat /\ rows = [i \in 1..Len(rows) |-> rows[i]]
  OBVIOUS
<1>2. \A p \in Part : store'[p] = [i \in 1..Len(rows) |-> rows[i][p]]
  OBVIOUS
<1>3. \A p \in Part : Len(store'[p]) = Len(rows)
  BY <1>1, <1>2
<1>4. Full' = Len(rows)
  BY <1>3 DEF Full, Part
<1>5. \A i \in 1..Len(rows) : Row(i)' = rows[i]
  <2> TAKE i \in 1..Len(rows)
  <2>1. rows[i] \in RowType
    OBVIOUS
  <2>2. rows[i] = [p \in Part |-> rows[i][p]]
    BY <2>1, RowParts
  <2>3. \A p \in Part : store'[p][i] = rows[i][p]
    BY <1>2
  <2>4. QED
    BY <2>2, <2>3 DEF Row
<1>6. Entire' = rows
  BY <1>1, <1>4, <1>5 DEF Entire
<1>7. QED
  BY <1>3, <1>4, <1>6 DEF ShapeInv

LEMMA AddedWhole ==
    ASSUME TypeOK, ShapeInv, NEW row \in RowType, store' \in StoreType,
           \A p \in Part : Len(store'[p]) = Full + 1 /\ store'[p][Full + 1] = row[p],
           \A p \in Part : \A i \in 1..Full : store'[p][i] = store[p][i]
    PROVE  store' = [p \in Part |-> [i \in 1..Len(Append(Entire, row)) |-> Append(Entire, row)[i][p]]]
<1>1. Len(Append(Entire, row)) = Full + 1 /\ Full \in Nat
  BY ShapeFacts, ListFacts
<1>2. \A i \in 1..Full : Append(Entire, row)[i] = Row(i)
  BY ShapeFacts, ListFacts
<1>3. Append(Entire, row)[Full + 1] = row
  BY ShapeFacts, ListFacts
<1>4. ASSUME NEW p \in Part
      PROVE  store'[p] = [i \in 1..(Full + 1) |-> Append(Entire, row)[i][p]]
  <2>1. store'[p] \in Seq(Values(p))
    BY StoreParts
  <2>2. store'[p] = [i \in 1..(Full + 1) |-> store'[p][i]]
    BY <2>1
  <2>3. \A i \in 1..Full : Append(Entire, row)[i][p] = store[p][i]
    <3>1. \A i \in 1..Full : Row(i)[p] = store[p][i]
      BY DEF Row
    <3>2. QED
      BY <1>2, <3>1
  <2>4. \A i \in 1..(Full + 1) : store'[p][i] = Append(Entire, row)[i][p]
    BY <1>1, <1>3, <2>3
  <2>5. QED
    BY <2>2, <2>4
<1>5. store' = [p \in Part |-> store'[p]]
  BY StoreParts
<1>6. QED
  BY <1>1, <1>4, <1>5

(* A new row of a turn the store does not hold yet. *)
LEMMA GoodAppend ==
    ASSUME NEW rows \in Seq(RowType), NEW row \in RowType, NEW n \in Nat, GoodRows(rows, n),
           WholeRow(row), row.texts \in 1..n, \A i \in DOMAIN rows : rows[i].texts # row.texts
    PROVE  GoodRows(Append(rows, row), n) /\ Append(rows, row) \in Seq(RowType)
<1> DEFINE all == Append(rows, row)
<1>1. all \in Seq(RowType) /\ Len(all) = Len(rows) + 1 /\ Len(rows) \in Nat
      /\ DOMAIN all = 1..(Len(rows) + 1) /\ DOMAIN rows = 1..Len(rows)
  OBVIOUS
<1>2. \A i \in 1..Len(rows) : all[i] = rows[i]
  OBVIOUS
<1>3. all[Len(rows) + 1] = row
  OBVIOUS
<1> HIDE DEF all
<1>4. \A i \in DOMAIN all : WholeRow(all[i]) /\ all[i].texts \in 1..n
  BY <1>1, <1>2, <1>3 DEF GoodRows
<1>5. \A i, j \in DOMAIN all : all[i].texts = all[j].texts => i = j
  BY <1>1, <1>2, <1>3 DEF GoodRows
<1>6. GoodRows(all, n)
  BY <1>4, <1>5 DEF GoodRows
<1>7. QED
  BY <1>1, <1>6 DEF all

(* The turn in the thread's hands is recorded, and its entry is not there yet. *)
LEMMA TurnInHand ==
    ASSUME TypeOK, ActorInv, ShapeInv, TurnInv, ~Overlap, worker.step \in {"embed"} \union Part
    PROVE  /\ worker.turn \in 1..recorded
           /\ \A i \in 1..Full : store.texts[i] # worker.turn
<1>1. Stored = {store.texts[i] : i \in 1..count} /\ Full \in Nat /\ count \in Nat
  BY ListFacts DEF Stored, Overlap, Part
<1>2. CASE worker.step \in {"embed", "texts"}
  <2>1. worker.turn \in Pending
    BY <1>2 DEF Pending
  <2>2. worker.turn \notin Stored /\ worker.turn \in 1..recorded
    BY <2>1 DEF TurnInv
  <2>3. \A i \in 1..Full : i \in 1..count
    BY <1>1, ShapeFacts
  <2>4. QED
    BY <1>1, <2>2, <2>3
<1>3. CASE worker.step \notin {"embed", "texts"}
  <2>1. Ahead # {}
    BY <1>3, AheadIs DEF Part
  <2>2. store.texts[Full + 1] = worker.turn /\ count = Full + 1
    BY <2>1, ShapeFacts
  <2>3. worker.turn \in Stored
    BY <1>1, <2>2
  <2>4. QED
    BY <2>1, <2>3 DEF TurnInv, ShapeInv
<1>4. QED
  BY <1>2, <1>3

LEMMA IndexShape ==
    ASSUME TypeOK, ActorInv, ShapeInv, TurnInv, ~Overlap, Index, recorded' = recorded
    PROVE  /\ ShapeInv'
           /\ worker.step # "metadatas" => Entire' = Entire /\ Full' = Full
           /\ worker.step = "metadatas" =>
                 Entire' = Append(Entire, NewRow(worker.turn, worker.model)) /\ Full' = Full + 1
<1> DEFINE p == worker.step
           row == NewRow(worker.turn, worker.model)
<1>1. p \in Part /\ worker.turn \in Turn /\ worker.model \in Model /\ row \in RowType
  BY NewRowType DEF Index, ActorInv
<1>2. store' = [store EXCEPT ![p] = Append(@, row[p])] /\ store' \in StoreType
  BY <1>1, AppendPartType DEF Index, AppendPart, TypeOK
<1>3. store = [q \in Part |-> store[q]]
  BY StoreParts DEF TypeOK
<1>4. \A q \in Part : q # p => store'[q] = store[q]
  BY <1>2, <1>3
<1>5. store'[p] = Append(store[p], row[p])
  BY <1>1, <1>2, <1>3
<1>6. p \notin Ahead
  BY <1>1, AheadIs DEF Part
<1>7. Len(store[p]) = Full /\ Full \in Nat
  BY <1>1, <1>6, ListFacts DEF ShapeInv
<1>8. Len(store'[p]) = Full + 1 /\ store'[p][Full + 1] = row[p]
  BY <1>1, <1>5, <1>7, ListFacts
<1>9. \A q \in Part : \A i \in 1..Full : store'[q][i] = store[q][i]
  <2>1. \A i \in 1..Full : store'[p][i] = store[p][i]
    <3>1. store[p] \in Seq(Values(p))
      BY <1>1, ListFacts
    <3>2. QED
      BY <1>5, <1>7, <3>1
  <2>2. QED
    BY <1>4, <2>1
<1>10. worker.turn \in 1..recorded /\ \A i \in 1..Full : store.texts[i] # worker.turn
  BY <1>1, TurnInHand
<1> HIDE DEF row
<1>11. CASE p # "metadatas"
  <2>1. worker' = [worker EXCEPT !.step = PartAfter[p]]
    BY <1>11 DEF Index
  <2>2. worker'.turn = worker.turn /\ worker'.model = worker.model /\ worker'.step = PartAfter[p]
    BY <2>1 DEF TypeOK, WorkerType
  <2>3. Ahead' = Ahead \union {p}
    BY <1>1, <1>11, <2>2 DEF Ahead, After, Part, PartAfter
  <2>4. Full' = Full
    BY <1>4, <1>11 DEF Full, Part
  <2>5. \A i \in 1..Full : Row(i)' = Row(i)
    BY <1>9 DEF Row
  <2>6. Entire' = Entire
    BY <2>4, <2>5 DEF Entire
  <2>7. \A q \in Part : Len(store'[q]) = Full' + (IF q \in Ahead' THEN 1 ELSE 0)
    BY <1>4, <1>6, <1>8, <2>3, <2>4 DEF ShapeInv
  <2>8. \A q \in Ahead' : store'[q][Full' + 1] = NewRow(worker'.turn, worker'.model)[q]
    <3>1. \A q \in Ahead : store[q][Full + 1] = row[q]
      BY DEF ShapeInv, row
    <3>2. \A q \in Ahead' : store'[q][Full + 1] = row[q]
      BY <1>4, <1>6, <1>8, <2>3, <3>1 DEF Ahead
    <3>3. QED
      BY <2>2, <2>4, <3>2 DEF row
  <2>9. \A i \in 1..Full' : store'.texts[i] # worker'.turn
    BY <1>9, <1>10, <2>2, <2>4 DEF Part
  <2>10. QED
    BY <1>11, <2>4, <2>6, <2>7, <2>8, <2>9 DEF ShapeInv
<1>12. CASE p = "metadatas"
  <2>1. worker'.step = "collect"
    BY <1>12 DEF Index, IdleWorker
  <2>2. Ahead' = {}
    BY <2>1 DEF Ahead, After, Part
  <2>3. Ahead = {"texts", "embeddings", "turns"}
    BY <1>12, AheadIs
  <2>4. \A q \in Part : q # p => Len(store[q]) = Full + 1 /\ store[q][Full + 1] = row[q]
    BY <1>12, <2>3 DEF ShapeInv, Part, row
  <2>5. \A q \in Part : Len(store'[q]) = Full + 1 /\ store'[q][Full + 1] = row[q]
    BY <1>4, <1>8, <2>4
  <2>6. row \in RowType
    BY <1>1 DEF row
  <2>7. store' = [q \in Part |-> [i \in 1..Len(Append(Entire, row)) |-> Append(Entire, row)[i][q]]]
    BY <1>2, <1>9, <2>5, <2>6, AddedWhole
  <2>8. GoodRows(Append(Entire, row), recorded) /\ Append(Entire, row) \in Seq(RowType)
    <3>1. WholeRow(row) /\ row.texts = worker.turn
      BY DEF row, NewRow, Part, WholeRow
    <3>2. \A i \in DOMAIN Entire : Entire[i].texts # row.texts
      BY <1>10, <3>1, ShapeFacts
    <3>3. QED
      BY <1>10, <2>6, <3>1, <3>2, GoodAppend, ShapeFacts, ListFacts DEF ShapeInv
  <2>9. ShapeInv' /\ Entire' = Append(Entire, row) /\ Full' = Len(Append(Entire, row))
    BY <2>2, <2>7, <2>8, ShapeWhole, ListFacts
  <2>10. QED
    BY <1>12, <2>9, ShapeFacts, ListFacts DEF row
<1>13. QED
  BY <1>11, <1>12

(* The next entry comes back under the new model. *)
LEMMA ReaddShape ==
    ASSUME TypeOK, ActorInv, ShapeInv, CopyInv, ~Overlap, Readd, TypeOK', recorded' = recorded
    PROVE  /\ ShapeInv'
           /\ user.upto \in 1..Len(user.rows) /\ user.upto = Full + 1 /\ Full' = Full + 1
           /\ Entire' = Append(Entire, Moved(user.rows[user.upto]))
<1> DEFINE row == Moved(user.rows[user.upto])
<1>1. /\ user.model \in Model /\ user.upto \in 1..Len(user.rows) /\ user.rows \in Seq(RowType)
      /\ user.rows[user.upto] \in RowType
  BY DEF Readd, ActorInv, Rewriting, TypeOK, UserType
<1>2. row \in RowType
  BY <1>1, MovedType DEF Moved
<1>3. /\ row.texts = user.rows[user.upto].texts /\ row.turns = user.rows[user.upto].turns
      /\ row.metadatas = user.rows[user.upto].metadatas
      /\ row.embeddings.turn = user.rows[user.upto].embeddings.turn
  BY <1>1 DEF Moved, RowType, Embedding
<1>4. worker.step = "idle" /\ Ahead = {} /\ Ahead' = {}
  <2>1. worker.step = "idle" /\ worker' = worker
    BY DEF Readd, Overlap
  <2>2. QED
    BY <2>1 DEF Ahead, After, Part
<1>5. Full = user.upto - 1 /\ Full \in Nat
  BY ListFacts DEF Readd, CopyInv
<1>6. store' = [p \in Part |-> Append(store[p], row[p])]
  BY DEF Readd, Moved
<1> HIDE DEF row
<1>7. \A p \in Part : Len(store[p]) = Full
  BY <1>4, <1>5 DEF ShapeInv
<1>8. ASSUME NEW p \in Part
      PROVE  /\ Len(store'[p]) = Full + 1 /\ store'[p][Full + 1] = row[p]
             /\ \A i \in 1..Full : store'[p][i] = store[p][i]
  <2>1. store'[p] = Append(store[p], row[p]) /\ store[p] \in Seq(Values(p))
    BY <1>6, ListFacts
  <2>2. QED
    BY <1>5, <1>7, <2>1
<1>9. store' = [q \in Part |-> [i \in 1..Len(Append(Entire, row)) |-> Append(Entire, row)[i][q]]]
  BY <1>2, <1>8, AddedWhole DEF TypeOK
<1>10. GoodRows(user.rows, recorded) /\ DOMAIN user.rows = 1..Len(user.rows)
  BY <1>1 DEF Readd, CopyInv, Rewriting
<1>11. WholeRow(row) /\ row.texts \in 1..recorded
  BY <1>1, <1>3, <1>10 DEF GoodRows, WholeRow
<1>12. ASSUME NEW i \in 1..Full PROVE Entire[i].texts # row.texts
  <2>1. Entire[i] = Moved(user.rows[i])
    BY ShapeFacts DEF CopyInv, Readd
  <2>2. i \in 1..Len(user.rows) /\ i # user.upto
    BY <1>1, <1>5
  <2>3. user.rows[i] \in RowType
    BY <1>1, <2>2
  <2>4. Entire[i].texts = user.rows[i].texts
    BY <2>1, <2>3 DEF Moved, RowType
  <2>5. QED
    BY <1>1, <1>3, <1>10, <2>2, <2>4 DEF GoodRows
<1>13. GoodRows(Append(Entire, row), recorded) /\ Append(Entire, row) \in Seq(RowType)
  BY <1>2, <1>11, <1>12, GoodAppend, ShapeFacts, ListFacts DEF ShapeInv
<1>14. ShapeInv' /\ Entire' = Append(Entire, row) /\ Full' = Len(Append(Entire, row))
  BY <1>4, <1>9, <1>13, ShapeWhole, ListFacts
<1>15. QED
  BY <1>1, <1>5, <1>14, ShapeFacts DEF row

(* A start reads back the rows of the file. *)
LEMMA StartShape ==
    ASSUME TypeOK, ProcessInv, CopyInv, process = "down", recorded' = recorded, worker' = worker,
           store' = [p \in Part |-> [i \in DOMAIN file.rows |-> file.rows[i][p]]]
    PROVE  ShapeInv' /\ Entire' = file.rows /\ Full' = Len(file.rows)
<1>1. file.rows \in Seq(RowType) /\ DOMAIN file.rows = 1..Len(file.rows)
  BY DEF TypeOK, FileType
<1>2. Ahead' = {}
  BY DEF ProcessInv, IdleWorker, Ahead, After, Part
<1>3. GoodRows(file.rows, recorded) /\ recorded \in Nat
  BY ListFacts DEF CopyInv
<1>4. QED
  BY <1>1, <1>2, <1>3, ShapeWhole

LEMMA NextShape ==
    ASSUME TypeOK, ActorInv, ProcessInv, ShapeInv, CopyInv, TurnInv, ~Overlap, Step, TypeOK', ~Overlap'
    PROVE  ShapeInv'
<1>a. recorded \in Nat /\ recorded' \in Nat
  BY ListFacts, MemoryAssumption DEF TypeOK
<1>b. IdleWorker.step = "idle"
  BY DEF IdleWorker
<1>1. CASE store' = store /\ worker' = worker /\ recorded <= recorded'
  <2>1. Ahead' = Ahead
    BY <1>1 DEF Ahead
  <2>2. QED
    BY <1>1, <1>a, <2>1, ShapeFrame
<1>2. CASE store' = store /\ recorded' = recorded
           /\ worker.step \notin {"embeddings", "turns", "metadatas"}
           /\ worker'.step \notin {"embeddings", "turns", "metadatas"}
  <2>1. Ahead = {} /\ Ahead' = {}
    BY <1>2 DEF Ahead, After, Part
  <2>2. QED
    BY <1>2, <1>a, <2>1, ShapeFrame
<1>3. ASSUME store' = EmptyStore, worker'.step = "idle", recorded' = recorded
      PROVE  ShapeInv'
  <2>1. Ahead' = {}
    BY <1>3 DEF Ahead, After, Part
  <2>2. <<>> \in Seq(RowType) /\ GoodRows(<<>>, recorded)
    BY DEF GoodRows
  <2>3. store' = [p \in Part |-> [i \in 1..Len(<<>>) |-> <<>>[i][p]]]
    BY <1>3 DEF EmptyStore
  <2>4. QED
    BY <1>3, <1>a, <2>1, <2>2, <2>3, ShapeWhole
<1>4. CASE Record \/ Search \/ Score \/ Clear \/ Rebind \/ Close \/ Exit \/ Repair
  BY <1>1, <1>4, <1>a DEF Record, Search, Score, Clear, Use, Rebind, Close, Exit, Repair
<1>5. ASSUME NEW m \in Model, Reindex(m) PROVE ShapeInv'
  BY <1>1, <1>5, <1>a DEF Reindex, Use
<1>6. CASE Take
  BY <1>2, <1>6 DEF Take, IdleWorker
<1>7. CASE Embed
  BY <1>2, <1>7, <1>b DEF Embed, TypeOK, WorkerType
<1>8. CASE Index
  BY <1>8, IndexShape DEF Index
<1>9. CASE Collect \/ OpenFile \/ WriteFile
  BY <1>2, <1>9, <1>b DEF Collect, OpenFile, WriteFile, TypeOK, WorkerType
<1>10. CASE Wipe
  <2>1. worker.step = "idle"
    BY <1>10 DEF Wipe, Overlap
  <2>2. QED
    BY <1>3, <1>10, <2>1 DEF Wipe
<1>11. CASE Readd
  BY <1>11, <1>a, ReaddShape DEF Readd
<1>12. ASSUME NEW m \in Model, Start(m) PROVE ShapeInv'
  BY <1>1, <1>12, <1>a, StartShape DEF Start
<1>13. CASE Leave \/ Crash
  BY <1>3, <1>13, <1>b DEF Leave, Crash, Lose
<1>14. QED
  BY <1>4, <1>5, <1>6, <1>7, <1>8, <1>9, <1>10, <1>11, <1>12, <1>13 DEF Step

-----------------------------------------------------------------------------
(* The copies while nothing overlaps. *)

(* Steps that leave the lists and the application's thread alone. *)
LEMMA CopyFrame ==
    ASSUME TypeOK, CopyInv, store' = store, user' = user, recorded' \in Nat, recorded <= recorded',
           GoodRows(file'.rows, recorded'),
           worker'.step \in {"open", "write"} => worker'.rows = Entire
    PROVE  CopyInv'
<1>1. Entire' = Entire /\ Full' = Full /\ count' = count /\ \A i : Row(i)' = Row(i)
  BY DEF Entire, Full, Row, count
<1>2. Rewriting' => GoodRows(user'.rows, recorded')
  BY GoodMore, ListFacts DEF CopyInv, Rewriting
<1>3. (user.op = "wipe" /\ user.rows # <<>> => user.rows = Entire)'
  BY <1>1 DEF CopyInv
<1>4. (user.op = "readd" => Full = user.upto - 1)' /\ (user.op = "rebind" => Full = user.upto)'
      /\ (user.op = "search" => user.upto <= count)'
  BY <1>1 DEF CopyInv
<1>5. (user.op \in {"readd", "rebind"} => \A i \in 1..Full : Row(i) = Moved(user.rows[i]))'
  BY <1>1 DEF CopyInv, Moved
<1>6. QED
  BY <1>1, <1>2, <1>3, <1>4, <1>5 DEF CopyInv

(* Steps after which the application's thread holds no copy. *)
LEMMA CopyIdle ==
    ASSUME user'.op = "idle" \/ (user'.op = "search" /\ user'.upto <= count'),
           GoodRows(file'.rows, recorded'),
           worker'.step \in {"open", "write"} => worker'.rows = Entire'
    PROVE  CopyInv'
  BY DEF CopyInv, Rewriting

LEMMA NextCopy ==
    ASSUME TypeOK, ActorInv, ProcessInv, ShapeInv, CopyInv, TurnInv, ~Overlap, Step, TypeOK', ~Overlap',
           ShapeInv'
    PROVE  CopyInv'
<1>a. recorded \in Nat /\ recorded' \in Nat /\ GoodRows(file.rows, recorded) /\ count \in Nat
  BY ListFacts, MemoryAssumption DEF TypeOK, CopyInv
<1>b. IdleWorker.step = "idle" /\ IdleUser.op = "idle"
  BY DEF IdleWorker, IdleUser
<1>c. GoodRows(<<>>, recorded)
  BY DEF GoodRows
<1>d. store' = store => Entire' = Entire /\ Full' = Full /\ count' = count
  BY DEF Entire, Full, Row, count
<1>e. worker' = worker /\ Entire' = Entire =>
         (worker'.step \in {"open", "write"} => worker'.rows = Entire')
  BY DEF CopyInv
<1>1. CASE Record \/ Close \/ Exit
  <2>1. /\ store' = store /\ user' = user /\ worker' = worker /\ file' = file
        /\ recorded <= recorded'
    BY <1>1, <1>a DEF Record, Close, Exit
  <2>2. GoodRows(file'.rows, recorded')
    BY <1>a, <2>1, GoodMore
  <2>3. QED
    BY <1>a, <1>d, <1>e, <2>1, <2>2, CopyFrame
<1>2. CASE Search
  <2>1. store' = store /\ worker' = worker /\ file' = file /\ recorded' = recorded
    BY <1>2 DEF Search, Use
  <2>2. user'.op = "idle" \/ (user'.op = "search" /\ user'.upto = count)
    BY <1>2 DEF Search, Use, IdleUser
  <2>3. QED
    BY <1>a, <1>d, <1>e, <2>1, <2>2, CopyIdle
<1>3. CASE Score
  <2>1. store' = store /\ worker' = worker /\ file' = file /\ recorded' = recorded
    BY <1>3 DEF Score
  <2>2. user'.op = "idle" \/ (user'.op = "search" /\ user'.upto = user.upto)
    BY <1>3 DEF Score, IdleUser, TypeOK, UserType
  <2>3. user.upto <= count
    BY <1>3 DEF Score, CopyInv
  <2>4. QED
    BY <1>a, <1>d, <1>e, <2>1, <2>2, <2>3, CopyIdle
<1>4. CASE Clear
  <2>1. store' = store /\ worker' = worker /\ file' = file /\ recorded' = recorded
        /\ user'.op = "wipe" /\ user'.rows = <<>>
    BY <1>4 DEF Clear, Use, IdleUser
  <2>2. QED
    BY <1>a, <1>c, <1>d, <1>e, <2>1 DEF CopyInv, Rewriting
<1>5. CASE Wipe
  <2>1. worker.step = "idle" /\ worker' = worker /\ file' = file /\ recorded' = recorded
    BY <1>5 DEF Wipe, Overlap
  <2>2. CASE user.rows = <<>>
    BY <1>5, <1>a, <1>b, <2>1, <2>2, CopyIdle DEF Wipe
  <2>3. CASE user.rows # <<>>
    <3>1. user'.op = "readd" /\ user'.rows = user.rows /\ user'.upto = user.upto
      BY <1>5, <2>3 DEF Wipe, TypeOK, UserType
    <3>2. user.upto = 1
      BY <1>5, <2>3 DEF Wipe, ActorInv, Rewriting
    <3>3. Full' = 0
      BY <1>5 DEF Wipe, EmptyStore, Full, Part
    <3>4. GoodRows(user.rows, recorded)
      BY <1>5 DEF Wipe, CopyInv, Rewriting
    <3>5. QED
      BY <1>a, <2>1, <3>1, <3>2, <3>3, <3>4 DEF CopyInv, Rewriting
  <2>4. QED
    BY <2>2, <2>3
<1>6. CASE Readd
  <2>1. worker.step = "idle" /\ worker' = worker /\ file' = file /\ recorded' = recorded
    BY <1>6 DEF Readd, Overlap
  <2>2. /\ user.upto \in 1..Len(user.rows) /\ user.upto = Full + 1 /\ Full' = Full + 1
        /\ Entire' = Append(Entire, Moved(user.rows[user.upto]))
    BY <1>6, <2>1, ReaddShape
  <2>3. user'.rows = user.rows /\ user'.model = user.model
        /\ \/ user'.op = "readd" /\ user'.upto = user.upto + 1
           \/ user'.op = "rebind" /\ user'.upto = user.upto
    BY <1>6 DEF Readd, TypeOK, UserType
  <2>4. \A i \in 1..Full' : Entire'[i] = Moved(user.rows[i])
    <3>1. \A i \in 1..Full : Entire[i] = Moved(user.rows[i])
      BY <1>6, ShapeFacts DEF CopyInv, Readd
    <3>2. QED
      BY <2>2, <3>1, ShapeFacts, ListFacts
  <2>5. \A i \in 1..Full' : Entire'[i] = Row(i)'
    BY DEF Entire
  <2>6. \A i \in 1..Full' : Row(i)' = Moved(user.rows[i])'
    BY <2>3, <2>4, <2>5 DEF Moved
  <2>7. GoodRows(user.rows, recorded) /\ Full \in Nat
    BY <1>6, ListFacts DEF Readd, CopyInv, Rewriting
  <2>8. QED
    BY <1>a, <2>1, <2>2, <2>3, <2>6, <2>7 DEF CopyInv, Rewriting
<1>7. CASE Rebind
  BY <1>7, <1>a, <1>b, <1>d, <1>e, CopyIdle DEF Rebind
<1>8. ASSUME NEW m \in Model, Reindex(m) PROVE CopyInv'
  <2>1. store' = store /\ worker' = worker /\ file' = file /\ recorded' = recorded
    BY <1>8 DEF Reindex, Use
  <2>2. CASE user'.op = "idle"
    BY <1>a, <1>d, <1>e, <2>1, <2>2, CopyIdle
  <2>3. CASE user' = [IdleUser EXCEPT !.op = "wipe", !.rows = Rows, !.upto = 1, !.model = m]
    <3>1. user'.op = "wipe" /\ user'.rows = Rows
      BY <2>3 DEF IdleUser
    <3>2. worker'.step = "idle" /\ worker.step = "idle"
      BY <2>1, <3>1 DEF Overlap
    <3>3. Ahead = {}
      BY <3>2 DEF Ahead, After, Part
    <3>4. Rows = Entire /\ GoodRows(Entire, recorded)
      BY <3>3, ShapeFacts DEF ShapeInv
    <3>5. QED
      BY <1>a, <1>d, <2>1, <3>1, <3>2, <3>4 DEF CopyInv, Rewriting
  <2>4. QED
    BY <1>8, <1>b, <2>2, <2>3 DEF Reindex, Use, IdleUser
<1>9. ASSUME NEW m \in Model, Start(m) PROVE CopyInv'
  <2>1. worker' = worker /\ user' = user /\ file' = file /\ recorded' = recorded
    BY <1>9 DEF Start
  <2>2. worker.step = "idle" /\ user.op = "idle"
    BY <1>9, <1>b DEF Start, ProcessInv
  <2>3. QED
    BY <1>a, <2>1, <2>2, CopyIdle
<1>10. CASE Take \/ Embed
  <2>1. /\ worker'.step \notin {"open", "write"} /\ store' = store /\ user' = user
        /\ file' = file /\ recorded' = recorded
    <3>1. CASE Take
      BY <3>1 DEF Take, IdleWorker
    <3>2. CASE Embed
      BY <1>b, <3>2 DEF Embed, TypeOK, WorkerType
    <3>3. QED
      BY <1>10, <3>1, <3>2
  <2>2. QED
    BY <1>a, <2>1, CopyFrame
<1>11. CASE Index
  <2>1. user' = user /\ file' = file /\ recorded' = recorded /\ worker'.step \notin {"open", "write"}
    BY <1>11 DEF Index, IdleWorker, TypeOK, WorkerType, PartAfter, Part
  <2>2. ~Rewriting
    BY <1>11 DEF Index, Overlap, Rewriting, Part
  <2>3. count <= count'
    <3>1. Full' = Full \/ Full' = Full + 1
      BY <1>11, <2>1, IndexShape
    <3>2. worker.step = "metadatas" => Ahead # {} /\ Full' = Full + 1
      BY <1>11, <2>1, IndexShape, AheadIs
    <3>3. worker.step # "metadatas" => Ahead' # {}
      BY <1>11 DEF Index, Ahead, After, Part, PartAfter, TypeOK, WorkerType
    <3>4. count = Full + (IF Ahead # {} THEN 1 ELSE 0) /\ Full \in Nat
      BY ShapeFacts, ListFacts
    <3>5. (count = Full + (IF Ahead # {} THEN 1 ELSE 0))'
      BY ShapeFacts, PTL
    <3>6. QED
      BY <3>1, <3>2, <3>3, <3>4, <3>5
  <2>4. user.op = "search" => user.upto <= count'
    <3>1. user.upto \in Nat
      BY DEF TypeOK, UserType
    <3>2. (count \in Nat)'
      BY ListFacts, PTL
    <3>3. QED
      BY <1>a, <2>3, <3>1, <3>2 DEF CopyInv
  <2>5. QED
    BY <1>a, <2>1, <2>2, <2>4 DEF CopyInv, Rewriting
<1>12. CASE Collect
  <2>1. Ahead = {}
    BY <1>12 DEF Collect, Ahead, After, Part
  <2>2. worker'.step \in {"open", "write"} => worker'.rows = Entire
    BY <1>12, <1>b, <2>1, ShapeFacts DEF Collect, TypeOK, WorkerType
  <2>3. QED
    BY <1>12, <1>a, <2>2, CopyFrame DEF Collect
<1>13. CASE OpenFile
  <2>1. worker'.step \in {"open", "write"} => worker'.rows = Entire
    BY <1>13, <1>b DEF OpenFile, CopyInv, TypeOK, WorkerType
  <2>2. GoodRows(file'.rows, recorded)
    BY <1>13, <1>a, <1>c DEF OpenFile, Torn
  <2>3. QED
    BY <1>13, <1>a, <2>1, <2>2, CopyFrame DEF OpenFile
<1>14. CASE WriteFile
  <2>1. worker'.step \notin {"open", "write"}
    BY <1>14, <1>b DEF WriteFile
  <2>2. GoodRows(file'.rows, recorded)
    BY <1>14, <1>a DEF WriteFile, CopyInv, ShapeInv
  <2>3. QED
    BY <1>14, <1>a, <2>1, <2>2, CopyFrame DEF WriteFile
<1>15. CASE Leave \/ Crash
  BY <1>15, <1>a, <1>b, CopyIdle DEF Leave, Crash, Lose
<1>16. CASE Repair
  <2>1. worker.step = "idle" /\ user' = user /\ store' = store /\ worker' = worker /\ recorded' = recorded
    BY <1>16, <1>b DEF Repair, ProcessInv
  <2>2. file'.rows = <<>>
    BY <1>16 DEF Repair, NoFile
  <2>3. QED
    BY <1>a, <1>c, <2>1, <2>2, CopyFrame
<1>17. QED
  BY <1>1, <1>2, <1>3, <1>4, <1>5, <1>6, <1>7, <1>8, <1>9, <1>10, <1>11, <1>12, <1>13, <1>14,
     <1>15, <1>16 DEF Step

-----------------------------------------------------------------------------
(* Where the turns are while nothing overlaps. *)

Waiting == {queue[i] : i \in DOMAIN queue}

InHand == IF worker.step \in {"embed", "texts"} THEN {worker.turn} ELSE {}

LEMMA PendingIs == Pending = Waiting \union InHand
  BY DEF Pending, Waiting, InHand

(* Steps after which each turn is where it was. *)
LEMMA TurnSame ==
    ASSUME TurnInv, recorded' = recorded, queue' = queue, gone' = gone, Stored' = Stored,
           \/ worker' = worker
           \/ worker.step \notin {"embed", "texts"} /\ worker'.step \notin {"embed", "texts"}
    PROVE  TurnInv'
<1>1. Pending' = Pending
  BY DEF Pending
<1>2. QED
  BY <1>1 DEF TurnInv

(* What the store holds when the application's thread holds no copy of it. *)
LEMMA StoredIs ==
    ASSUME TypeOK, ShapeInv, Ahead = {}, ~Rewriting \/ user.rows = <<>>
    PROVE  Stored = {Entire[i].texts : i \in 1..Full}
<1>1. Stored = {store.texts[i] : i \in 1..count}
  BY DEF Stored, Rewriting
<1>2. count = Full /\ \A i \in 1..Full : Entire[i].texts = store.texts[i]
  BY ShapeFacts, ListFacts
<1>3. QED
  BY <1>1, <1>2

LEMMA RecordTurn ==
    ASSUME TypeOK, TurnInv, Record
    PROVE  TurnInv'
<1>1. recorded \in Nat /\ recorded' = recorded + 1 /\ queue \in Seq(Turn)
  BY MemoryAssumption DEF Record, TypeOK
<1>2. 1..recorded' = 1..recorded \union {recorded'} /\ recorded' \notin 1..recorded
  BY <1>1
<1>3. Stored' = Stored /\ InHand' = InHand
  BY DEF Record, Stored, InHand, count
<1>4. CASE process = "up"
  <2>1. queue' = Append(queue, recorded') /\ gone' = gone
    BY <1>4 DEF Record
  <2>2. /\ DOMAIN queue' = 1..(Len(queue) + 1) /\ DOMAIN queue = 1..Len(queue) /\ Len(queue) \in Nat
        /\ queue'[Len(queue) + 1] = recorded' /\ \A i \in 1..Len(queue) : queue'[i] = queue[i]
    BY <1>1, <2>1
  <2>3. Waiting' = Waiting \union {recorded'}
    BY <2>2 DEF Waiting
  <2>4. Waiting \subseteq 1..recorded /\ InHand \subseteq 1..recorded
    BY PendingIs DEF TurnInv
  <2>5. Pending' = Pending \union {recorded'}
    BY <1>3, <2>3, PendingIs DEF Pending, Waiting, InHand
  <2>6. (1..recorded = Pending \union Stored \union gone)'
    BY <1>2, <1>3, <2>1, <2>5 DEF TurnInv
  <2>7. (Pending \intersect Stored = {} /\ gone \intersect (Pending \union Stored) = {})'
    BY <1>2, <1>3, <2>1, <2>5 DEF TurnInv
  <2>8. \A i, j \in DOMAIN queue' : queue'[i] = queue'[j] => i = j
    <3>1. \A i \in 1..Len(queue) : queue'[i] # recorded'
      BY <1>2, <2>2, <2>4 DEF Waiting
    <3>2. \A i, j \in 1..Len(queue) : queue'[i] = queue'[j] => i = j
      BY <2>2 DEF TurnInv
    <3>3. QED
      BY <2>2, <3>1, <3>2
  <2>9. worker'.step \in {"embed", "texts"} => \A i \in DOMAIN queue' : queue'[i] # worker'.turn
    <3>1. worker' = worker
      BY DEF Record
    <3>2. worker.step \in {"embed", "texts"} => worker.turn # recorded'
      BY <1>2, <2>4 DEF InHand
    <3>3. QED
      BY <2>2, <3>1, <3>2 DEF TurnInv
  <2>10. QED
    BY <2>6, <2>7, <2>8, <2>9 DEF TurnInv
<1>5. CASE process # "up"
  <2>1. queue' = queue /\ gone' = gone \union {recorded'} /\ worker' = worker
    BY <1>5 DEF Record
  <2>2. Pending' = Pending
    BY <2>1 DEF Pending
  <2>3. QED
    BY <1>2, <1>3, <2>1, <2>2 DEF TurnInv
<1>6. QED
  BY <1>4, <1>5

LEMMA TakeTurn ==
    ASSUME TypeOK, TurnInv, Take
    PROVE  TurnInv'
<1>1. queue \in Seq(Turn) /\ queue # <<>>
  BY DEF Take, TypeOK
<1>2. worker'.step = "embed" /\ worker'.turn = queue[1] /\ queue' = Tail(queue)
  BY <1>1 DEF Take, IdleWorker
<1>3. /\ Len(queue) \in Nat \ {0} /\ DOMAIN queue = 1..Len(queue) /\ DOMAIN queue' = 1..(Len(queue) - 1)
      /\ \A i \in 1..(Len(queue) - 1) : queue'[i] = queue[i + 1]
  BY <1>1, <1>2
<1>4. Waiting = Waiting' \union {queue[1]}
  <2>1. \A i \in 1..Len(queue) : i = 1 \/ i - 1 \in 1..(Len(queue) - 1)
    BY <1>3
  <2>2. \A i \in 1..Len(queue) : i = 1 \/ queue[i] = queue'[i - 1]
    BY <1>3, <2>1
  <2>3. \A i \in DOMAIN queue : queue[i] \in Waiting' \union {queue[1]}
    BY <1>3, <2>1, <2>2 DEF Waiting
  <2>4. \A i \in DOMAIN queue' : queue'[i] \in Waiting
    BY <1>3 DEF Waiting
  <2>5. queue[1] \in Waiting
    BY <1>3 DEF Waiting
  <2>6. QED
    BY <2>3, <2>4, <2>5 DEF Waiting
<1>5. Pending' = Pending
  BY <1>2, <1>4 DEF Take, Pending, Waiting
<1>6. Stored' = Stored /\ gone' = gone /\ recorded' = recorded
  BY DEF Take, Stored, count
<1>7. \A i, j \in DOMAIN queue' : queue'[i] = queue'[j] => i = j
  <2>1. \A i \in 1..(Len(queue) - 1) : i + 1 \in DOMAIN queue
    BY <1>3
  <2>2. QED
    BY <1>3, <2>1 DEF TurnInv
<1>8. \A i \in DOMAIN queue' : queue'[i] # worker'.turn
  <2>1. \A i \in 1..(Len(queue) - 1) : i + 1 \in DOMAIN queue /\ i + 1 # 1 /\ 1 \in DOMAIN queue
    BY <1>3
  <2>2. QED
    BY <1>2, <1>3, <2>1 DEF TurnInv
<1>9. QED
  BY <1>5, <1>6, <1>7, <1>8 DEF TurnInv

LEMMA EmbedTurn ==
    ASSUME TypeOK, TurnInv, Embed
    PROVE  TurnInv'
<1>1. Stored' = Stored /\ recorded' = recorded /\ queue' = queue /\ worker.step = "embed"
      /\ \A i \in DOMAIN queue : queue[i] # worker.turn
  BY DEF Embed, Stored, count, TurnInv
<1>2. CASE worker' = [worker EXCEPT !.step = "texts"] /\ gone' = gone
  <2>1. worker'.step = "texts" /\ worker'.turn = worker.turn
    BY <1>2 DEF TypeOK, WorkerType
  <2>2. Pending' = Pending
    BY <1>1, <2>1 DEF Pending
  <2>3. QED
    BY <1>1, <1>2, <2>1, <2>2 DEF TurnInv
<1>3. CASE worker' = IdleWorker /\ gone' = gone \union {worker.turn}
  <2>1. worker'.step = "idle"
    BY <1>3 DEF IdleWorker
  <2>2. Pending = Pending' \union {worker.turn} /\ worker.turn \notin Pending'
    BY <1>1, <2>1 DEF Pending
  <2>3. QED
    BY <1>1, <1>3, <2>1, <2>2 DEF TurnInv
<1>4. QED
  BY <1>2, <1>3 DEF Embed

LEMMA IndexTurn ==
    ASSUME TypeOK, ActorInv, ShapeInv, TurnInv, ~Overlap, Index, ShapeInv', TypeOK'
    PROVE  TurnInv'
<1>1. /\ recorded' = recorded /\ queue' = queue /\ gone' = gone /\ user' = user
      /\ worker.step \in Part /\ ~Rewriting
  BY DEF Index, Overlap, Rewriting, Part
<1>2. worker'.step \notin {"embed", "texts"}
  BY DEF Index, IdleWorker, TypeOK, WorkerType, Part, PartAfter
<1>3. Stored = {store.texts[i] : i \in 1..count} /\ Stored' = {store'.texts[i] : i \in 1..count'}
  BY <1>1 DEF Stored, Rewriting
<1>4. store = [p \in Part |-> store[p]]
  BY StoreParts DEF TypeOK
<1>5. CASE worker.step # "texts"
  <2>1. store'.texts = store.texts
    BY <1>1, <1>4, <1>5 DEF Index, AppendPart, Part
  <2>2. Stored' = Stored
    BY <1>3, <2>1 DEF count
  <2>3. worker.step \notin {"embed", "texts"}
    BY <1>1, <1>5 DEF Part
  <2>4. QED
    BY <1>1, <1>2, <2>2, <2>3, TurnSame
<1>6. CASE worker.step = "texts"
  <2>1. store'.texts = Append(store.texts, worker.turn)
    BY <1>4, <1>6 DEF Index, AppendPart, NewRow, Part
  <2>2. store.texts \in Seq(Values("texts")) /\ count = Len(store.texts) /\ count \in Nat
    BY ListFacts DEF count, Part
  <2>3. /\ count' = count + 1 /\ store'.texts[count + 1] = worker.turn
        /\ \A i \in 1..count : store'.texts[i] = store.texts[i]
    BY <2>1, <2>2 DEF count
  <2>4. Stored' = Stored \union {worker.turn}
    BY <1>3, <2>2, <2>3
  <2>5. Pending = Pending' \union {worker.turn} /\ worker.turn \notin Pending'
    BY <1>1, <1>2, <1>6 DEF Pending, TurnInv
  <2>6. QED
    BY <1>1, <1>2, <2>4, <2>5 DEF TurnInv
<1>7. QED
  BY <1>5, <1>6

LEMMA NextTurn ==
    ASSUME TypeOK, ActorInv, ProcessInv, ShapeInv, CopyInv, TurnInv, ~Overlap, Step, TypeOK', ~Overlap',
           ShapeInv'
    PROVE  TurnInv'
<1>b. IdleWorker.step = "idle" /\ IdleUser.op = "idle" /\ IdleUser.rows = <<>>
  BY DEF IdleWorker, IdleUser
<1>1. CASE Record
  BY <1>1, RecordTurn
<1>2. CASE Take
  BY <1>2, TakeTurn
<1>3. CASE Embed
  BY <1>3, EmbedTurn
<1>4. CASE Index
  BY <1>4, IndexTurn
<1>5. ASSUME UNCHANGED <<recorded, queue, worker, gone>>, Stored' = Stored PROVE TurnInv'
  BY <1>5, TurnSame
<1>6. CASE Search \/ Score \/ Clear
  <2>1. /\ UNCHANGED <<recorded, queue, worker, gone, store>> /\ ~Rewriting
        /\ ~Rewriting' \/ user'.rows = <<>>
    <3>1. CASE Search
      BY <3>1 DEF Search, Use, Running, Rewriting, IdleUser
    <3>2. CASE Score
      BY <3>2 DEF Score, Rewriting, IdleUser, TypeOK, UserType
    <3>3. CASE Clear
      BY <3>3 DEF Clear, Use, Running, Rewriting, IdleUser
    <3>4. QED
      BY <1>6, <3>1, <3>2, <3>3
  <2>2. Stored' = Stored
    BY <2>1 DEF Stored, Rewriting, count
  <2>3. QED
    BY <1>5, <2>1, <2>2
<1>7. CASE Wipe
  <2>1. UNCHANGED <<recorded, queue, worker>> /\ user.op = "wipe"
    BY <1>7 DEF Wipe
  <2>2. CASE user.rows # <<>>
    <3>1. user'.op = "readd" /\ user'.rows = user.rows /\ gone' = gone
      BY <1>7, <2>2 DEF Wipe, TypeOK, UserType
    <3>2. Stored' = Stored
      BY <2>1, <2>2, <3>1 DEF Stored
    <3>3. QED
      BY <1>5, <2>1, <3>1, <3>2
  <2>3. CASE user.rows = <<>>
    <3>1. user'.op = "idle" /\ gone' = gone \union Stored
      BY <1>7, <1>b, <2>3 DEF Wipe, Stored
    <3>2. count' = 0
      BY <1>7 DEF Wipe, count, EmptyStore, Part
    <3>3. Stored' = {}
      BY <3>1, <3>2 DEF Stored
    <3>4. Pending' = Pending
      BY <2>1 DEF Pending
    <3>5. QED
      BY <2>1, <3>1, <3>3, <3>4 DEF TurnInv
  <2>4. QED
    BY <2>2, <2>3
<1>8. CASE Readd
  <2>1. UNCHANGED <<recorded, queue, worker, gone>> /\ user.rows # <<>> /\ user.op = "readd"
    BY <1>8 DEF Readd, ActorInv
  <2>2. user'.rows = user.rows /\ user'.op \in {"readd", "rebind"}
    BY <1>8 DEF Readd, TypeOK, UserType
  <2>3. Stored' = Stored
    BY <2>1, <2>2 DEF Stored
  <2>4. QED
    BY <1>5, <2>1, <2>3
<1>9. CASE Rebind
  <2>1. /\ UNCHANGED <<recorded, queue, worker, gone, store>> /\ user.rows # <<>> /\ user.op = "rebind"
        /\ user'.op = "idle" /\ worker.step = "idle"
    BY <1>9, <1>b DEF Rebind, ActorInv, Overlap
  <2>2. Ahead = {} /\ Ahead' = {}
    BY <2>1 DEF Ahead, After, Part
  <2>3. Full = Len(user.rows) /\ \A i \in 1..Full : Entire[i] = Moved(user.rows[i])
    BY <2>1, ShapeFacts DEF CopyInv, ActorInv
  <2>4. \A i \in 1..Full : Entire[i].texts = user.rows[i].texts
    <3>1. \A i \in 1..Full : user.rows[i] \in RowType
      BY <2>3 DEF TypeOK, UserType
    <3>2. \A row \in RowType : Moved(row).texts = row.texts
      BY DEF Moved, RowType
    <3>3. QED
      BY <2>3, <3>1, <3>2
  <2>5. Stored = {user.rows[i].texts : i \in 1..Full}
    <3>1. user.rows \in Seq(RowType)
      BY DEF TypeOK, UserType
    <3>2. DOMAIN user.rows = 1..Full
      BY <2>3, <3>1
    <3>3. QED
      BY <2>1, <3>2 DEF Stored
  <2>6. count = Full /\ \A i \in 1..Full : Entire[i].texts = store.texts[i]
    BY <2>2, ShapeFacts, ListFacts
  <2>7. Stored' = {store.texts[i] : i \in 1..count}
    BY <2>1 DEF Stored, count
  <2>8. Stored' = Stored
    BY <2>4, <2>5, <2>6, <2>7
  <2>9. QED
    BY <1>5, <2>1, <2>8
<1>10. ASSUME NEW m \in Model, Reindex(m) PROVE TurnInv'
  <2>1. UNCHANGED <<recorded, queue, worker, gone, store>> /\ ~Rewriting
    BY <1>10 DEF Reindex, Use, Running, Rewriting
  <2>2. CASE user'.op = "idle"
    <3>1. Stored' = Stored
      BY <2>1, <2>2 DEF Stored, Rewriting, count
    <3>2. QED
      BY <1>5, <2>1, <3>1
  <2>3. CASE user' = [IdleUser EXCEPT !.op = "wipe", !.rows = Rows, !.upto = 1, !.model = m]
    <3>1. user'.op = "wipe" /\ user'.rows = Rows
      BY <2>3 DEF IdleUser
    <3>2. worker.step = "idle"
      BY <2>1, <3>1 DEF Overlap
    <3>3. Ahead = {}
      BY <3>2 DEF Ahead, After, Part
    <3>4. Rows = Entire /\ DOMAIN Entire = 1..Full /\ Full \in Nat /\ Len(Entire) = Full
      BY <3>3, ShapeFacts, ListFacts
    <3>5. Stored = {Entire[i].texts : i \in 1..Full}
      BY <2>1, <3>3, StoredIs
    <3>6. CASE Rows = <<>>
      BY <1>5, <2>1, <3>1, <3>6 DEF Stored, Rewriting, count
    <3>7. CASE Rows # <<>>
      <4>1. Stored' = {Rows[i].texts : i \in DOMAIN Rows}
        BY <3>1, <3>7 DEF Stored
      <4>2. Stored' = Stored
        BY <3>4, <3>5, <4>1
      <4>3. QED
        BY <1>5, <2>1, <4>2
    <3>8. QED
      BY <3>6, <3>7
  <2>4. QED
    BY <1>10, <1>b, <2>2, <2>3 DEF Reindex, Use, IdleUser
<1>11. ASSUME NEW m \in Model, Start(m) PROVE TurnInv'
  <2>1. UNCHANGED <<recorded, queue, worker, user>> /\ process = "down"
    BY <1>11 DEF Start
  <2>2. queue = <<>> /\ worker.step = "idle" /\ gone = 1..recorded /\ user.op = "idle"
    BY <1>b, <2>1 DEF ProcessInv
  <2>3. CASE file.kind = "torn"
    <3>1. UNCHANGED <<gone, store>>
      BY <1>11, <2>3 DEF Start
    <3>2. Stored' = Stored
      BY <2>1, <3>1 DEF Stored, count
    <3>3. QED
      BY <1>5, <2>1, <3>1, <3>2
  <2>4. CASE file.kind # "torn"
    <3>1. store' = [p \in Part |-> [i \in DOMAIN file.rows |-> file.rows[i][p]]]
      BY <1>11, <2>4 DEF Start
    <3>2. file.rows \in Seq(RowType)
      BY DEF TypeOK, FileType
    <3>3. store'.texts = [i \in DOMAIN file.rows |-> file.rows[i].texts]
      BY <3>1 DEF Part
    <3>4. count' = Len(file.rows) /\ DOMAIN file.rows = 1..Len(file.rows)
      BY <3>2, <3>3 DEF count
    <3>5. Stored' = {file.rows[i].texts : i \in DOMAIN file.rows}
      BY <2>1, <2>2, <3>3, <3>4 DEF Stored
    <3>6. Stored' \subseteq 1..recorded
      BY <3>5 DEF CopyInv, GoodRows
    <3>7. gone' = gone \ Stored'
      BY <1>11, <2>4, <3>5 DEF Start
    <3>8. Pending' = {}
      BY <2>1, <2>2 DEF Pending
    <3>9. QED
      BY <2>1, <2>2, <3>6, <3>7, <3>8 DEF TurnInv
  <2>5. QED
    BY <2>3, <2>4
<1>12. CASE Collect \/ OpenFile \/ WriteFile
  <2>1. UNCHANGED <<recorded, queue, gone, store, user>>
    BY <1>12 DEF Collect, OpenFile, WriteFile
  <2>2. worker.step \notin {"embed", "texts"} /\ worker'.step \notin {"embed", "texts"}
    BY <1>12, <1>b DEF Collect, OpenFile, WriteFile, TypeOK, WorkerType
  <2>3. Stored' = Stored
    BY <2>1 DEF Stored, count
  <2>4. QED
    BY <2>1, <2>2, <2>3, TurnSame
<1>13. CASE Close \/ Exit \/ Repair
  <2>1. UNCHANGED <<recorded, queue, worker, gone, store, user>>
    BY <1>13 DEF Close, Exit, Repair
  <2>2. Stored' = Stored
    BY <2>1 DEF Stored, count
  <2>3. QED
    BY <1>5, <2>1, <2>2
<1>14. CASE Leave \/ Crash
  <2>1. /\ queue' = <<>> /\ worker' = IdleWorker /\ store' = EmptyStore /\ user' = IdleUser
        /\ gone' = 1..recorded /\ recorded' = recorded
    BY <1>14 DEF Leave, Crash, Lose
  <2>2. count' = 0
    BY <2>1 DEF count, EmptyStore, Part
  <2>3. Pending' = {} /\ Stored' = {}
    BY <1>b, <2>1, <2>2 DEF Pending, Stored
  <2>4. QED
    BY <1>b, <2>1, <2>3 DEF TurnInv
<1>15. QED
  BY <1>1, <1>2, <1>3, <1>4, <1>6, <1>7, <1>8, <1>9, <1>10, <1>11, <1>12, <1>13, <1>14 DEF Step

-----------------------------------------------------------------------------
(* The theorems. *)

LEMMA InitIInv == Init => IInv
<1> SUFFICES ASSUME Init PROVE IInv
  OBVIOUS
<1>1. worker.step = "idle" /\ user.op = "idle" /\ user.rows = <<>> /\ file.rows = <<>>
  BY DEF Init, IdleWorker, IdleUser, NoFile
<1>2. \A p \in Part : store[p] = <<>>
  BY DEF Init, EmptyStore
<1>3. Full = 0 /\ count = 0 /\ Ahead = {}
  BY <1>1, <1>2, AheadIs DEF Full, count, Part
<1>4. Entire = <<>> /\ GoodRows(<<>>, recorded)
  BY <1>3 DEF Entire, GoodRows
<1>5. ShapeInv
  BY <1>2, <1>3, <1>4 DEF ShapeInv
<1>6. CopyInv
  BY <1>1, <1>4 DEF CopyInv, Rewriting
<1>7. Pending = {} /\ Stored = {} /\ gone = {} /\ queue = <<>> /\ 1..recorded = {}
  BY <1>1, <1>3 DEF Init, Pending, Stored
<1>8. TurnInv
  BY <1>1, <1>7 DEF TurnInv
<1>9. ActorInv
  BY <1>1 DEF Init, ActorInv, Rewriting, Part
<1>10. ProcessInv
  BY <1>1 DEF Init, ProcessInv
<1>11. OverlapInv
  BY <1>1 DEF OverlapInv, Overlap
<1>12. QED
  BY <1>5, <1>6, <1>8, <1>9, <1>10, <1>11, InitTypeOK DEF IInv, StoreInv

LEMMA NextIInv == IInv /\ [Next]_vars => IInv'
<1> SUFFICES ASSUME IInv, [Next]_vars PROVE IInv'
  OBVIOUS
<1>1. CASE Next
  <2>1. TypeOK' /\ ActorInv' /\ ProcessInv' /\ OverlapInv'
    BY <1>1, NextTypeOK, NextActor, NextProcess, NextOverlap DEF IInv
  <2>2. ASSUME ~overlapped' PROVE (ShapeInv /\ CopyInv /\ TurnInv)'
    <3>1. ~overlapped /\ ~Overlap' /\ Step
      BY <1>1, <2>2, Zenon DEF Next
    <3>2. ~Overlap /\ ShapeInv /\ CopyInv /\ TurnInv
      BY <3>1 DEF IInv, OverlapInv, StoreInv
    <3>3. ShapeInv'
      BY <2>1, <3>1, <3>2, NextShape DEF IInv
    <3>4. CopyInv'
      BY <2>1, <3>1, <3>2, <3>3, NextCopy DEF IInv
    <3>5. TurnInv'
      BY <2>1, <3>1, <3>2, <3>3, NextTurn DEF IInv
    <3>6. QED
      BY <3>3, <3>4, <3>5
  <2>3. StoreInv'
    BY <2>2 DEF StoreInv
  <2>4. QED
    BY <2>1, <2>3 DEF IInv
<1>2. CASE UNCHANGED vars
  <2>1. TypeOK'
    BY <1>2 DEF vars, IInv, TypeOK
  <2>2. ActorInv' /\ ProcessInv'
    BY <1>2 DEF vars, IInv, ActorInv, Rewriting, ProcessInv
  <2>3. OverlapInv'
    BY <1>2 DEF vars, IInv, OverlapInv, Overlap
  <2>4. overlapped' = overlapped
    BY <1>2 DEF vars
  <2>5. ShapeInv => ShapeInv'
    BY <1>2 DEF vars, ShapeInv, Full, Ahead, Entire, Row
  <2>6. CopyInv => CopyInv'
    <3>1. UNCHANGED <<file, recorded, worker, user, store>>
      BY <1>2 DEF vars
    <3>2. Full' = Full /\ Entire' = Entire /\ count' = count /\ Rewriting' = Rewriting
      BY <3>1 DEF Full, Entire, Row, count, Rewriting
    <3>3. \A i : Row(i)' = Row(i) /\ Moved(user.rows[i])' = Moved(user.rows[i])
      BY <3>1 DEF Row, Moved
    <3>4. QED
      BY <3>1, <3>2, <3>3 DEF CopyInv
  <2>7. TurnInv => TurnInv'
    <3>1. UNCHANGED <<recorded, queue, gone, worker>> /\ Stored' = Stored
      BY <1>2 DEF vars, Stored, count
    <3>2. QED
      BY <3>1, TurnSame
  <2>8. StoreInv'
    BY <2>4, <2>5, <2>6, <2>7, Zenon DEF IInv, StoreInv
  <2>9. QED
    BY <2>1, <2>2, <2>3, <2>8 DEF IInv
<1>3. QED
  BY <1>1, <1>2

(* The inductive invariant: types, what each actor holds, what the process
   leaves, and, until an overlap, where every turn is. *)
THEOREM Invariant == Spec => []IInv
<1>1. QED
  BY InitIInv, NextIInv, PTL DEF Spec

(* Every variable of the memory stays in its range: the lists hold turns and
   embeddings of known models, whatever interleaves. *)
THEOREM TypeCorrect == Spec => []TypeOK
<1>1. IInv => TypeOK
  BY DEF IInv
<1>2. QED
  BY <1>1, Invariant, PTL

(* Nothing is lost in silence: until a reindex or clear runs beside an
   embedding, each recorded turn is in exactly one place. *)
THEOREM NothingLost == Spec => []EveryTurnSomewhere
<1>1. IInv => EveryTurnSomewhere
  BY DEF IInv, StoreInv, TurnInv, EveryTurnSomewhere
<1>2. QED
  BY <1>1, Invariant, PTL

(* The four lists of TurnVectorStore agree whenever neither thread is adding to
   them, until a reindex or clear runs beside an embedding. *)
THEOREM WholeEntries == Spec => []EntriesWhole
<1>1. ASSUME IInv PROVE EntriesWhole
  <2> SUFFICES ASSUME ~overlapped, worker.step \notin Part
               PROVE  /\ \A p \in Part : Len(store[p]) = count
                      /\ \A i \in 1..count :
                            store.texts[i] = store.embeddings[i].turn
                            /\ store.texts[i] = store.turns[i] /\ store.texts[i] = store.metadatas[i]
    BY DEF EntriesWhole
  <2>1. TypeOK /\ ShapeInv
    BY <1>1 DEF IInv, StoreInv
  <2>2. Ahead = {}
    BY AheadIs DEF Part
  <2>3. count = Full /\ Full \in Nat /\ DOMAIN Entire = 1..Full /\ \A i \in 1..Full : Entire[i] = Row(i)
    BY <2>1, <2>2, ShapeFacts, ListFacts
  <2>4. \A p \in Part : Len(store[p]) = count
    BY <2>1, <2>2, <2>3 DEF ShapeInv
  <2>5. \A i \in 1..count : WholeRow(Row(i))
    BY <2>1, <2>3 DEF ShapeInv, GoodRows
  <2>6. \A i \in 1..count : /\ store.texts[i] = store.embeddings[i].turn
                            /\ store.texts[i] = store.turns[i] /\ store.texts[i] = store.metadatas[i]
    BY <2>5 DEF WholeRow, Row, Part
  <2>7. QED
    BY <2>4, <2>6
<1>2. QED
  BY <1>1, Invariant, PTL

(* An IndexError in search is the embedding thread's entry, half appended. *)
THEOREM SearchFails == Spec => SearchFailsOnlyMidAdd
<1>1. ASSUME IInv, [Next]_vars
      PROVE  [(~overlapped /\ user.op = "search" /\ user'.last = "raised")
                 => worker.step \in Part]_vars
  <2> SUFFICES ASSUME Next, ~overlapped, user.op = "search", user'.last = "raised"
               PROVE  worker.step \in Part
    BY <1>1
  <2>1. user.last = "none" /\ TypeOK /\ ShapeInv /\ CopyInv
    BY <1>1 DEF IInv, ActorInv, StoreInv
  <2>2. user' # user /\ user' # IdleUser
    BY <2>1 DEF IdleUser
  <2>3. Step
    BY DEF Next
  <2>4. Score
    BY <2>2, <2>3 DEF Step, Record, Search, Clear, Use, Running, Wipe, Readd, Rebind, Reindex, Start,
       Take, Embed, Index, Collect, OpenFile, WriteFile, Close, Exit, Leave, Crash, Lose, Repair
  <2>5. Len(user.rows) + 1 \in 1..user.upto /\ ~Readable(Len(user.rows) + 1)
    <3>1. [user EXCEPT !.rows = user'.rows].last = "none"
      BY <2>1 DEF TypeOK, UserType
    <3>2. user' # [IdleUser EXCEPT !.last = "hits"]
      BY DEF IdleUser
    <3>3. Len(user.rows) \in Nat /\ user.upto \in Nat
      BY <2>1 DEF TypeOK, UserType
    <3>4. QED
      BY <2>1, <2>4, <3>2, <3>3 DEF Score, TypeOK, UserType
  <2>6. user.upto <= count /\ count \in Nat
    BY <2>1, ListFacts DEF CopyInv
  <2>7. Ahead # {}
    BY <2>1, <2>5, <2>6, ShapeFacts DEF TypeOK, UserType
  <2>8. QED
    BY <2>7, AheadIs DEF Part
<1>2. QED
  BY <1>1, Invariant, PTL DEF Spec, SearchFailsOnlyMidAdd

-----------------------------------------------------------------------------
(* Memory implements RecallStore. *)

LEMMA EntriesAre ==
    ASSUME TypeOK, ShapeInv
    PROVE  Entries = IF Rewriting /\ user.rows # <<>> THEN AsEntries(user.rows) ELSE AsEntries(Entire)
<1>1. {j \in 1..count : Readable(j)} = 1..Full
  <2>1. \A i \in 1..Full : Readable(i) /\ i \in 1..count
    BY ShapeFacts, ListFacts
  <2>2. "metadatas" \in Part
    BY DEF Part
  <2>3. \A i \in 1..count : Readable(i) => i <= Full
    BY <2>2 DEF Readable, Full
  <2>4. QED
    BY <2>1, <2>3, ListFacts
<1>2. QED
  BY <1>1 DEF Entries, Entire, Rewriting

(* The mapped entries change only with the whole entries or the held copy. *)
LEMMA EntriesSame ==
    ASSUME TypeOK, ShapeInv, TypeOK', ShapeInv', Entire' = Entire, ~Rewriting \/ user.rows = <<>>,
           ~Rewriting' \/ user'.rows = <<>>
    PROVE  Entries' = Entries
<1>1. Entries = AsEntries(Entire)
  BY EntriesAre
<1>2. (Entries = IF Rewriting /\ user.rows # <<>> THEN AsEntries(user.rows) ELSE AsEntries(Entire))'
  BY EntriesAre, PTL
<1>3. Entries' = AsEntries(Entire')
  BY <1>2 DEF AsEntries
<1>4. QED
  BY <1>1, <1>3

LEMMA AsEntriesAppend ==
    ASSUME NEW rows \in Seq(RowType), NEW row \in RowType
    PROVE  AsEntries(Append(rows, row)) =
              Append(AsEntries(rows), [turn |-> row.texts, model |-> row.embeddings.model])
<1> DEFINE all == Append(rows, row)
           old == AsEntries(rows)
           new == [turn |-> row.texts, model |-> row.embeddings.model]
<1>1. DOMAIN rows = 1..Len(rows) /\ Len(rows) \in Nat /\ DOMAIN all = 1..(Len(rows) + 1)
      /\ all[Len(rows) + 1] = row /\ \A i \in 1..Len(rows) : all[i] = rows[i]
  OBVIOUS
<1>2. old = [i \in 1..Len(rows) |-> [turn |-> rows[i].texts, model |-> rows[i].embeddings.model]]
  BY <1>1 DEF AsEntries
<1>3. Append(old, new) = [i \in 1..(Len(rows) + 1) |-> IF i <= Len(rows) THEN old[i] ELSE new]
  <2>1. old \in Seq([turn : Turn, model : Model])
    <3>1. \A i \in 1..Len(rows) : rows[i] \in RowType
      OBVIOUS
    <3>2. \A i \in 1..Len(rows) :
             [turn |-> rows[i].texts, model |-> rows[i].embeddings.model] \in [turn : Turn, model : Model]
      BY <3>1 DEF RowType, Embedding
    <3> HIDE DEF old
    <3>3. QED
      BY <1>1, <1>2, <3>2
  <2>2. Len(old) = Len(rows)
    BY <1>1, <1>2
  <2>3. new \in [turn : Turn, model : Model]
    BY DEF RowType, Embedding
  <2> HIDE DEF old, new
  <2> DEFINE a == Append(old, new)
  <2>4. /\ a \in Seq([turn : Turn, model : Model]) /\ Len(a) = Len(rows) + 1
        /\ \A i \in 1..Len(rows) : a[i] = old[i]
        /\ a[Len(rows) + 1] = new
    BY <2>1, <2>2, <2>3, AppendProperties
  <2> HIDE DEF a
  <2>5. a = [i \in 1..(Len(rows) + 1) |-> a[i]]
    BY <2>4
  <2>6. \A i \in 1..(Len(rows) + 1) : a[i] = IF i <= Len(rows) THEN old[i] ELSE new
    BY <1>1, <2>4
  <2>7. a = [i \in 1..(Len(rows) + 1) |-> IF i <= Len(rows) THEN old[i] ELSE new]
    BY <2>5, <2>6
  <2>8. QED
    BY <2>7 DEF a
<1>4. AsEntries(all) = [i \in 1..(Len(rows) + 1) |-> [turn |-> all[i].texts, model |-> all[i].embeddings.model]]
  BY <1>1 DEF AsEntries
<1>5. \A i \in 1..(Len(rows) + 1) :
         [turn |-> all[i].texts, model |-> all[i].embeddings.model] = IF i <= Len(rows) THEN old[i] ELSE new
  <2> HIDE DEF all
  <2>1. QED
    BY <1>1, <1>2
<1>6. QED
  BY <1>3, <1>4, <1>5

LEMMA RebindReembeds ==
    ASSUME TypeOK, ActorInv, ProcessInv, ShapeInv, CopyInv, ~Overlap, Rebind, TypeOK', ShapeInv'
    PROVE  \E m \in Model : Recall!Reembed(m)
<1>1. /\ user.op = "rebind" /\ user.rows # <<>> /\ user.model \in Model /\ Rewriting
      /\ process \in {"up", "closed"} /\ UNCHANGED <<store, file, process, worker>>
      /\ backend' = user.model /\ user'.op = "idle" /\ ~Rewriting'
  BY DEF Rebind, ActorInv, ProcessInv, Rewriting, IdleUser
<1>2. Entries = AsEntries(user.rows)
  BY <1>1, EntriesAre
<1>3. (Entries = IF Rewriting /\ user.rows # <<>> THEN AsEntries(user.rows) ELSE AsEntries(Entire))'
  BY EntriesAre, PTL
<1>4. Entire' = Entire
  BY <1>1 DEF Entire, Full, Row
<1>5. Entries' = AsEntries(Entire)
  BY <1>1, <1>3, <1>4 DEF AsEntries
<1>6. /\ Full = Len(user.rows) /\ Full \in Nat /\ DOMAIN Entire = 1..Full /\ DOMAIN user.rows = 1..Full
      /\ \A i \in 1..Full : user.rows[i] \in RowType /\ Entire[i] = Moved(user.rows[i])
  <2>1. Full = user.upto /\ user.upto = Len(user.rows)
    BY <1>1 DEF CopyInv, ActorInv
  <2>2. user.rows \in Seq(RowType)
    BY DEF TypeOK, UserType
  <2>3. DOMAIN user.rows = 1..Full /\ \A i \in 1..Full : user.rows[i] \in RowType
    BY <2>1, <2>2
  <2>4. \A i \in 1..Full : Entire[i] = Moved(user.rows[i])
    BY <1>1, ShapeFacts DEF CopyInv
  <2>5. QED
    BY <2>1, <2>3, <2>4, ShapeFacts, ListFacts
<1>7. \A row \in RowType :
         [turn |-> Moved(row).texts, model |-> Moved(row).embeddings.model]
            = [[turn |-> row.texts, model |-> row.embeddings.model] EXCEPT !.model = user.model]
  BY DEF Moved, RowType, Embedding
<1>8. Entries' = [i \in DOMAIN Entries |-> [Entries[i] EXCEPT !.model = user.model]]
  BY <1>2, <1>5, <1>6, <1>7 DEF AsEntries
<1>9. Recall!Reembed(user.model)
  <2>1. AsEntries(file.rows)' = AsEntries(file.rows)
    BY <1>1 DEF AsEntries
  <2>2. QED
    BY <1>1, <1>8, <2>1 DEF Recall!Reembed
<1>10. QED
  BY <1>1, <1>9

LEMMA IndexRemembers ==
    ASSUME TypeOK, ActorInv, ProcessInv, ShapeInv, TurnInv, ~Overlap, Index, TypeOK',
           Entries = IF Rewriting /\ user.rows # <<>> THEN AsEntries(user.rows) ELSE AsEntries(Entire),
           Entries' = IF Rewriting' /\ user'.rows # <<>> THEN AsEntries(user'.rows) ELSE AsEntries(Entire')
    PROVE  (\E t \in Turn : Recall!Remember(t)) \/ UNCHANGED Recall!abstractVars
<1>1. /\ UNCHANGED <<user, file, backend, process, recorded>> /\ worker.step \in Part /\ ~Rewriting
      /\ worker.turn \in Turn /\ worker.model = backend /\ backend \in Model
      /\ process \in {"up", "closed", "exiting"}
  BY DEF Index, Overlap, Rewriting, ActorInv, ProcessInv, Part, TypeOK, IdleWorker
<1>2. Entries = AsEntries(Entire) /\ Entries' = AsEntries(Entire')
  BY <1>1 DEF Rewriting
<1>3. AsEntries(file.rows)' = AsEntries(file.rows)
  BY <1>1 DEF AsEntries
<1>4. CASE worker.step # "metadatas"
  <2>1. Entire' = Entire
    BY <1>1, <1>4, IndexShape
  <2>2. QED
    BY <1>1, <1>2, <1>3, <2>1 DEF Recall!abstractVars
<1>5. CASE worker.step = "metadatas"
  <2> DEFINE row == NewRow(worker.turn, backend)
  <2>1. Entire' = Append(Entire, row)
    BY <1>1, <1>5, IndexShape
  <2>2. row \in RowType /\ row.texts = worker.turn /\ row.embeddings.model = backend
    BY <1>1, NewRowType DEF NewRow, Part
  <2> HIDE DEF row
  <2>3. Entries' = Append(Entries, [turn |-> worker.turn, model |-> backend])
    BY <1>2, <2>1, <2>2, AsEntriesAppend, ShapeFacts
  <2>4. \A i \in DOMAIN Entries : Entries[i].turn # worker.turn
    <3>1. \A i \in 1..Full : Entire[i].texts # worker.turn
      BY <1>1, ShapeFacts, TurnInHand
    <3>2. QED
      BY <1>2, <3>1, ShapeFacts DEF AsEntries
  <2>5. Recall!Remember(worker.turn)
    BY <1>1, <1>3, <2>3, <2>4 DEF Recall!Remember
  <2>6. QED
    BY <1>1, <2>5
<1>6. QED
  BY <1>4, <1>5

LEMMA StutterShown ==
    ASSUME Entries' = Entries, file' = file, backend' = backend,
           process' = process \/ {process, process'} \subseteq {"up", "closed", "exiting"}
                              \/ {process, process'} \subseteq {"down", "refused"}
    PROVE  UNCHANGED Recall!abstractVars
<1>1. AsEntries(file.rows)' = AsEntries(file.rows)
  BY DEF AsEntries
<1>2. (process \in {"up", "closed", "exiting"})' = (process \in {"up", "closed", "exiting"})
  OBVIOUS
<1>3. QED
  BY <1>1, <1>2 DEF Recall!abstractVars

LEMMA StepRecall ==
    ASSUME IInv, IInv', ~overlapped, ~overlapped', Step
    PROVE  Recall!Next \/ UNCHANGED Recall!abstractVars
<1>a. /\ TypeOK /\ ActorInv /\ ProcessInv /\ ShapeInv /\ CopyInv /\ TurnInv /\ ~Overlap
      /\ TypeOK' /\ ActorInv' /\ ProcessInv' /\ ShapeInv' /\ CopyInv' /\ TurnInv' /\ ~Overlap'
  BY Zenon DEF IInv, StoreInv, OverlapInv
<1>b. /\ IdleWorker.step = "idle" /\ IdleUser.op = "idle" /\ IdleUser.rows = <<>>
      /\ AsEntries(<<>>) = <<>>
  BY DEF IdleWorker, IdleUser, AsEntries
<1>c. store' = store => Entire' = Entire
  BY DEF Entire, Full, Row
<1>d. (Entries = IF Rewriting /\ user.rows # <<>> THEN AsEntries(user.rows) ELSE AsEntries(Entire))'
  BY <1>a, EntriesAre, PTL
<1>e. Entries' = IF Rewriting' /\ user'.rows # <<>> THEN AsEntries(user'.rows) ELSE AsEntries(Entire')
  BY <1>d DEF AsEntries
<1>f. Entries = IF Rewriting /\ user.rows # <<>> THEN AsEntries(user.rows) ELSE AsEntries(Entire)
  BY <1>a, EntriesAre
<1>1. CASE Record \/ Take \/ Embed \/ Collect \/ Close \/ Exit
  <2>1. UNCHANGED <<store, user, file, backend>>
    BY <1>1 DEF Record, Take, Embed, Collect, Close, Exit
  <2>2. Entries' = Entries
    BY <1>c, <1>e, <1>f, <2>1 DEF Rewriting
  <2>3. process' = process \/ {process, process'} \subseteq {"up", "closed", "exiting"}
    BY <1>1 DEF Record, Take, Embed, Collect, Close, Exit, Running
  <2>4. QED
    BY <2>1, <2>2, <2>3, StutterShown
<1>2. CASE Search \/ Score \/ Clear
  <2>1. UNCHANGED <<store, file, backend, process>>
    BY <1>2 DEF Search, Score, Clear, Use
  <2>2. ~Rewriting /\ (~Rewriting' \/ user'.rows = <<>>)
    <3>1. CASE Search
      BY <3>1 DEF Search, Use, Running, Rewriting, IdleUser
    <3>2. CASE Score
      BY <1>a, <3>2 DEF Score, Rewriting, IdleUser, TypeOK, UserType
    <3>3. CASE Clear
      BY <3>3 DEF Clear, Use, Running, Rewriting, IdleUser
    <3>4. QED
      BY <1>2, <3>1, <3>2, <3>3
  <2>3. Entries' = Entries
    BY <1>c, <1>e, <1>f, <2>1, <2>2
  <2>4. QED
    BY <2>1, <2>3, StutterShown
<1>3. CASE Wipe
  <2>1. CASE user.rows # <<>>
    <3>1. user'.op = "readd" /\ user'.rows = user.rows /\ user.op = "wipe"
      BY <1>3, <1>a, <2>1 DEF Wipe, TypeOK, UserType
    <3>2. Entries' = Entries
      BY <1>e, <1>f, <2>1, <3>1 DEF Rewriting
    <3>3. QED
      BY <1>3, <3>2, StutterShown DEF Wipe
  <2>2. CASE user.rows = <<>>
    <3>1. user'.op = "idle" /\ user'.rows = <<>>
      BY <1>3, <1>b, <2>2 DEF Wipe
    <3>2. Full' = 0
      BY <1>3 DEF Wipe, Full, EmptyStore, Part
    <3>3. Entire' = <<>>
      BY <3>2 DEF Entire
    <3>4. Entries' = <<>>
      BY <1>b, <1>e, <3>1, <3>3
    <3>5. process' = process /\ process \in {"up", "closed"} /\ file' = file /\ backend' = backend
      BY <1>3, <1>a DEF Wipe, ProcessInv
    <3>6. Recall!Forget
      BY <3>4, <3>5 DEF Recall!Forget, AsEntries
    <3>7. QED
      BY <3>6 DEF Recall!Next
  <2>3. QED
    BY <2>1, <2>2
<1>4. CASE Readd
  <2>1. user.rows # <<>> /\ user.op = "readd" /\ user'.rows = user.rows /\ user'.op \in {"readd", "rebind"}
    BY <1>4, <1>a DEF Readd, ActorInv, TypeOK, UserType
  <2>2. Entries' = Entries
    BY <1>e, <1>f, <2>1 DEF Rewriting
  <2>3. QED
    BY <1>4, <2>2, StutterShown DEF Readd
<1>5. CASE Rebind
  BY <1>5, <1>a, RebindReembeds DEF Recall!Next
<1>6. ASSUME NEW m \in Model, Reindex(m) PROVE Recall!Next \/ UNCHANGED Recall!abstractVars
  <2>1. UNCHANGED <<store, file, process, worker>> /\ ~Rewriting /\ process \in {"up", "closed"}
    BY <1>6 DEF Reindex, Use, Running, Rewriting
  <2>2. CASE count = 0
    <3>1. user' = IdleUser /\ backend' = m
      BY <1>6, <2>2 DEF Reindex, Use
    <3>2. Full = 0
      BY <1>a, <2>2, ShapeFacts, ListFacts
    <3>3. Entire = <<>>
      BY <3>2 DEF Entire
    <3>4. Entries = <<>> /\ Entries' = <<>>
      BY <1>b, <1>c, <1>e, <1>f, <2>1, <3>1, <3>3 DEF Rewriting
    <3>5. Recall!Reembed(m)
      BY <2>1, <3>1, <3>4 DEF Recall!Reembed, AsEntries
    <3>6. QED
      BY <3>5 DEF Recall!Next
  <2>3. CASE count # 0
    <3>1. backend' = backend
      BY <1>6, <2>3 DEF Reindex
    <3>2. CASE user'.op = "idle"
      BY <1>c, <1>e, <1>f, <2>1, <3>1, <3>2, StutterShown DEF Rewriting
    <3>3. CASE user' = [IdleUser EXCEPT !.op = "wipe", !.rows = Rows, !.upto = 1, !.model = m]
      <4>1. user'.op = "wipe" /\ user'.rows = Rows
        BY <3>3 DEF IdleUser
      <4>2. worker.step = "idle"
        BY <1>a, <2>1, <4>1 DEF Overlap
      <4>3. Ahead = {}
        BY <4>2 DEF Ahead, After, Part
      <4>4. Rows = Entire
        BY <1>a, <4>3, ShapeFacts
      <4>5. Entries' = Entries
        BY <1>c, <1>e, <1>f, <2>1, <4>1, <4>4
      <4>6. QED
        BY <2>1, <3>1, <4>5, StutterShown
    <3>4. QED
      BY <1>6, <1>b, <2>3, <3>2, <3>3 DEF Reindex, Use, IdleUser
  <2>4. QED
    BY <2>2, <2>3
<1>7. ASSUME NEW m \in Model, Start(m) PROVE Recall!Next \/ UNCHANGED Recall!abstractVars
  <2>1. process = "down" /\ UNCHANGED <<worker, user, file, recorded>> /\ ~Rewriting
    BY <1>7, <1>a DEF Start, ProcessInv, Rewriting
  <2>2. CASE file.kind = "torn"
    <3>1. UNCHANGED <<store, backend>> /\ process' = "refused"
      BY <1>7, <2>2 DEF Start
    <3>2. Entries' = Entries
      BY <1>c, <1>e, <1>f, <2>1, <3>1 DEF Rewriting
    <3>3. QED
      BY <2>1, <3>1, <3>2, StutterShown
  <2>3. CASE file.kind # "torn"
    <3>1. /\ process' = "up" /\ backend' = m
          /\ store' = [p \in Part |-> [i \in DOMAIN file.rows |-> file.rows[i][p]]]
      BY <1>7, <2>3 DEF Start
    <3>2. Entire' = file.rows
      BY <1>a, <2>1, <3>1, StartShape
    <3>3. Entries' = AsEntries(file.rows)
      BY <1>e, <2>1, <3>2 DEF Rewriting
    <3>4. Recall!Resume
      BY <2>1, <2>3, <3>1, <3>3 DEF Recall!Resume, AsEntries
    <3>5. QED
      BY <3>4 DEF Recall!Next
  <2>4. QED
    BY <2>2, <2>3
<1>8. CASE Index
  BY <1>8, <1>a, <1>e, <1>f, IndexRemembers DEF Recall!Next
<1>9. CASE OpenFile \/ WriteFile
  <2>1. UNCHANGED <<store, user, backend, process>>
    BY <1>9 DEF OpenFile, WriteFile
  <2>2. Entries' = Entries
    BY <1>c, <1>e, <1>f, <2>1 DEF Rewriting
  <2>3. process \in {"up", "closed", "exiting"} /\ ~Rewriting /\ Entries = AsEntries(Entire)
    BY <1>9, <1>a, <1>b, <1>f DEF OpenFile, WriteFile, ProcessInv, Overlap, Rewriting, TypeOK
  <2>4. CASE file' = file
    BY <2>1, <2>2, <2>4, StutterShown
  <2>5. CASE file' = Torn
    <3>1. Recall!Save
      BY <1>b, <2>1, <2>2, <2>3, <2>5 DEF Torn, AsEntries, Recall!Save, Recall!Unreadable
    <3>2. QED
      BY <3>1 DEF Recall!Next
  <2>6. CASE WriteFile /\ file' = [kind |-> "whole", rows |-> worker.rows]
    <3>1. worker.rows = Entire
      BY <1>a, <2>6 DEF WriteFile, CopyInv
    <3>2. file'.kind = "whole" /\ AsEntries(file.rows)' = AsEntries(Entire)
      BY <2>6, <3>1 DEF AsEntries
    <3>3. Recall!Save
      BY <2>1, <2>2, <2>3, <3>2 DEF Recall!Save, Recall!Copy
    <3>4. QED
      BY <3>3 DEF Recall!Next
  <2>7. QED
    BY <1>9, <2>4, <2>5, <2>6 DEF OpenFile, WriteFile
<1>10. CASE Leave \/ Crash
  <2>1. /\ process \in {"up", "closed", "exiting"} /\ process' = "down"
        /\ store' = EmptyStore /\ user' = IdleUser /\ UNCHANGED <<backend, file>>
    BY <1>10 DEF Leave, Crash, Lose
  <2>2. Full' = 0
    BY <2>1 DEF Full, EmptyStore, Part
  <2>3. Entire' = <<>>
    BY <2>2 DEF Entire
  <2>4. Entries' = <<>>
    BY <1>b, <1>e, <2>1, <2>3
  <2>5. Recall!End
    BY <2>1, <2>4 DEF Recall!End, AsEntries
  <2>6. QED
    BY <2>5 DEF Recall!Next
<1>11. CASE Repair
  <2>1. process = "refused" /\ process' = "down" /\ UNCHANGED <<store, user, backend>>
        /\ file.kind = "torn" /\ file'.kind = "absent" /\ file'.rows = <<>>
    BY <1>11, <1>a DEF Repair, ProcessInv, NoFile
  <2>2. Entries' = Entries
    BY <1>c, <1>e, <1>f, <2>1 DEF Rewriting
  <2>3. AsEntries(file.rows)' = <<>>
    BY <1>b, <2>1 DEF AsEntries
  <2>4. ~(process \in {"up", "closed", "exiting"}) /\ ~(process' \in {"up", "closed", "exiting"})
    BY <2>1
  <2>5. (file.kind # "torn")' = TRUE /\ ~(file.kind # "torn")
    BY <2>1
  <2>6. Recall!Discard
    <3>1. ~[readable |-> file.kind # "torn", entries |-> AsEntries(file.rows)].readable
      BY <2>5
    <3>2. [readable |-> file.kind # "torn", entries |-> AsEntries(file.rows)]'
             = [readable |-> TRUE, entries |-> <<>>]
      BY <2>3, <2>5
    <3>3. UNCHANGED <<Entries, backend, process \in {"up", "closed", "exiting"}>>
      BY <2>1, <2>2, <2>4
    <3>4. QED
      BY <2>4, <3>1, <3>2, <3>3 DEF Recall!Discard, Recall!Copy
  <2>7. QED
    BY <2>6 DEF Recall!Next
<1>12. QED
  BY <1>1, <1>2, <1>3, <1>4, <1>5, <1>6, <1>7, <1>8, <1>9, <1>10, <1>11 DEF Step

LEMMA InitRecall == Init => Recall!Init
<1> SUFFICES ASSUME Init PROVE Recall!Init
  OBVIOUS
<1>1. process = "up" /\ backend \in Model /\ file.kind = "absent" /\ file.rows = <<>>
      /\ user.op = "idle"
  BY DEF Init, NoFile, IdleUser
<1>2. count = 0
  BY DEF Init, count, EmptyStore, Part
<1>3. Entries = <<>> /\ AsEntries(file.rows) = <<>>
  BY <1>1, <1>2 DEF Entries, AsEntries
<1>4. QED
  BY <1>1, <1>3 DEF Recall!Init, Recall!Copy

(* The lists, the thread, the file and the process implement RecallStore until
   a reindex or clear runs beside an embedding. *)
THEOREM Implements == Spec => ImplementsStore
<1>1. ASSUME IInv, IInv', [Next]_vars
      PROVE  [Recall!Next \/ overlapped']_(Recall!abstractVars)
  <2>1. CASE Next
    <3>1. CASE overlapped'
      BY <3>1
    <3>2. CASE ~overlapped'
      <4>1. Step /\ ~overlapped
        BY <2>1, <3>2, Zenon DEF Next
      <4>2. Recall!Next \/ UNCHANGED Recall!abstractVars
        BY <1>1, <3>2, <4>1, StepRecall
      <4>3. QED
        BY <4>2
    <3>3. QED
      BY <3>1, <3>2
  <2>2. CASE UNCHANGED vars
    <3>1. Entries' = Entries
      BY <2>2 DEF vars, Entries, AsEntries, count, Readable, Row
    <3>2. QED
      BY <2>2, <3>1, StutterShown DEF vars
  <2>3. QED
    BY <1>1, <2>1, <2>2
<1>2. QED
  BY <1>1, InitRecall, Invariant, PTL DEF Spec, ImplementsStore
=============================================================================
