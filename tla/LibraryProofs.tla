---------------------------- MODULE LibraryProofs -----------------------------
(***************************************************************************)
(* The properties of the parts that stand alone, each for every value of   *)
(* its constants: EmbeddingsRight for any finite set of threads, any texts *)
(* and size of the cache; LinksAgree for any chunks, references and number *)
(* of calls; JudgedRight for any number of retries and attempts; and       *)
(* WiringRight for any clients and numbers of calls and deeds.             *)
(***************************************************************************)
EXTENDS Parts, NaturalsInduction, WellFoundedInduction, FiniteSetTheorems, SequenceTheorems, TLAPS

-----------------------------------------------------------------------------
(* The cache of embeddings. *)

PcType == {"idle", "look", "touch", "read", "ask", "fill", "order", "trim", "pop",
           "done", "refused", "failed"}

Looking == {"look", "touch", "read"}
Trimming == {"order", "trim", "pop"}

EntryType == [text : Texts, vector : Texts]

CallType ==
    [pc : PcType, texts : Seq(Texts), at : Nat, missing : Seq(Nat),
     vectors : Seq(Texts), answer : Seq(Seq(Texts))]

CacheTypeInv ==
    /\ cache \in Seq(EntryType)
    /\ calls \in [Threads -> CallType]
    /\ raced \in BOOLEAN
    /\ abandoned \in Nat

(* Every entry holds the vector of its text, and a text has one entry. *)
VectorsTrue(entries) == \A k \in DOMAIN entries : entries[k].vector = entries[k].text
OnePlace(entries) == \A j, k \in DOMAIN entries : entries[j].text = entries[k].text => j = k

EntriesInv == VectorsTrue(cache) /\ OnePlace(cache)

Replied(own, i) == own.answer[i] = << own.texts[i] >>
Owed(own, i, from) == \E j \in DOMAIN own.missing : from <= j /\ own.missing[j] = i
Covered(own, i, from) == Replied(own, i) \/ Owed(own, i, from)

(* The answer has a place for every text; what is missing are places of texts. *)
Shaped(own) ==
    /\ Len(own.answer) = Len(own.texts)
    /\ \A j \in DOMAIN own.missing : own.missing[j] \in DOMAIN own.texts

(* While texts are looked up, those before the current one are answered or missing. *)
LookInv(own) ==
    /\ own.at \in DOMAIN own.texts
    /\ \A i \in DOMAIN own.texts : i < own.at => Covered(own, i, 1)

(* While answers are stored, each vector is that of its text. *)
Supplied(own) ==
    /\ own.at \in DOMAIN own.missing
    /\ Len(own.vectors) = Len(own.missing)
    /\ \A j \in DOMAIN own.missing : own.vectors[j] = own.texts[own.missing[j]]

AllCovered(own, from) == \A i \in DOMAIN own.texts : Covered(own, i, from)
AllAnswered(own) == \A i \in DOMAIN own.texts : Replied(own, i)

CallInv(own) ==
    /\ Shaped(own)
    /\ own.pc \in Looking => LookInv(own)
    /\ own.pc = "ask" => own.missing # <<>> /\ AllCovered(own, 1)
    /\ own.pc = "fill" => Supplied(own) /\ AllCovered(own, own.at)
    /\ own.pc \in Trimming => Supplied(own) /\ AllCovered(own, own.at + 1)
    /\ own.pc = "done" => AllAnswered(own)

CallsInv == \A c \in Threads : CallInv(calls[c])

(* The threads that stored an entry and have not trimmed the cache yet. *)
Late == {c \in Threads : calls[c].pc \in Trimming}

SizeInv == Len(cache) <= CacheSize + Cardinality(Late) + abandoned

(* What a thread found is still there, as long as it is alone. *)
Kept(own) ==
    /\ own.pc \in {"touch", "read"} => Embedding!Cached(own.texts[own.at])
    /\ own.pc = "order" => Embedding!Cached(own.texts[own.missing[own.at]])
    /\ own.pc = "pop" => cache # <<>>
    /\ own.pc # "failed"

AloneInv ==
    ~raced =>
         /\ \A c, d \in Threads : Embedding!Active(c) /\ Embedding!Active(d) => c = d
         /\ \A c \in Threads : Kept(calls[c])

CacheIInv == CacheTypeInv /\ EntriesInv /\ CallsInv /\ SizeInv /\ AloneInv
-----------------------------------------------------------------------------
(* The entries of the cache. *)

LEMMA PlaceHeld ==
    ASSUME NEW text, Embedding!Cached(text)
    PROVE  Embedding!Place(text) \in DOMAIN cache /\ cache[Embedding!Place(text)].text = text
  BY DEF Embedding!Cached, Embedding!Place

(* Where the entries of r come from when entry k of s is moved to the end. *)
Rotated(r, s, k) ==
    \A j \in DOMAIN s : r[j] = IF j < k THEN s[j] ELSE IF j < Len(s) THEN s[j + 1] ELSE s[k]

LEMMA MovedPlaces ==
    ASSUME NEW S, NEW s \in Seq(S), NEW k \in DOMAIN s,
           NEW r, r = Append(Embedding!RemoveAt(s, k), s[k])
    PROVE  /\ r \in Seq(S) /\ Len(r) = Len(s)
           /\ Rotated(r, s, k)
<1> DEFINE front == SubSeq(s, 1, k - 1)
           back == SubSeq(s, k + 1, Len(s))
<1>1. k \in 1..Len(s) /\ Len(s) \in Nat
  OBVIOUS
<1>2. front \in Seq(S) /\ Len(front) = k - 1 /\ \A j \in 1..(k - 1) : front[j] = s[j]
  BY <1>1
<1>3. back \in Seq(S) /\ Len(back) = Len(s) - k /\ \A j \in 1..(Len(s) - k) : back[j] = s[k + j]
  BY <1>1
<1>4. r = Append(front \o back, s[k])
  BY DEF Embedding!RemoveAt
<1> HIDE DEF front, back
<1>5. PICK rest : rest = front \o back
  OBVIOUS
<1>6. rest \in Seq(S) /\ Len(rest) = Len(s) - 1
  BY <1>1, <1>2, <1>3, <1>5
<1>7. \A j \in 1..(Len(s) - 1) : rest[j] = IF j < k THEN s[j] ELSE s[j + 1]
  <2> TAKE j \in 1..(Len(s) - 1)
  <2>1. rest[j] = IF j <= k - 1 THEN front[j] ELSE back[j - (k - 1)]
    <3>1. j \in 1..(Len(front) + Len(back)) /\ Len(front) = k - 1
      BY <1>1, <1>2, <1>3
    <3>2. (front \o back)[j] = IF j <= Len(front) THEN front[j] ELSE back[j - Len(front)]
      BY <1>2, <1>3, <3>1, ConcatProperties
    <3> QED
      BY <1>5, <3>1, <3>2
  <2>2. CASE j < k
    BY <1>1, <1>2, <2>1, <2>2
  <2>3. CASE ~(j < k)
    <3>1. j - (k - 1) \in 1..(Len(s) - k) /\ k + (j - (k - 1)) = j + 1
      BY <1>1, <2>3
    <3>2. back[j - (k - 1)] = s[j + 1]
      BY <1>3, <3>1
    <3> QED
      BY <1>1, <2>1, <2>3, <3>2
  <2> QED
    BY <2>2, <2>3
<1>8. r = Append(rest, s[k]) /\ s[k] \in S
  BY <1>1, <1>4, <1>5
<1>9. r \in Seq(S) /\ Len(r) = Len(s)
  BY <1>1, <1>6, <1>8
<1>10. \A j \in 1..Len(s) : r[j] = IF j < Len(s) THEN rest[j] ELSE s[k]
  BY <1>1, <1>6, <1>8
<1> QED
  BY <1>1, <1>7, <1>9, <1>10 DEF Rotated

LEMMA MovedInv ==
    ASSUME CacheTypeInv, EntriesInv, NEW text, Embedding!Cached(text),
           NEW r, r = Append(Embedding!RemoveAt(cache, Embedding!Place(text)), Embedding!Entry(text))
    PROVE  /\ r \in Seq(EntryType) /\ Len(r) = Len(cache)
           /\ VectorsTrue(r) /\ OnePlace(r)
           /\ \E j \in DOMAIN r : r[j].text = text
<1>1. PICK k : k = Embedding!Place(text)
  OBVIOUS
<1>2. k \in 1..Len(cache) /\ cache[k].text = text /\ Len(cache) \in Nat /\ cache \in Seq(EntryType)
  BY <1>1, PlaceHeld DEF CacheTypeInv
<1>3. r = Append(Embedding!RemoveAt(cache, k), cache[k])
  BY <1>1 DEF Embedding!Entry
<1>4. /\ r \in Seq(EntryType) /\ Len(r) = Len(cache)
      /\ Rotated(r, cache, k)
  <2>1. PICK s : s = cache
    OBVIOUS
  <2>2. s \in Seq(EntryType) /\ k \in DOMAIN s /\ r = Append(Embedding!RemoveAt(s, k), s[k])
    BY <1>2, <1>3, <2>1
  <2>3. /\ r \in Seq(EntryType) /\ Len(r) = Len(s)
        /\ Rotated(r, s, k)
    BY <2>2, MovedPlaces
  <2> QED
    BY <2>1, <2>3
<1> DEFINE from(j) == IF j < k THEN j ELSE IF j < Len(cache) THEN j + 1 ELSE k
<1>5. \A j \in 1..Len(cache) : from(j) \in 1..Len(cache) /\ r[j] = cache[from(j)]
  BY <1>2, <1>4 DEF Rotated
<1>6. \A i, j \in 1..Len(cache) : from(i) = from(j) => i = j
  BY <1>2
<1>7. from(Len(cache)) = k /\ Len(cache) \in 1..Len(cache)
  BY <1>2
<1> HIDE DEF from
<1>8. DOMAIN r = 1..Len(cache) /\ DOMAIN cache = 1..Len(cache)
  BY <1>2, <1>4
<1>9. VectorsTrue(r)
  <2> SUFFICES ASSUME NEW j \in 1..Len(cache) PROVE r[j].vector = r[j].text
    BY <1>8 DEF VectorsTrue
  <2>1. r[j] = cache[from(j)] /\ from(j) \in DOMAIN cache
    BY <1>5, <1>8
  <2> QED
    BY <2>1 DEF VectorsTrue, EntriesInv
<1>10. OnePlace(r)
  <2> SUFFICES ASSUME NEW i \in 1..Len(cache), NEW j \in 1..Len(cache), r[i].text = r[j].text
               PROVE  i = j
    BY <1>8 DEF OnePlace
  <2>1. /\ r[i] = cache[from(i)] /\ from(i) \in DOMAIN cache
        /\ r[j] = cache[from(j)] /\ from(j) \in DOMAIN cache
    BY <1>5, <1>8
  <2>2. from(i) = from(j)
    BY <2>1 DEF OnePlace, EntriesInv
  <2> QED
    BY <1>6, <2>2
<1>11. r[Len(cache)].text = text
  BY <1>2, <1>5, <1>7
<1> QED
  BY <1>4, <1>7, <1>8, <1>9, <1>10, <1>11
-----------------------------------------------------------------------------
(* The call of a thread: what comes after a text that was looked up, and
   after one that was stored. *)

LEMMA OnwardInv ==
    ASSUME NEW own \in CallType, Shaped(own), own.at \in DOMAIN own.texts,
           \A i \in DOMAIN own.texts : i <= own.at => Covered(own, i, 1)
    PROVE  /\ Embedding!Onward(own) \in CallType /\ CallInv(Embedding!Onward(own))
           /\ Embedding!Onward(own).pc \in {"look", "done", "ask"}
<1> DEFINE next == Embedding!Onward(own)
<1>0. own.at \in 1..Len(own.texts) /\ Len(own.texts) \in Nat
  BY DEF CallType
<1>1. CASE own.at < Len(own.texts)
  <2>1. next = [own EXCEPT !.at = own.at + 1, !.pc = "look"]
    BY <1>1 DEF Embedding!Onward
  <2>0. PICK at \in Nat : at = own.at + 1
    BY <1>0
  <2>2. next \in CallType /\ next.pc = "look" /\ next.at = own.at + 1
        /\ next.texts = own.texts /\ next.missing = own.missing /\ next.answer = own.answer
    BY <2>0, <2>1 DEF CallType, PcType
  <2>3. Shaped(next)
    BY <2>2 DEF Shaped
  <2>4. next.at \in DOMAIN next.texts
    BY <1>0, <1>1, <2>2
  <2>5. \A i \in DOMAIN next.texts : i < next.at => Covered(next, i, 1)
    BY <1>0, <2>2 DEF Covered, Replied, Owed
  <2> QED
    BY <2>2, <2>3, <2>4, <2>5 DEF CallInv, LookInv, Looking, Trimming
<1>2. CASE ~(own.at < Len(own.texts))
  <2> DEFINE then == IF own.missing = <<>> THEN "done" ELSE "ask"
  <2>1. next = [own EXCEPT !.pc = then] /\ then \in {"done", "ask"}
    BY <1>2 DEF Embedding!Onward
  <2>2. next \in CallType /\ next.pc = then
        /\ next.texts = own.texts /\ next.missing = own.missing /\ next.answer = own.answer
    BY <2>1 DEF CallType, PcType
  <2>3. Shaped(next)
    BY <2>2 DEF Shaped
  <2>4. AllCovered(next, 1)
    BY <1>0, <1>2, <2>2 DEF AllCovered, Covered, Replied, Owed
  <2>5. own.missing = <<>> => AllAnswered(next)
    BY <2>2, <2>4 DEF AllCovered, AllAnswered, Covered, Owed
  <2> QED
    BY <2>1, <2>2, <2>3, <2>4, <2>5 DEF CallInv, Looking, Trimming
<1> QED
  BY <1>1, <1>2

LEMMA StoredInv ==
    ASSUME NEW own \in CallType, Shaped(own), Supplied(own), AllCovered(own, own.at + 1)
    PROVE  /\ Embedding!Stored(own) \in CallType /\ CallInv(Embedding!Stored(own))
           /\ Embedding!Stored(own).pc \in {"fill", "done"}
<1> DEFINE next == Embedding!Stored(own)
<1>0. own.at \in 1..Len(own.missing) /\ Len(own.missing) \in Nat
  BY DEF CallType, Supplied
<1>1. CASE own.at < Len(own.missing)
  <2>1. next = [own EXCEPT !.at = own.at + 1, !.pc = "fill"]
    BY <1>1 DEF Embedding!Stored
  <2>0. PICK at \in Nat : at = own.at + 1
    BY <1>0
  <2>2. next \in CallType /\ next.pc = "fill" /\ next.at = own.at + 1
        /\ next.texts = own.texts /\ next.missing = own.missing /\ next.answer = own.answer
        /\ next.vectors = own.vectors
    BY <2>0, <2>1 DEF CallType, PcType
  <2>3. Shaped(next)
    BY <2>2 DEF Shaped
  <2>4. next.at \in DOMAIN next.missing
    BY <1>0, <1>1, <2>2
  <2>5. Supplied(next)
    BY <2>2, <2>4 DEF Supplied
  <2>6. AllCovered(next, next.at)
    BY <2>2 DEF AllCovered, Covered, Replied, Owed
  <2> QED
    BY <2>2, <2>3, <2>5, <2>6 DEF CallInv, Looking, Trimming
<1>2. CASE ~(own.at < Len(own.missing))
  <2>1. next = [own EXCEPT !.pc = "done"]
    BY <1>2 DEF Embedding!Stored
  <2>2. next \in CallType /\ next.pc = "done"
        /\ next.texts = own.texts /\ next.missing = own.missing /\ next.answer = own.answer
    BY <2>1 DEF CallType, PcType
  <2>3. Shaped(next)
    BY <2>2 DEF Shaped
  <2>4. \A i \in DOMAIN own.texts : ~Owed(own, i, own.at + 1)
    BY <1>0, <1>2 DEF Owed
  <2>5. AllAnswered(next)
    BY <2>2, <2>4 DEF AllCovered, AllAnswered, Covered, Replied
  <2> QED
    BY <2>2, <2>3, <2>5 DEF CallInv, Looking, Trimming
<1> QED
  BY <1>1, <1>2

-----------------------------------------------------------------------------
(* A step of a thread that replaces its call. *)

LEMMA CallSet ==
    ASSUME CacheTypeInv, CallsInv, NEW c \in Threads, NEW new \in CallType, CallInv(new),
           calls' = [calls EXCEPT ![c] = new]
    PROVE  calls' \in [Threads -> CallType] /\ CallsInv'
<1>1. calls' \in [Threads -> CallType]
  BY DEF CacheTypeInv
<1>2. \A d \in Threads : CallInv(calls'[d])
  BY DEF CacheTypeInv, CallsInv
<1> QED
  BY <1>1, <1>2 DEF CallsInv

Trims(stage) == IF stage \in Trimming THEN 1 ELSE 0

LEMMA LateCount ==
    ASSUME IsFiniteSet(Threads), CacheTypeInv, NEW c \in Threads, NEW new \in CallType,
           calls' = [calls EXCEPT ![c] = new]
    PROVE  /\ Cardinality(Late) \in Nat /\ Cardinality(Late') \in Nat
           /\ Cardinality(Late') = Cardinality(Late) + Trims(new.pc) - Trims(calls[c].pc)
<1>1. PICK late : late = Late
  OBVIOUS
<1>2. IsFiniteSet(late) /\ Cardinality(late) \in Nat
  BY <1>1, FS_Subset, FS_CardinalityType DEF Late
<1>3. c \in late <=> calls[c].pc \in Trimming
  BY <1>1 DEF Late
<1>4. Late' = IF new.pc \in Trimming THEN late \union {c} ELSE late \ {c}
  BY <1>1 DEF Late, CacheTypeInv
<1>5. CASE new.pc \in Trimming
  <2>1. Cardinality(late \union {c}) = IF c \in late THEN Cardinality(late) ELSE Cardinality(late) + 1
    BY <1>2, FS_AddElement
  <2> QED
    BY <1>1, <1>2, <1>3, <1>4, <1>5, <2>1 DEF Trims
<1>6. CASE new.pc \notin Trimming
  <2>1. /\ Cardinality(late \ {c}) = IF c \in late THEN Cardinality(late) - 1 ELSE Cardinality(late)
        /\ IsFiniteSet(late \ {c})
    BY <1>2, FS_RemoveElement
  <2>2. Cardinality(late \ {c}) \in Nat
    BY <2>1, FS_CardinalityType
  <2> QED
    BY <1>1, <1>2, <1>3, <1>4, <1>6, <2>1, <2>2 DEF Trims
<1> QED
  BY <1>5, <1>6

LEMMA StillAlone ==
    ASSUME CacheTypeInv, AloneInv, NEW c \in Threads, Embedding!Active(c), NEW new \in CallType,
           calls' = [calls EXCEPT ![c] = new], raced' = raced,
           ~raced => Kept(new)'
    PROVE  AloneInv'
<1> SUFFICES ASSUME ~raced PROVE (\A d, e \in Threads : Embedding!Active(d) /\ Embedding!Active(e) => d = e)'
                                      /\ (\A d \in Threads : Kept(calls[d]))'
  BY DEF AloneInv
<1>1. \A d \in Threads : d # c => calls'[d] = calls[d] /\ ~Embedding!Active(d) /\ calls[d].pc # "failed"
  BY DEF AloneInv, CacheTypeInv, Kept
<1>2. calls'[c] = new
  BY DEF CacheTypeInv
<1>3. (\A d, e \in Threads : Embedding!Active(d) /\ Embedding!Active(e) => d = e)'
  BY <1>1 DEF Embedding!Active
<1>4. ASSUME NEW d \in Threads, d # c PROVE Kept(calls[d])'
  BY <1>1, <1>4 DEF Kept, Embedding!Active
<1>5. Kept(calls[c])'
  BY <1>2 DEF Kept
<1> QED
  BY <1>3, <1>4, <1>5

(* All of a step: the call, the cache, and what it did to its size. *)
LEMMA StepInv ==
    ASSUME IsFiniteSet(Threads), CacheSize \in Nat, CacheIInv, NEW c \in Threads, Embedding!Active(c),
           NEW new \in CallType, CallInv(new),
           calls' = [calls EXCEPT ![c] = new], raced' = raced,
           cache' \in Seq(EntryType), EntriesInv', abandoned' \in Nat,
           \/ Len(cache') <= CacheSize
           \/ Len(cache') + Trims(calls[c].pc) + abandoned
                <= Len(cache) + Trims(new.pc) + abandoned',
           ~raced => Kept(new)'
    PROVE  CacheIInv'
<1>1. CacheTypeInv' /\ CallsInv'
  BY CallSet DEF CacheIInv, CacheTypeInv
<1>2. PICK before, after : before = Cardinality(Late) /\ after = Cardinality(Late')
  OBVIOUS
<1>3. before \in Nat /\ after \in Nat /\ after = before + Trims(new.pc) - Trims(calls[c].pc)
  BY <1>2, LateCount DEF CacheIInv
<1>4. Len(cache') <= CacheSize + after + abandoned'
  <2>1. Len(cache) <= CacheSize + before + abandoned
    BY <1>2 DEF CacheIInv, SizeInv
  <2>2. Len(cache) \in Nat /\ Len(cache') \in Nat /\ abandoned \in Nat
    BY DEF CacheIInv, CacheTypeInv
  <2>3. Trims(new.pc) \in Nat /\ Trims(calls[c].pc) \in Nat
    BY DEF Trims
  <2>4. CASE Len(cache') <= CacheSize
    BY <1>3, <2>2, <2>4
  <2>5. CASE Len(cache') + Trims(calls[c].pc) + abandoned <= Len(cache) + Trims(new.pc) + abandoned'
    <3>1. PICK was, will, old, now, gone, went :
             /\ was = Len(cache) /\ will = Len(cache') /\ old = Trims(calls[c].pc)
             /\ now = Trims(new.pc) /\ gone = abandoned /\ went = abandoned'
      OBVIOUS
    <3>2. will <= CacheSize + after + went
      <4>1. was \in Nat /\ will \in Nat /\ old \in Nat /\ now \in Nat /\ gone \in Nat /\ went \in Nat
        BY <2>2, <2>3, <3>1
      <4>2. after = before + now - old /\ before \in Nat /\ after \in Nat
        BY <1>3, <3>1
      <4>3. was <= CacheSize + before + gone
        BY <2>1, <3>1
      <4>4. will + old + gone <= was + now + went
        BY <2>5, <3>1
      <4> QED
        BY <4>1, <4>2, <4>3, <4>4
    <3> QED
      BY <3>1, <3>2
  <2> QED
    BY <2>4, <2>5
<1>5. SizeInv'
  BY <1>2, <1>4 DEF SizeInv
<1>6. AloneInv'
  BY StillAlone DEF CacheIInv
<1> QED
  BY <1>1, <1>5, <1>6 DEF CacheIInv
(* A step that only reads the cache. *)
LEMMA ReadingStep ==
    ASSUME IsFiniteSet(Threads), CacheSize \in Nat, CacheIInv, NEW c \in Threads, Embedding!Active(c),
           NEW new \in CallType, CallInv(new),
           calls' = [calls EXCEPT ![c] = new], UNCHANGED << cache, raced, abandoned >>,
           Len(cache) <= CacheSize \/ Trims(calls[c].pc) <= Trims(new.pc),
           ~raced => Kept(new)
    PROVE  CacheIInv'
<1>1. cache' \in Seq(EntryType) /\ abandoned' \in Nat /\ Len(cache) \in Nat /\ abandoned \in Nat
  BY DEF CacheIInv, CacheTypeInv
<1>2. EntriesInv'
  BY DEF CacheIInv, EntriesInv
<1>3. \/ Len(cache') <= CacheSize
      \/ Len(cache') + Trims(calls[c].pc) + abandoned
           <= Len(cache) + Trims(new.pc) + abandoned'
  <2>1. Trims(calls[c].pc) \in Nat /\ Trims(new.pc) \in Nat
    BY DEF Trims
  <2> QED
    BY <1>1, <2>1
<1>4. ~raced => Kept(new)'
  BY DEF Kept, Embedding!Cached
<1> QED
  BY <1>1, <1>2, <1>3, <1>4, StepInv

(* The call of a thread, while it is active. *)
LEMMA CallNow ==
    ASSUME CacheIInv, NEW c \in Threads
    PROVE  /\ calls[c] \in CallType /\ CallInv(calls[c])
           /\ ~raced => Kept(calls[c])
  BY DEF CacheIInv, CacheTypeInv, CallsInv, AloneInv

(* A call that fails or is refused owes nothing. *)
LEMMA EndedInv ==
    ASSUME NEW own \in CallType, CallInv(own), NEW stage \in {"refused", "failed", "read", "trim"},
           own.pc = "touch" \/ stage # "read", own.pc = "order" \/ stage # "trim",
           NEW new, new = [own EXCEPT !.pc = stage]
    PROVE  new \in CallType /\ CallInv(new) /\ new.pc = stage
           /\ new.texts = own.texts /\ new.at = own.at
<1>1. /\ new \in CallType /\ new.pc = stage /\ new.at = own.at /\ new.texts = own.texts
      /\ new.missing = own.missing /\ new.answer = own.answer /\ new.vectors = own.vectors
  BY DEF CallType, PcType
<1>2. Shaped(new)
  BY <1>1 DEF CallInv, Shaped
<1>3. ASSUME stage = "read" PROVE LookInv(new)
  BY <1>1, <1>3 DEF CallInv, LookInv, Looking, Covered, Replied, Owed
<1>4. ASSUME stage = "trim" PROVE Supplied(new) /\ AllCovered(new, new.at + 1)
  BY <1>1, <1>4 DEF CallInv, Trimming, Supplied, AllCovered, Covered, Replied, Owed
<1> QED
  BY <1>1, <1>2, <1>3, <1>4 DEF CallInv, Looking, Trimming

LEMMA LookStep ==
    ASSUME IsFiniteSet(Threads), CacheSize \in Nat, CacheIInv, NEW c \in Threads, Embedding!Look(c)
    PROVE  CacheIInv'
<1>1. PICK own : own = calls[c]
  OBVIOUS
<1>2. own \in CallType /\ CallInv(own) /\ own.pc = "look"
  BY <1>1, CallNow DEF Embedding!Look
<1>3. LookInv(own) /\ Shaped(own)
  BY <1>2 DEF CallInv, Looking
<1>4. Embedding!Active(c) /\ UNCHANGED << cache, raced, abandoned >> /\ Trims(calls[c].pc) = 0
  BY <1>1, <1>2 DEF Embedding!Active, Embedding!Look, Trims, Trimming
<1>5. CASE Embedding!Cached(own.texts[own.at])
  <2>1. PICK new : new = [own EXCEPT !.pc = "touch"]
    OBVIOUS
  <2>2. calls' = [calls EXCEPT ![c] = new]
    BY <1>1, <1>5, <2>1 DEF Embedding!Look
  <2>3. /\ new \in CallType /\ new.pc = "touch" /\ new.at = own.at /\ new.texts = own.texts
        /\ new.missing = own.missing /\ new.answer = own.answer
    BY <1>2, <2>1 DEF CallType, PcType
  <2>4. CallInv(new)
    <3>1. Shaped(new)
      BY <1>3, <2>3 DEF Shaped
    <3>2. LookInv(new)
      BY <1>3, <2>3 DEF LookInv, Covered, Replied, Owed
    <3> QED
      BY <2>3, <3>1, <3>2 DEF CallInv, Looking, Trimming
  <2>5. Kept(new)
    BY <1>5, <2>3 DEF Kept
  <2>6. Trims(calls[c].pc) <= Trims(new.pc)
    BY <1>4, <2>3 DEF Trims
  <2> QED
    BY <1>4, <2>2, <2>3, <2>4, <2>5, <2>6, ReadingStep
<1>6. CASE ~Embedding!Cached(own.texts[own.at])
  <2>1. PICK noted : noted = [own EXCEPT !.missing = Append(own.missing, own.at)]
    OBVIOUS
  <2>2. PICK new : new = Embedding!Onward(noted)
    OBVIOUS
  <2>3. calls' = [calls EXCEPT ![c] = new]
    <3>1. calls' = [calls EXCEPT ![c] =
              Embedding!Onward([calls[c] EXCEPT !.missing = Append(calls[c].missing, calls[c].at)])]
      <4>1. ~Embedding!Cached(calls[c].texts[calls[c].at])
        BY <1>1, <1>6
      <4> QED
        BY <4>1 DEF Embedding!Look
    <3> QED
      BY <1>1, <2>1, <2>2, <3>1
  <2>4. /\ noted \in CallType /\ noted.at = own.at /\ noted.texts = own.texts
        /\ noted.missing = Append(own.missing, own.at) /\ noted.answer = own.answer
    <3>1. PICK missing \in Seq(Nat) : missing = Append(own.missing, own.at)
      <4>1. own.missing \in Seq(Nat) /\ own.at \in Nat
        BY <1>2 DEF CallType
      <4>2. Append(own.missing, own.at) \in Seq(Nat)
        BY <4>1
      <4> QED
        BY <4>2
    <3> QED
      BY <1>2, <2>1, <3>1 DEF CallType
  <2>5. own.missing \in Seq(Nat) /\ own.at \in Nat /\ own.at \in DOMAIN own.texts
        /\ own.texts \in Seq(Texts)
    BY <1>2, <1>3 DEF CallType, LookInv
  <2>6. /\ DOMAIN noted.missing = 1..(Len(own.missing) + 1)
        /\ DOMAIN own.missing = 1..Len(own.missing) /\ Len(own.missing) \in Nat
        /\ \A j \in 1..Len(own.missing) : noted.missing[j] = own.missing[j]
        /\ noted.missing[Len(own.missing) + 1] = own.at
    BY <2>4, <2>5
  <2>7. Shaped(noted)
    BY <1>3, <2>4, <2>5, <2>6 DEF Shaped
  <2>8. \A i \in DOMAIN own.texts : i < own.at => Covered(noted, i, 1)
    BY <1>3, <2>4, <2>6 DEF LookInv, Covered, Replied, Owed
  <2>9. Covered(noted, own.at, 1)
    BY <2>6 DEF Covered, Owed
  <2>10. \A i \in DOMAIN noted.texts : i <= noted.at => Covered(noted, i, 1)
    BY <2>4, <2>5, <2>8, <2>9
  <2>11. new \in CallType /\ CallInv(new) /\ new.pc \in {"look", "done", "ask"}
    BY <2>2, <2>4, <2>5, <2>7, <2>10, OnwardInv
  <2>12. Kept(new)
    BY <2>11 DEF Kept
  <2>13. Trims(calls[c].pc) <= Trims(new.pc)
    BY <1>4, <2>11 DEF Trims
  <2> QED
    BY <1>4, <2>3, <2>11, <2>12, <2>13, ReadingStep
<1> QED
  BY <1>5, <1>6
(* An entry that is there moves to the end, and the thread goes on. *)
LEMMA MovingStep ==
    ASSUME IsFiniteSet(Threads), CacheSize \in Nat, CacheIInv, NEW c \in Threads, Embedding!Active(c),
           NEW stage \in {"read", "trim"},
           calls[c].pc = IF stage = "read" THEN "touch" ELSE "order",
           NEW text, Embedding!Cached(text), stage = "read" => text = calls[c].texts[calls[c].at],
           cache' = Append(Embedding!RemoveAt(cache, Embedding!Place(text)), Embedding!Entry(text)), Embedding!Goto(c, stage),
           UNCHANGED << raced, abandoned >>
    PROVE  CacheIInv'
<1>1. PICK own, new, entries :
         own = calls[c] /\ new = [own EXCEPT !.pc = stage] /\ entries = cache'
  OBVIOUS
<1>2. own \in CallType /\ CallInv(own)
  BY <1>1, CallNow
<1>3. /\ new \in CallType /\ CallInv(new) /\ new.pc = stage
      /\ new.texts = own.texts /\ new.at = own.at
  BY <1>1, <1>2, EndedInv
<1>4. calls' = [calls EXCEPT ![c] = new]
  BY <1>1 DEF Embedding!Goto
<1>5. /\ entries \in Seq(EntryType) /\ Len(entries) = Len(cache)
      /\ VectorsTrue(entries) /\ OnePlace(entries)
      /\ \E j \in DOMAIN entries : entries[j].text = text
  <2>1. entries = Append(Embedding!RemoveAt(cache, Embedding!Place(text)), Embedding!Entry(text))
    BY <1>1
  <2> QED
    BY <2>1, MovedInv DEF CacheIInv
<1>6. cache' \in Seq(EntryType) /\ Len(cache') = Len(cache) /\ EntriesInv'
  BY <1>1, <1>5 DEF EntriesInv
<1>7. Kept(new)'
  <2>1. Embedding!Cached(text)'
    BY <1>1, <1>5 DEF Embedding!Cached
  <2> QED
    BY <1>1, <1>3, <2>1 DEF Kept
<1>8. abandoned' \in Nat /\ abandoned' = abandoned /\ Len(cache) \in Nat
  BY DEF CacheIInv, CacheTypeInv
<1>9. Trims(calls[c].pc) = Trims(new.pc) /\ Trims(new.pc) \in Nat
  BY <1>3 DEF Trims, Trimming
<1>10. Len(cache') + Trims(calls[c].pc) + abandoned <= Len(cache) + Trims(new.pc) + abandoned'
  BY <1>6, <1>8, <1>9
<1> QED
  BY <1>3, <1>4, <1>6, <1>7, <1>8, <1>10, StepInv

LEMMA TouchStep ==
    ASSUME IsFiniteSet(Threads), CacheSize \in Nat, CacheIInv, NEW c \in Threads, Embedding!Touch(c)
    PROVE  CacheIInv'
<1>1. PICK own, text : own = calls[c] /\ text = own.texts[own.at]
  OBVIOUS
<1>2. calls[c].pc = "touch" /\ Embedding!Active(c) /\ UNCHANGED << raced, abandoned >>
  BY DEF Embedding!Touch, Embedding!Active
<1>3. CASE Embedding!Cached(text)
  <2>1. cache' = Append(Embedding!RemoveAt(cache, Embedding!Place(text)), Embedding!Entry(text)) /\ Embedding!Goto(c, "read")
    BY <1>1, <1>3 DEF Embedding!Touch, Embedding!MoveToEnd
  <2> QED
    BY <1>1, <1>2, <1>3, <2>1, MovingStep
<1>4. CASE ~Embedding!Cached(text)
  <2>1. UNCHANGED cache /\ Embedding!Goto(c, "failed")
    BY <1>1, <1>4 DEF Embedding!Touch, Embedding!MoveToEnd
  <2>2. raced
    BY <1>1, <1>2, <1>4, CallNow DEF Kept, CacheIInv, CacheTypeInv
  <2>3. PICK new : new = [own EXCEPT !.pc = "failed"]
    OBVIOUS
  <2>4. new \in CallType /\ CallInv(new) /\ new.pc = "failed" /\ calls' = [calls EXCEPT ![c] = new]
    BY <1>1, <1>2, <2>1, <2>3, CallNow, EndedInv DEF Embedding!Goto
  <2>5. Trims(calls[c].pc) <= Trims(new.pc)
    BY <1>2, <2>4 DEF Trims, Trimming
  <2> QED
    BY <1>2, <2>1, <2>2, <2>4, <2>5, ReadingStep
<1> QED
  BY <1>3, <1>4

LEMMA OrderStep ==
    ASSUME IsFiniteSet(Threads), CacheSize \in Nat, CacheIInv, NEW c \in Threads, Embedding!Order(c)
    PROVE  CacheIInv'
<1>1. PICK own, text : own = calls[c] /\ text = own.texts[own.missing[own.at]]
  OBVIOUS
<1>2. calls[c].pc = "order" /\ Embedding!Active(c) /\ UNCHANGED raced
  BY DEF Embedding!Order, Embedding!Active
<1>3. CASE Embedding!Cached(text)
  <2>1. cache' = Append(Embedding!RemoveAt(cache, Embedding!Place(text)), Embedding!Entry(text)) /\ Embedding!Goto(c, "trim")
        /\ UNCHANGED abandoned
    BY <1>1, <1>3 DEF Embedding!Order, Embedding!MoveToEnd
  <2> QED
    BY <1>1, <1>2, <1>3, <2>1, MovingStep
<1>4. CASE ~Embedding!Cached(text)
  <2>1. UNCHANGED cache /\ Embedding!Goto(c, "failed") /\ abandoned' = abandoned + 1
    BY <1>1, <1>4 DEF Embedding!Order, Embedding!MoveToEnd
  <2>2. raced
    BY <1>1, <1>2, <1>4, CallNow DEF Kept, CacheIInv, CacheTypeInv
  <2>3. PICK new : new = [own EXCEPT !.pc = "failed"]
    OBVIOUS
  <2>4. new \in CallType /\ CallInv(new) /\ new.pc = "failed" /\ calls' = [calls EXCEPT ![c] = new]
    BY <1>1, <1>2, <2>1, <2>3, CallNow, EndedInv DEF Embedding!Goto
  <2>5. Trims(calls[c].pc) = 1 /\ Trims(new.pc) = 0
    BY <1>2, <2>4 DEF Trims, Trimming
  <2>6. /\ cache' \in Seq(EntryType) /\ Len(cache') = Len(cache) /\ Len(cache) \in Nat
        /\ abandoned \in Nat /\ abandoned' \in Nat
    BY <2>1 DEF CacheIInv, CacheTypeInv
  <2>7. EntriesInv'
    BY <2>1 DEF CacheIInv, EntriesInv
  <2>8. Len(cache') + Trims(calls[c].pc) + abandoned <= Len(cache) + Trims(new.pc) + abandoned'
    BY <2>1, <2>5, <2>6
  <2> QED
    BY <1>2, <2>2, <2>4, <2>6, <2>7, <2>8, StepInv
<1> QED
  BY <1>3, <1>4

LEMMA ReadStep ==
    ASSUME IsFiniteSet(Threads), CacheSize \in Nat, CacheIInv, NEW c \in Threads, Embedding!Read(c)
    PROVE  CacheIInv'
<1>1. PICK own, text : own = calls[c] /\ text = own.texts[own.at]
  OBVIOUS
<1>2. /\ calls[c].pc = "read" /\ Embedding!Active(c) /\ UNCHANGED << cache, raced, abandoned >>
      /\ Trims(calls[c].pc) = 0
  BY DEF Embedding!Read, Embedding!Active, Trims, Trimming
<1>3. own \in CallType /\ CallInv(own) /\ own.pc = "read"
  BY <1>1, <1>2, CallNow
<1>4. LookInv(own) /\ Shaped(own)
  BY <1>3 DEF CallInv, Looking
<1>5. CASE Embedding!Cached(text)
  <2>1. PICK vector : vector = Embedding!Entry(text).vector
    OBVIOUS
  <2>2. vector = text
    BY <1>5, <2>1, PlaceHeld DEF Embedding!Entry, CacheIInv, EntriesInv, VectorsTrue
  <2>3. PICK noted : noted = [own EXCEPT !.answer[own.at] = << vector >>]
    OBVIOUS
  <2>4. PICK new : new = Embedding!Onward(noted)
    OBVIOUS
  <2>5. calls' = [calls EXCEPT ![c] = new]
    BY <1>1, <1>5, <2>1, <2>3, <2>4 DEF Embedding!Read
  <2>6. /\ own.texts \in Seq(Texts) /\ own.answer \in Seq(Seq(Texts))
        /\ own.at \in DOMAIN own.texts /\ DOMAIN own.answer = DOMAIN own.texts
    BY <1>3, <1>4 DEF CallType, LookInv, Shaped
  <2>7. text \in Texts /\ << vector >> \in Seq(Texts)
    BY <1>1, <2>2, <2>6
  <2>8. PICK answer \in Seq(Seq(Texts)) : answer = [own.answer EXCEPT ![own.at] = << vector >>]
    <3>1. own.answer \in Seq(Seq(Texts)) /\ own.at \in 1..Len(own.answer)
      BY <2>6
    <3>2. [own.answer EXCEPT ![own.at] = << vector >>] \in Seq(Seq(Texts))
      BY <2>7, <3>1, ExceptSeq
    <3> QED
      BY <3>2
  <2>9. /\ noted \in CallType /\ noted.at = own.at /\ noted.texts = own.texts
        /\ noted.missing = own.missing /\ noted.answer = answer
    BY <1>3, <2>3, <2>8 DEF CallType
  <2>10. Shaped(noted)
    BY <1>4, <2>6, <2>8, <2>9 DEF Shaped
  <2>11. \A i \in DOMAIN own.texts : answer[i] = IF i = own.at THEN << text >> ELSE own.answer[i]
    BY <2>2, <2>6, <2>8
  <2>12. \A i \in DOMAIN own.texts : i < own.at => Covered(noted, i, 1)
    <3> SUFFICES ASSUME NEW i \in DOMAIN own.texts, i < own.at PROVE Covered(noted, i, 1)
      OBVIOUS
    <3>1. noted.answer[i] = own.answer[i]
      BY <2>6, <2>9, <2>11
    <3>2. Covered(own, i, 1)
      BY <1>4 DEF LookInv
    <3> QED
      BY <2>9, <3>1, <3>2 DEF Covered, Replied, Owed
  <2>13. Covered(noted, own.at, 1)
    BY <1>1, <2>6, <2>9, <2>11 DEF Covered, Replied
  <2>14. \A i \in DOMAIN noted.texts : i <= noted.at => Covered(noted, i, 1)
    BY <2>6, <2>9, <2>12, <2>13
  <2>15. new \in CallType /\ CallInv(new) /\ new.pc \in {"look", "done", "ask"}
    BY <2>4, <2>6, <2>9, <2>10, <2>14, OnwardInv
  <2>16. Kept(new)
    BY <2>15 DEF Kept
  <2>17. Trims(calls[c].pc) <= Trims(new.pc)
    BY <1>2, <2>15 DEF Trims
  <2> QED
    BY <1>2, <2>5, <2>15, <2>16, <2>17, ReadingStep
<1>6. CASE ~Embedding!Cached(text)
  <2>1. raced
    BY <1>1, <1>2, <1>6, CallNow DEF Kept, CacheIInv, CacheTypeInv
  <2>2. PICK new : new = [own EXCEPT !.pc = "failed"]
    OBVIOUS
  <2>3. new \in CallType /\ CallInv(new) /\ new.pc = "failed"
    BY <1>3, <2>2, EndedInv
  <2>4. calls' = [calls EXCEPT ![c] = new]
    BY <1>1, <1>6, <2>2 DEF Embedding!Read
  <2>5. Trims(calls[c].pc) <= Trims(new.pc)
    BY <1>2, <2>3 DEF Trims
  <2> QED
    BY <1>2, <2>1, <2>3, <2>4, <2>5, ReadingStep
<1> QED
  BY <1>5, <1>6
(* Whatever the order of the answers, each goes to the text it is for. *)
LEMMA InOrderRight ==
    ASSUME NEW S, NEW asked \in Seq(S), NEW data \in Embedding!Responses(asked)
    PROVE  /\ Embedding!InOrder(data) \in Seq(S) /\ Len(Embedding!InOrder(data)) = Len(asked)
           /\ \A j \in DOMAIN asked : Embedding!InOrder(data)[j] = asked[j]
<1> DEFINE D == 1..Len(asked)
<1>1. Len(asked) \in Nat /\ DOMAIN asked = D
  OBVIOUS
<1> HIDE DEF D
<1>2. PICK p \in [D -> D] :
         /\ Embedding!IsInjective(p)
         /\ data = [k \in D |-> [index |-> p[k], embedding |-> asked[p[k]]]]
  BY <1>1 DEF Embedding!Responses
<1>3. p \in Surjection(D, D)
  <2>1. IsFiniteSet(D)
    BY <1>1, FS_Interval DEF D
  <2>2. p \in Injection(D, D)
    BY <1>2 DEF Injection, IsInjective, Embedding!IsInjective
  <2> QED
    BY <2>1, <2>2, FS_Injection
<1>4. \A j \in D : \E k \in D : p[k] = j
  BY <1>3 DEF Surjection
<1>5. ASSUME NEW j \in D PROVE Embedding!InOrder(data)[j] = asked[j]
  <2> DEFINE item == CHOOSE x \in Embedding!ToSet(data) : x.index = j
  <2>1. PICK k \in D : p[k] = j
    BY <1>4
  <2>2. data[k] \in Embedding!ToSet(data) /\ data[k].index = j
    BY <1>2, <2>1 DEF Embedding!ToSet
  <2>3. item \in Embedding!ToSet(data) /\ item.index = j
    BY <2>2
  <2>4. PICK x : x = item
    OBVIOUS
  <2>5. PICK i \in D : x = data[i]
    BY <1>2, <2>3, <2>4 DEF Embedding!ToSet
  <2>6. x.embedding = asked[j]
    <3>1. x = [index |-> p[i], embedding |-> asked[p[i]]]
      BY <1>2, <2>5
    <3>2. x.index = j
      BY <2>3, <2>4
    <3>3. p[i] = j
      BY <3>1, <3>2
    <3> QED
      BY <3>1, <3>3
  <2>7. Embedding!InOrder(data)[j] = item.embedding
    BY <1>2 DEF Embedding!InOrder
  <2> QED
    BY <2>4, <2>6, <2>7
<1>6. Embedding!InOrder(data) = [j \in D |-> asked[j]]
  <2>1. Embedding!InOrder(data) = [j \in D |-> Embedding!InOrder(data)[j]]
    BY <1>2 DEF Embedding!InOrder
  <2> QED
    BY <1>5, <2>1
<1>7. Embedding!InOrder(data) = asked
  BY <1>1, <1>6
<1> QED
  BY <1>7

LEMMA AskStep ==
    ASSUME IsFiniteSet(Threads), CacheSize \in Nat, CacheIInv, NEW c \in Threads, Embedding!Ask(c)
    PROVE  CacheIInv'
<1>1. PICK own : own = calls[c]
  OBVIOUS
<1>2. /\ calls[c].pc = "ask" /\ Embedding!Active(c) /\ UNCHANGED << cache, raced, abandoned >>
      /\ Trims(calls[c].pc) = 0
  BY DEF Embedding!Ask, Embedding!Active, Trims, Trimming
<1>3. own \in CallType /\ CallInv(own) /\ own.pc = "ask"
  BY <1>1, <1>2, CallNow
<1>4. Shaped(own) /\ own.missing # <<>> /\ AllCovered(own, 1)
  BY <1>3 DEF CallInv
<1>5. PICK asked : asked = [j \in DOMAIN own.missing |-> own.texts[own.missing[j]]]
  OBVIOUS
<1>6. own.missing \in Seq(Nat) /\ own.texts \in Seq(Texts)
  BY <1>3 DEF CallType
<1>7. asked \in Seq(Texts) /\ Len(asked) = Len(own.missing) /\ DOMAIN asked = DOMAIN own.missing
  <2>1. \A j \in 1..Len(own.missing) : own.texts[own.missing[j]] \in Texts
    BY <1>4, <1>6 DEF Shaped
  <2>2. DOMAIN own.missing = 1..Len(own.missing) /\ Len(own.missing) \in Nat
    BY <1>6
  <2> QED
    BY <1>5, <2>1, <2>2
<1>8. ASSUME NEW data \in Embedding!Responses(asked),
             calls' = [calls EXCEPT ![c].pc = "fill", ![c].at = 1, ![c].vectors = Embedding!InOrder(data)]
      PROVE  CacheIInv'
  <2>1. PICK vectors : vectors = Embedding!InOrder(data)
    OBVIOUS
  <2>2. /\ vectors \in Seq(Texts) /\ Len(vectors) = Len(own.missing)
        /\ \A j \in DOMAIN own.missing : vectors[j] = own.texts[own.missing[j]]
    BY <1>5, <1>7, <2>1, InOrderRight
  <2>3. PICK new : new = [own EXCEPT !.pc = "fill", !.at = 1, !.vectors = vectors]
    OBVIOUS
  <2>4. calls' = [calls EXCEPT ![c] = new]
    BY <1>1, <1>8, <2>1, <2>3 DEF CacheIInv, CacheTypeInv, CallType
  <2>5. /\ new \in CallType /\ new.pc = "fill" /\ new.at = 1 /\ new.vectors = vectors
        /\ new.texts = own.texts /\ new.missing = own.missing /\ new.answer = own.answer
    BY <1>3, <2>2, <2>3 DEF CallType, PcType
  <2>6. Shaped(new)
    BY <1>4, <2>5 DEF Shaped
  <2>7. Supplied(new)
    <3>1. 1 \in DOMAIN own.missing
      BY <1>4, <1>6
    <3> QED
      BY <2>2, <2>5, <3>1 DEF Supplied
  <2>8. AllCovered(new, new.at)
    BY <1>4, <2>5 DEF AllCovered, Covered, Replied, Owed
  <2>9. CallInv(new)
    BY <2>5, <2>6, <2>7, <2>8 DEF CallInv, Looking, Trimming
  <2>10. Kept(new) /\ Trims(calls[c].pc) <= Trims(new.pc)
    BY <1>2, <2>5 DEF Kept, Trims
  <2> QED
    BY <1>2, <2>4, <2>5, <2>9, <2>10, ReadingStep
<1>9. ASSUME Embedding!Goto(c, "refused") PROVE CacheIInv'
  <2>1. PICK new : new = [own EXCEPT !.pc = "refused"]
    OBVIOUS
  <2>2. calls' = [calls EXCEPT ![c] = new]
    BY <1>1, <1>9, <2>1 DEF Embedding!Goto
  <2>3. new \in CallType /\ CallInv(new) /\ new.pc = "refused"
    BY <1>3, <2>1, EndedInv
  <2>4. Kept(new) /\ Trims(calls[c].pc) <= Trims(new.pc)
    BY <1>2, <2>3 DEF Kept, Trims
  <2> QED
    BY <1>2, <2>2, <2>3, <2>4, ReadingStep
<1> QED
  BY <1>1, <1>5, <1>8, <1>9 DEF Embedding!Ask
-----------------------------------------------------------------------------
(* Storing an answer. *)

(* The call, when the vector of the current missing text is in the answer. *)
LEMMA AnsweredInv ==
    ASSUME NEW own \in CallType, Shaped(own), Supplied(own), AllCovered(own, own.at),
           NEW next, next = [own EXCEPT !.answer[own.missing[own.at]] = << own.vectors[own.at] >>]
    PROVE  /\ next \in CallType /\ Shaped(next) /\ Supplied(next)
           /\ AllCovered(next, next.at + 1)
           /\ next.pc = own.pc /\ next.at = own.at /\ next.texts = own.texts
           /\ next.missing = own.missing
<1>1. PICK place, vector : place = own.missing[own.at] /\ vector = own.vectors[own.at]
  OBVIOUS
<1>2. /\ own.texts \in Seq(Texts) /\ own.answer \in Seq(Seq(Texts)) /\ own.vectors \in Seq(Texts)
      /\ own.missing \in Seq(Nat) /\ own.at \in DOMAIN own.missing /\ own.at \in Nat
      /\ Len(own.answer) = Len(own.texts)
  BY DEF CallType, Shaped, Supplied
<1>0. /\ DOMAIN own.texts = 1..Len(own.texts) /\ DOMAIN own.answer = 1..Len(own.answer)
      /\ DOMAIN own.missing \subseteq Nat
  BY <1>2
<1>3. place \in DOMAIN own.texts /\ vector = own.texts[place] /\ vector \in Texts
  <2>1. place \in DOMAIN own.texts
    BY <1>1, <1>2 DEF Shaped
  <2>2. vector = own.texts[place]
    BY <1>1, <1>2 DEF Supplied
  <2>3. own.texts[place] \in Texts
    BY <1>2, <2>1
  <2> QED
    BY <2>1, <2>2, <2>3
<1>4. PICK answer \in Seq(Seq(Texts)) : answer = [own.answer EXCEPT ![place] = << vector >>]
  <2>1. << vector >> \in Seq(Texts)
    BY <1>3
  <2>2. own.answer \in Seq(Seq(Texts)) /\ place \in 1..Len(own.answer)
    BY <1>0, <1>2, <1>3
  <2>3. [own.answer EXCEPT ![place] = << vector >>] \in Seq(Seq(Texts))
    BY <2>1, <2>2, ExceptSeq
  <2> QED
    BY <2>3
<1>5. next = [own EXCEPT !.answer = answer]
  BY <1>1, <1>4 DEF CallType
<1>6. /\ next \in CallType /\ next.pc = own.pc /\ next.at = own.at /\ next.texts = own.texts
      /\ next.missing = own.missing /\ next.vectors = own.vectors /\ next.answer = answer
  BY <1>4, <1>5 DEF CallType
<1>7. Shaped(next)
  <2>1. Len(answer) = Len(own.answer)
    BY <1>2, <1>4
  <2>2. \A j \in DOMAIN own.missing : own.missing[j] \in DOMAIN own.texts
    BY DEF Shaped
  <2> QED
    BY <1>2, <1>6, <2>1, <2>2 DEF Shaped
<1>8. Supplied(next)
  BY <1>6 DEF Supplied
<1>9. \A i \in DOMAIN own.texts : answer[i] = IF i = place THEN << vector >> ELSE own.answer[i]
  BY <1>0, <1>2, <1>3, <1>4
<1>10. ASSUME NEW i \in DOMAIN own.texts PROVE Covered(next, i, own.at + 1)
  <2>1. CASE i = place
    BY <1>3, <1>6, <1>9, <2>1 DEF Covered, Replied
  <2>2. CASE i # place /\ Replied(own, i)
    BY <1>6, <1>9, <2>2 DEF Covered, Replied
  <2>3. CASE i # place /\ Owed(own, i, own.at)
    <3>1. PICK j \in DOMAIN own.missing : own.at <= j /\ own.missing[j] = i
      BY <2>3 DEF Owed
    <3>2. j # own.at
      BY <1>1, <2>3, <3>1
    <3>3. own.at + 1 <= j
      <4>1. j \in Nat /\ own.at \in Nat
        BY <1>0, <1>2
      <4> QED
        BY <3>1, <3>2, <4>1
    <3> QED
      BY <1>6, <3>1, <3>3 DEF Covered, Owed
  <2> QED
    BY <2>1, <2>2, <2>3 DEF AllCovered, Covered
<1>11. AllCovered(next, next.at + 1)
  BY <1>6, <1>10 DEF AllCovered
<1> QED
  BY <1>6, <1>7, <1>8, <1>11

(* The cache, when an entry is appended or overwritten. *)
LEMMA AppendedInv ==
    ASSUME CacheTypeInv, EntriesInv, NEW text \in Texts, ~Embedding!Cached(text),
           NEW entry, entry = [text |-> text, vector |-> text],
           NEW r, r = Append(cache, entry)
    PROVE  /\ r \in Seq(EntryType) /\ Len(r) = Len(cache) + 1
           /\ VectorsTrue(r) /\ OnePlace(r)
           /\ \E j \in DOMAIN r : r[j].text = text
<1>1. entry \in EntryType /\ entry.text = text /\ entry.vector = text
  BY DEF EntryType
<1>2. PICK s \in Seq(EntryType) : s = cache
  BY DEF CacheTypeInv
<1>3. Len(s) \in Nat /\ DOMAIN s = 1..Len(s) /\ r = Append(s, entry)
  BY <1>2
<1>4. /\ r \in Seq(EntryType) /\ Len(r) = Len(s) + 1 /\ DOMAIN r = 1..(Len(s) + 1)
      /\ \A j \in 1..Len(s) : r[j] = s[j]
      /\ r[Len(s) + 1] = entry
  <2>1. entry \in EntryType /\ s \in Seq(EntryType) /\ r = Append(s, entry)
    BY <1>1, <1>3
  <2>2. r \in Seq(EntryType) /\ Len(r) = Len(s) + 1
    <3>1. Append(s, entry) \in Seq(EntryType)
      BY <2>1, AppendProperties
    <3>2. Len(Append(s, entry)) = Len(s) + 1
      BY <2>1, AppendProperties
    <3> QED
      BY <2>1, <3>1, <3>2
  <2>3. (\A j \in 1..Len(s) : r[j] = s[j]) /\ r[Len(s) + 1] = entry
    BY <2>1, AppendProperties
  <2>4. DOMAIN r = 1..(Len(s) + 1)
    BY <1>3, <2>2
  <2> QED
    BY <2>2, <2>3, <2>4
<1>5. \A j \in DOMAIN s : s[j].text # text /\ s[j].vector = s[j].text
  BY <1>2 DEF Embedding!Cached, EntriesInv, VectorsTrue
<1>6. \A j, k \in DOMAIN s : s[j].text = s[k].text => j = k
  BY <1>2 DEF EntriesInv, OnePlace
<1>7. \A j \in DOMAIN r : j \in DOMAIN s \/ j = Len(s) + 1
  BY <1>3, <1>4
<1>8. VectorsTrue(r)
  BY <1>1, <1>3, <1>4, <1>5, <1>7 DEF VectorsTrue
<1>9. OnePlace(r)
  <2> SUFFICES ASSUME NEW j \in DOMAIN r, NEW k \in DOMAIN r, r[j].text = r[k].text PROVE j = k
    BY DEF OnePlace
  <2>1. CASE j \in DOMAIN s /\ k \in DOMAIN s
    BY <1>3, <1>4, <1>6, <2>1
  <2>2. CASE j \in DOMAIN s /\ k = Len(s) + 1
    BY <1>1, <1>3, <1>4, <1>5, <2>2
  <2>3. CASE j = Len(s) + 1 /\ k \in DOMAIN s
    BY <1>1, <1>3, <1>4, <1>5, <2>3
  <2> QED
    BY <1>7, <2>1, <2>2, <2>3
<1>10. Len(s) + 1 \in DOMAIN r /\ r[Len(s) + 1].text = text
  BY <1>1, <1>3, <1>4
<1> QED
  BY <1>2, <1>4, <1>8, <1>9, <1>10

LEMMA OverwrittenInv ==
    ASSUME CacheTypeInv, EntriesInv, NEW text \in Texts, Embedding!Cached(text),
           NEW entry, entry = [text |-> text, vector |-> text],
           NEW r, r = [k \in DOMAIN cache |-> IF cache[k].text = text THEN entry ELSE cache[k]]
    PROVE  /\ r \in Seq(EntryType) /\ Len(r) = Len(cache)
           /\ VectorsTrue(r) /\ OnePlace(r)
           /\ \E j \in DOMAIN r : r[j].text = text
<1>1. entry \in EntryType /\ entry.text = text /\ entry.vector = text
  BY DEF EntryType
<1>2. PICK s \in Seq(EntryType) : s = cache
  BY DEF CacheTypeInv
<1>3. Len(s) \in Nat /\ DOMAIN s = 1..Len(s)
  BY <1>2
<1>4. /\ r \in Seq(EntryType) /\ Len(r) = Len(s) /\ DOMAIN r = DOMAIN s
      /\ \A j \in DOMAIN s : r[j] = IF s[j].text = text THEN entry ELSE s[j]
  BY <1>1, <1>2, <1>3
<1>5. \A j \in DOMAIN s : r[j].text = s[j].text
  BY <1>1, <1>4
<1>6. VectorsTrue(r)
  BY <1>1, <1>2, <1>4 DEF VectorsTrue, EntriesInv
<1>7. OnePlace(r)
  BY <1>2, <1>4, <1>5 DEF OnePlace, EntriesInv
<1> QED
  BY <1>2, <1>4, <1>5, <1>6, <1>7 DEF Embedding!Cached
LEMMA FillStep ==
    ASSUME IsFiniteSet(Threads), CacheSize \in Nat, CacheIInv, NEW c \in Threads, Embedding!Fill(c)
    PROVE  CacheIInv'
<1>1. PICK own, place, text, vector :
         /\ own = calls[c] /\ place = own.missing[own.at]
         /\ text = own.texts[place] /\ vector = own.vectors[own.at]
  OBVIOUS
<1>2. /\ calls[c].pc = "fill" /\ Embedding!Active(c) /\ UNCHANGED << raced, abandoned >>
      /\ Trims(calls[c].pc) = 0
  BY DEF Embedding!Fill, Embedding!Active, Trims, Trimming
<1>3. own \in CallType /\ CallInv(own) /\ own.pc = "fill"
  BY <1>1, <1>2, CallNow
<1>4. Shaped(own) /\ Supplied(own) /\ AllCovered(own, own.at)
  BY <1>3 DEF CallInv
<1>5. vector = text /\ text \in Texts
  BY <1>1, <1>3, <1>4 DEF Shaped, Supplied, CallType
<1>6. PICK answered : answered = [own EXCEPT !.answer[place] = << vector >>]
  OBVIOUS
<1>7. /\ answered \in CallType /\ Shaped(answered) /\ Supplied(answered)
      /\ AllCovered(answered, answered.at + 1)
      /\ answered.at = own.at /\ answered.texts = own.texts /\ answered.missing = own.missing
  BY <1>1, <1>3, <1>4, <1>6, AnsweredInv
<1>8. CASE Embedding!Cached(text) /\ ~local
  <2>1. PICK new : new = Embedding!Stored(answered)
    OBVIOUS
  <2>2. calls' = [calls EXCEPT ![c] = new] /\ UNCHANGED cache
    BY <1>1, <1>6, <1>8, <2>1 DEF Embedding!Fill
  <2>3. new \in CallType /\ CallInv(new) /\ new.pc \in {"fill", "done"}
    BY <1>7, <2>1, StoredInv
  <2>4. Kept(new) /\ Trims(calls[c].pc) <= Trims(new.pc)
    BY <1>2, <2>3 DEF Kept, Trims, Trimming
  <2> QED
    BY <1>2, <2>2, <2>3, <2>4, ReadingStep
<1>9. CASE ~(Embedding!Cached(text) /\ ~local)
  <2>1. PICK new, entry, entries :
           /\ new = [answered EXCEPT !.pc = "order"]
           /\ entry = [text |-> text, vector |-> text] /\ entries = cache'
    OBVIOUS
  <2>2. /\ calls' = [calls EXCEPT ![c] = new]
        /\ entries = IF Embedding!Cached(text)
                       THEN [k \in DOMAIN cache |-> IF cache[k].text = text THEN entry ELSE cache[k]]
                     ELSE Append(cache, entry)
    BY <1>1, <1>5, <1>6, <1>9, <2>1 DEF Embedding!Fill
  <2>3. /\ new \in CallType /\ new.pc = "order" /\ new.at = answered.at /\ new.texts = answered.texts
        /\ new.missing = answered.missing /\ new.answer = answered.answer
        /\ new.vectors = answered.vectors
    BY <1>7, <2>1 DEF CallType, PcType
  <2>4. CallInv(new)
    <3>1. Shaped(new) /\ Supplied(new)
      BY <1>7, <2>3 DEF Shaped, Supplied
    <3>2. AllCovered(new, new.at + 1)
      BY <1>7, <2>3 DEF AllCovered, Covered, Replied, Owed
    <3> QED
      BY <2>3, <3>1, <3>2 DEF CallInv, Looking, Trimming
  <2>5. /\ entries \in Seq(EntryType) /\ Len(entries) <= Len(cache) + 1
        /\ VectorsTrue(entries) /\ OnePlace(entries)
        /\ \E j \in DOMAIN entries : entries[j].text = text
    <3>1. CacheTypeInv /\ EntriesInv /\ Len(cache) \in Nat
      BY DEF CacheIInv, CacheTypeInv
    <3>2. CASE Embedding!Cached(text)
      <4>1. entries = [k \in DOMAIN cache |-> IF cache[k].text = text THEN entry ELSE cache[k]]
        BY <2>2, <3>2
      <4> QED
        BY <1>5, <2>1, <3>1, <3>2, <4>1, OverwrittenInv
    <3>3. CASE ~Embedding!Cached(text)
      <4>1. entries = Append(cache, entry)
        BY <2>2, <3>3
      <4>2. entry = [text |-> text, vector |-> text]
        BY <1>5, <2>1
      <4>3. Len(entries) = Len(cache) + 1 /\ entries \in Seq(EntryType)
        BY <1>5, <3>1, <3>3, <4>1, <4>2, AppendedInv
      <4>4. VectorsTrue(entries) /\ OnePlace(entries)
        BY <1>5, <3>1, <3>3, <4>1, <4>2, AppendedInv
      <4>5. \E j \in DOMAIN entries : entries[j].text = text
        BY <1>5, <3>1, <3>3, <4>1, <4>2, AppendedInv
      <4> QED
        BY <3>1, <4>3, <4>4, <4>5
    <3> QED
      BY <3>2, <3>3
  <2>6. cache' \in Seq(EntryType) /\ EntriesInv'
    BY <2>1, <2>5 DEF EntriesInv
  <2>7. Kept(new)'
    <3>1. new.texts[new.missing[new.at]] = text
      BY <1>1, <1>7, <2>3
    <3> QED
      BY <2>1, <2>3, <2>5, <3>1 DEF Kept, Embedding!Cached
  <2>8. Trims(new.pc) = 1 /\ abandoned' \in Nat /\ abandoned' = abandoned
        /\ Len(cache') \in Nat /\ Len(cache) \in Nat
    BY <1>2, <2>3, <2>6 DEF Trims, Trimming, CacheIInv, CacheTypeInv
  <2>9. Len(cache') + Trims(calls[c].pc) + abandoned <= Len(cache) + Trims(new.pc) + abandoned'
    BY <1>2, <2>1, <2>5, <2>8
  <2> QED
    BY <1>2, <2>2, <2>3, <2>4, <2>6, <2>7, <2>8, <2>9, StepInv
<1> QED
  BY <1>8, <1>9

LEMMA TrimStep ==
    ASSUME IsFiniteSet(Threads), CacheSize \in Nat, CacheIInv, NEW c \in Threads, Embedding!Trim(c)
    PROVE  CacheIInv'
<1>1. PICK own : own = calls[c]
  OBVIOUS
<1>2. calls[c].pc = "trim" /\ Embedding!Active(c) /\ UNCHANGED << cache, raced, abandoned >>
      /\ Trims(calls[c].pc) = 1
  BY DEF Embedding!Trim, Embedding!Active, Trims, Trimming
<1>3. own \in CallType /\ CallInv(own) /\ own.pc = "trim"
  BY <1>1, <1>2, CallNow
<1>4. Shaped(own) /\ Supplied(own) /\ AllCovered(own, own.at + 1)
  BY <1>3 DEF CallInv, Trimming
<1>5. Len(cache) \in Nat
  BY DEF CacheIInv, CacheTypeInv
<1>6. CASE Embedding!Full
  <2>1. PICK new : new = [own EXCEPT !.pc = "pop"]
    OBVIOUS
  <2>2. calls' = [calls EXCEPT ![c] = new]
    BY <1>1, <1>6, <2>1 DEF Embedding!Trim
  <2>3. /\ new \in CallType /\ new.pc = "pop" /\ new.at = own.at /\ new.texts = own.texts
        /\ new.missing = own.missing /\ new.answer = own.answer /\ new.vectors = own.vectors
    BY <1>3, <2>1 DEF CallType, PcType
  <2>4. CallInv(new)
    <3>1. Shaped(new) /\ Supplied(new)
      BY <1>4, <2>3 DEF Shaped, Supplied
    <3>2. AllCovered(new, new.at + 1)
      BY <1>4, <2>3 DEF AllCovered, Covered, Replied, Owed
    <3> QED
      BY <2>3, <3>1, <3>2 DEF CallInv, Looking, Trimming
  <2>5. cache # <<>>
    BY <1>5, <1>6 DEF Embedding!Full
  <2>6. Kept(new) /\ Trims(calls[c].pc) <= Trims(new.pc)
    BY <1>2, <2>3, <2>5 DEF Kept, Trims, Trimming
  <2> QED
    BY <1>2, <2>2, <2>3, <2>4, <2>6, ReadingStep
<1>7. CASE ~Embedding!Full
  <2>1. PICK new : new = Embedding!Stored(own)
    OBVIOUS
  <2>2. calls' = [calls EXCEPT ![c] = new]
    BY <1>1, <1>7, <2>1 DEF Embedding!Trim
  <2>3. new \in CallType /\ CallInv(new) /\ new.pc \in {"fill", "done"}
    BY <1>3, <1>4, <2>1, StoredInv
  <2>4. Kept(new) /\ Len(cache) <= CacheSize
    BY <1>5, <1>7, <2>3 DEF Kept, Embedding!Full
  <2> QED
    BY <1>2, <2>2, <2>3, <2>4, ReadingStep
<1> QED
  BY <1>6, <1>7

LEMMA PopStep ==
    ASSUME IsFiniteSet(Threads), CacheSize \in Nat, CacheIInv, NEW c \in Threads, Embedding!Pop(c)
    PROVE  CacheIInv'
<1>1. PICK own : own = calls[c]
  OBVIOUS
<1>2. calls[c].pc = "pop" /\ Embedding!Active(c) /\ UNCHANGED << raced, abandoned >>
      /\ Trims(calls[c].pc) = 1
  BY DEF Embedding!Pop, Embedding!Active, Trims, Trimming
<1>3. own \in CallType /\ CallInv(own) /\ own.pc = "pop"
  BY <1>1, <1>2, CallNow
<1>4. Shaped(own) /\ Supplied(own) /\ AllCovered(own, own.at + 1)
  BY <1>3 DEF CallInv, Trimming
<1>5. CASE cache = <<>>
  <2>1. PICK new : new = [own EXCEPT !.pc = "failed"]
    OBVIOUS
  <2>2. calls' = [calls EXCEPT ![c] = new] /\ UNCHANGED cache
    BY <1>1, <1>5, <2>1 DEF Embedding!Pop
  <2>3. new \in CallType /\ CallInv(new) /\ new.pc = "failed"
    BY <1>3, <2>1, EndedInv
  <2>4. raced /\ Len(cache) <= CacheSize
    BY <1>1, <1>3, <1>5, CallNow DEF Kept, CacheIInv, CacheTypeInv
  <2> QED
    BY <1>2, <2>2, <2>3, <2>4, ReadingStep
<1>6. CASE cache # <<>>
  <2>1. PICK new : new = Embedding!Stored(own)
    OBVIOUS
  <2>2. calls' = [calls EXCEPT ![c] = new] /\ cache' = Tail(cache)
    BY <1>1, <1>6, <2>1 DEF Embedding!Pop
  <2>3. new \in CallType /\ CallInv(new) /\ new.pc \in {"fill", "done"}
    BY <1>3, <1>4, <2>1, StoredInv
  <2>4. PICK s \in Seq(EntryType) : s = cache
    BY DEF CacheIInv, CacheTypeInv
  <2>5. PICK t : t = Tail(s)
    OBVIOUS
  <2>6. /\ t \in Seq(EntryType) /\ Len(t) = Len(s) - 1 /\ Len(s) \in Nat
        /\ \A j \in DOMAIN t : t[j] = s[j + 1] /\ j + 1 \in DOMAIN s /\ j \in Nat
    BY <1>6, <2>4, <2>5
  <2>7. VectorsTrue(t)
    BY <2>4, <2>6 DEF VectorsTrue, CacheIInv, EntriesInv
  <2>8. OnePlace(t)
    <3> SUFFICES ASSUME NEW j \in DOMAIN t, NEW k \in DOMAIN t, t[j].text = t[k].text PROVE j = k
      BY DEF OnePlace
    <3>1. j + 1 = k + 1
      BY <2>4, <2>6 DEF OnePlace, CacheIInv, EntriesInv
    <3> QED
      BY <2>6, <3>1
  <2>9. cache' \in Seq(EntryType) /\ EntriesInv' /\ Len(cache') = Len(cache) - 1
    BY <2>2, <2>4, <2>5, <2>6, <2>7, <2>8 DEF EntriesInv
  <2>10. abandoned' \in Nat /\ abandoned' = abandoned /\ Len(cache) \in Nat /\ Trims(new.pc) = 0
    BY <1>2, <2>3 DEF CacheIInv, CacheTypeInv, Trims, Trimming
  <2>11. Len(cache') + Trims(calls[c].pc) + abandoned <= Len(cache) + Trims(new.pc) + abandoned'
    BY <1>2, <2>9, <2>10
  <2>12. Kept(new)'
    BY <2>3 DEF Kept
  <2> QED
    BY <1>2, <2>2, <2>3, <2>9, <2>10, <2>11, <2>12, StepInv
<1> QED
  BY <1>5, <1>6
-----------------------------------------------------------------------------
(* A call begins, the cache is cleared. *)

LEMMA EmbedStep ==
    ASSUME IsFiniteSet(Threads), CacheSize \in Nat, MaxTexts \in Nat, CacheIInv, NEW c \in Threads, Embedding!Embed(c)
    PROVE  CacheIInv'
<1>1. PICK texts \in Embedding!BoundedSeq(Texts, MaxTexts) :
         calls' = [calls EXCEPT ![c] =
             IF texts = <<>> THEN [Embedding!Idle EXCEPT !.pc = "done"]
             ELSE [Embedding!Idle EXCEPT !.pc = "look", !.texts = texts, !.at = 1,
                               !.answer = [i \in DOMAIN texts |-> <<>>]]]
  BY DEF Embedding!Embed
<1>2. texts \in Seq(Texts)
  BY DEF Embedding!BoundedSeq, Embedding!SeqOf
<1>3. /\ ~Embedding!Active(c) /\ UNCHANGED << cache, abandoned >>
      /\ raced' = (raced \/ \E d \in Threads : Embedding!Active(d))
  BY DEF Embedding!Embed
<1>4. PICK new : new = IF texts = <<>> THEN [Embedding!Idle EXCEPT !.pc = "done"]
                       ELSE [Embedding!Idle EXCEPT !.pc = "look", !.texts = texts, !.at = 1,
                                         !.answer = [i \in DOMAIN texts |-> <<>>]]
  OBVIOUS
<1>5. calls' = [calls EXCEPT ![c] = new]
  BY <1>1, <1>4
<1>6. new \in CallType /\ CallInv(new) /\ new.pc \in {"look", "done"}
  <2>0. /\ Embedding!Idle.pc = "idle" /\ Embedding!Idle.texts = <<>> /\ Embedding!Idle.at = 0 /\ Embedding!Idle.missing = <<>>
        /\ Embedding!Idle.vectors = <<>> /\ Embedding!Idle.answer = <<>>
        /\ Embedding!Idle \in [pc : PcType, texts : Seq(Texts), at : Nat, missing : Seq(Nat),
                     vectors : Seq(Texts), answer : Seq(Seq(Texts))]
    BY DEF Embedding!Idle, PcType
  <2>1. CASE texts = <<>>
    <3>1. /\ new \in CallType /\ new.pc = "done" /\ new.texts = <<>> /\ new.missing = <<>>
          /\ new.answer = <<>>
      BY <1>4, <2>0, <2>1 DEF CallType, PcType
    <3> QED
      BY <3>1 DEF CallInv, Shaped, AllAnswered, Looking, Trimming
  <2>2. CASE texts # <<>>
    <3>1. PICK answer \in Seq(Seq(Texts)) : answer = [i \in DOMAIN texts |-> <<>>]
      <4>1. <<>> \in Seq(Texts) /\ DOMAIN texts = 1..Len(texts) /\ Len(texts) \in Nat
        BY <1>2
      <4>2. [i \in DOMAIN texts |-> <<>>] \in Seq(Seq(Texts))
        BY <4>1
      <4> QED
        BY <4>2
    <3>2. new = [Embedding!Idle EXCEPT !.pc = "look", !.texts = texts, !.at = 1, !.answer = answer]
      BY <1>4, <2>2, <3>1
    <3>3. /\ new \in CallType /\ new.pc = "look" /\ new.texts = texts /\ new.at = 1
          /\ new.missing = <<>> /\ new.answer = answer
      BY <1>2, <2>0, <3>2 DEF CallType, PcType
    <3>4. Shaped(new)
      <4>1. DOMAIN texts = 1..Len(texts) /\ Len(texts) \in Nat
        BY <1>2
      <4>2. Len(answer) = Len(texts)
        BY <3>1, <4>1
      <4> QED
        BY <3>3, <4>2 DEF Shaped
    <3>5. LookInv(new)
      <4>1. 1 \in DOMAIN texts /\ \A i \in DOMAIN texts : ~(i < 1)
        BY <1>2, <2>2
      <4> QED
        BY <3>3, <4>1 DEF LookInv
    <3> QED
      BY <3>3, <3>4, <3>5 DEF CallInv, Looking, Trimming
  <2> QED
    BY <2>1, <2>2
<1>7. CacheTypeInv' /\ CallsInv'
  BY <1>3, <1>5, <1>6, CallSet DEF CacheIInv, CacheTypeInv
<1>8. EntriesInv'
  BY <1>3 DEF CacheIInv, EntriesInv
<1>9. SizeInv'
  <2>1. Trims(new.pc) = 0 /\ Trims(calls[c].pc) = 0
    BY <1>3, <1>6 DEF Trims, Trimming, Embedding!Active
  <2>2. Cardinality(Late') = Cardinality(Late)
    <3>1. PICK before, after : before = Cardinality(Late) /\ after = Cardinality(Late')
      OBVIOUS
    <3>2. before \in Nat /\ after \in Nat /\ after = before + 0 - 0
      BY <1>5, <1>6, <2>1, <3>1, LateCount DEF CacheIInv
    <3> QED
      BY <3>1, <3>2
  <2> QED
    BY <1>3, <2>2 DEF CacheIInv, SizeInv
<1>10. AloneInv'
  <2> SUFFICES ASSUME ~raced, \A d \in Threads : ~Embedding!Active(d)
               PROVE  /\ (\A d, e \in Threads : Embedding!Active(d) /\ Embedding!Active(e) => d = e)'
                      /\ (\A d \in Threads : Kept(calls[d]))'
    BY <1>3 DEF AloneInv
  <2>1. \A d \in Threads : d # c => calls'[d] = calls[d] /\ ~Embedding!Active(d) /\ calls[d].pc # "failed"
    BY <1>5 DEF AloneInv, CacheIInv, CacheTypeInv, Kept
  <2>2. calls'[c] = new
    BY <1>5 DEF CacheIInv, CacheTypeInv
  <2>3. (\A d, e \in Threads : Embedding!Active(d) /\ Embedding!Active(e) => d = e)'
    BY <2>1 DEF Embedding!Active
  <2>4. ASSUME NEW d \in Threads, d # c PROVE Kept(calls[d])'
    BY <2>1, <2>4 DEF Kept, Embedding!Active
  <2>5. Kept(calls[c])'
    BY <1>6, <2>2 DEF Kept
  <2> QED
    BY <2>3, <2>4, <2>5
<1> QED
  BY <1>7, <1>8, <1>9, <1>10 DEF CacheIInv

LEMMA ClearStep ==
    ASSUME IsFiniteSet(Threads), CacheSize \in Nat, CacheIInv, Embedding!ClearCache
    PROVE  CacheIInv'
<1>1. /\ cache' = <<>> /\ abandoned' = 0 /\ UNCHANGED calls
      /\ raced' = (raced \/ \E c \in Threads : Embedding!Active(c))
  BY DEF Embedding!ClearCache
<1>2. CacheTypeInv'
  BY <1>1 DEF CacheIInv, CacheTypeInv
<1>3. EntriesInv'
  BY <1>1 DEF EntriesInv, VectorsTrue, OnePlace
<1>4. CallsInv'
  BY <1>1 DEF CacheIInv, CallsInv
<1>5. SizeInv'
  <2>1. Late' = Late
    BY <1>1 DEF Late
  <2>2. PICK late : late = Late
    OBVIOUS
  <2>3. Cardinality(late) \in Nat
    BY <2>2, FS_Subset, FS_CardinalityType DEF Late
  <2>4. Len(cache') = 0
    BY <1>1
  <2> QED
    BY <1>1, <2>1, <2>2, <2>3, <2>4 DEF SizeInv
<1>6. AloneInv'
  <2> SUFFICES ASSUME ~raced, \A d \in Threads : ~Embedding!Active(d)
               PROVE  /\ (\A d, e \in Threads : Embedding!Active(d) /\ Embedding!Active(e) => d = e)'
                      /\ (\A d \in Threads : Kept(calls[d]))'
    BY <1>1 DEF AloneInv
  <2>1. \A d \in Threads : ~Embedding!Active(d)'
    BY <1>1 DEF Embedding!Active
  <2>2. \A d \in Threads : Kept(calls[d])'
    BY <1>1 DEF Embedding!Active, Kept, CacheIInv, AloneInv
  <2> QED
    BY <2>1, <2>2
<1> QED
  BY <1>2, <1>3, <1>4, <1>5, <1>6 DEF CacheIInv

-----------------------------------------------------------------------------

LEMMA CacheInit ==
    ASSUME IsFiniteSet(Threads), CacheSize \in Nat, Embedding!Init
    PROVE  CacheIInv
<1>1. Embedding!Idle \in CallType /\ Embedding!Idle.pc = "idle" /\ Embedding!Idle.texts = <<>> /\ Embedding!Idle.missing = <<>>
      /\ Embedding!Idle.answer = <<>>
  BY DEF Embedding!Idle, CallType, PcType
<1>2. cache = <<>> /\ calls = [c \in Threads |-> Embedding!Idle] /\ raced = FALSE /\ abandoned = 0
  BY DEF Embedding!Init
<1>3. CacheTypeInv
  <2>1. cache \in Seq(EntryType) /\ abandoned \in Nat
    BY <1>2
  <2>2. calls \in [Threads -> CallType]
    BY <1>1, <1>2
  <2>3. raced \in BOOLEAN
    BY <1>2
  <2> QED
    BY <2>1, <2>2, <2>3 DEF CacheTypeInv
<1>4. EntriesInv
  BY <1>2 DEF EntriesInv, VectorsTrue, OnePlace
<1>5. CallInv(Embedding!Idle)
  BY <1>1 DEF CallInv, Shaped, Looking, Trimming
<1>6. CallsInv
  BY <1>2, <1>5 DEF CallsInv
<1>7. SizeInv
  <2>1. PICK late : late = Late
    OBVIOUS
  <2>2. Cardinality(late) \in Nat
    BY <2>1, FS_Subset, FS_CardinalityType DEF Late
  <2>3. Len(cache) = 0
    BY <1>2
  <2> QED
    BY <1>2, <2>1, <2>2, <2>3 DEF SizeInv
<1>8. AloneInv
  BY <1>1, <1>2 DEF AloneInv, Embedding!Active, Kept
<1> QED
  BY <1>3, <1>4, <1>6, <1>7, <1>8 DEF CacheIInv

LEMMA CacheNext ==
    ASSUME IsFiniteSet(Threads), CacheSize \in Nat, MaxTexts \in Nat, CacheIInv, [Embedding!Next]_Embedding!vars
    PROVE  CacheIInv'
<1>1. CASE Embedding!ClearCache
  BY <1>1, ClearStep
<1>2. ASSUME NEW c \in Threads, Embedding!Step(c) PROVE CacheIInv'
  <2>1. CASE Embedding!Embed(c)
    BY <2>1, EmbedStep
  <2>2. CASE Embedding!Look(c)
    BY <2>2, LookStep
  <2>3. CASE Embedding!Touch(c)
    BY <2>3, TouchStep
  <2>4. CASE Embedding!Read(c)
    BY <2>4, ReadStep
  <2>5. CASE Embedding!Ask(c)
    BY <2>5, AskStep
  <2>6. CASE Embedding!Fill(c)
    BY <2>6, FillStep
  <2>7. CASE Embedding!Order(c)
    BY <2>7, OrderStep
  <2>8. CASE Embedding!Trim(c)
    BY <2>8, TrimStep
  <2>9. CASE Embedding!Pop(c)
    BY <2>9, PopStep
  <2> QED
    BY <1>2, <2>1, <2>2, <2>3, <2>4, <2>5, <2>6, <2>7, <2>8, <2>9 DEF Embedding!Step
<1>3. CASE UNCHANGED Embedding!vars
  <2>1. UNCHANGED << cache, calls, raced, abandoned >>
    BY <1>3 DEF Embedding!vars
  <2>2. CacheTypeInv' /\ EntriesInv' /\ CallsInv'
    BY <2>1 DEF CacheIInv, CacheTypeInv, EntriesInv, CallsInv
  <2>3. SizeInv' /\ AloneInv'
    BY <2>1 DEF CacheIInv, SizeInv, Late, AloneInv, Embedding!Active, Kept, Embedding!Cached
  <2> QED
    BY <2>2, <2>3 DEF CacheIInv
<1> QED
  BY <1>1, <1>2, <1>3 DEF Embedding!Next

LEMMA CacheRight ==
    ASSUME CacheIInv
    PROVE  Embedding!EmbeddingsRight
<1>1. ASSUME NEW c \in Threads, calls[c].pc = "done"
      PROVE  calls[c].answer = [i \in DOMAIN calls[c].texts |-> << calls[c].texts[i] >>]
  <2>1. PICK own : own = calls[c]
    OBVIOUS
  <2>2. /\ own.answer \in Seq(Seq(Texts)) /\ own.texts \in Seq(Texts)
        /\ Len(own.answer) = Len(own.texts) /\ AllAnswered(own)
    BY <1>1, <2>1, CallNow DEF CallInv, Shaped, CallType
  <2>3. own.answer = [i \in DOMAIN own.texts |-> own.answer[i]]
    BY <2>2
  <2>4. \A i \in DOMAIN own.texts : own.answer[i] = << own.texts[i] >>
    BY <2>2 DEF AllAnswered, Replied
  <2> QED
    BY <2>1, <2>3, <2>4
<1>2. Len(cache) <= CacheSize + Cardinality({c \in Threads : calls[c].pc \in {"order", "trim", "pop"}})
                      + abandoned
  BY DEF CacheIInv, SizeInv, Late, Trimming
<1>3. \A j, k \in DOMAIN cache : cache[j].text = cache[k].text => j = k
  BY DEF CacheIInv, EntriesInv, OnePlace
<1>4. (\E c \in Threads : calls[c].pc = "failed") => raced
  BY DEF CacheIInv, AloneInv, Kept, CacheTypeInv
<1> QED
  BY <1>1, <1>2, <1>3, <1>4 DEF Embedding!EmbeddingsRight, Cardinality, Embedding!Cardinality

(* The strengthening: types, whole entries of distinct texts, per call what
   it owes, the size, and what a thread that is alone can rely on. *)
THEOREM CacheInvariant == Embedding!Spec => []CacheIInv
<1>1. IsFiniteSet(Threads) /\ CacheSize \in Nat /\ MaxTexts \in Nat
  BY ThreadsAreFinite, BoundsAreNaturals
<1>2. Embedding!Init => CacheIInv
  BY <1>1, CacheInit
<1>3. CacheIInv /\ [Embedding!Next]_Embedding!vars => CacheIInv'
  BY <1>1, CacheNext
<1> QED
  BY <1>2, <1>3, PTL DEF Embedding!Spec

(* Each call that returns answers every text with its own vector, however
   threads interleave; the cache grows over its size only by what threads
   are about to trim or gave up; and a thread that is alone never fails
   (core/embeddings.py:135-167, 177-204). *)
THEOREM EveryTextItsVector == Embedding!Spec => []EmbeddingsRight
<1>1. CacheIInv => EmbeddingsRight
  BY CacheRight, ThreadsAreFinite, BoundsAreNaturals DEF EmbeddingsRight
<1> QED
  BY <1>1, CacheInvariant, PTL

-----------------------------------------------------------------------------
(* A nonempty set of naturals has a least element. *)
LEMMA LeastNat ==
    ASSUME NEW T \in SUBSET Nat, T # {}
    PROVE  \E x \in T : \A y \in T : x <= y
<1>1. PICK x \in T : \A y \in T : ~(<<y, x>> \in OpToRel(<, Nat))
  BY NatLessThanWellFounded, WFMin
<1>2. \A y \in T : ~(y < x)
  BY <1>1 DEF OpToRel
<1>3. QED
  BY <1>2

(* The list s without the item e, as far as place n. *)
Fronts(s, e, n, f) ==
    f = [k \in 0..n |-> IF k = 0 THEN <<>>
                        ELSE IF s[k] = e THEN f[k - 1] ELSE Append(f[k - 1], s[k])]

LEMMA FrontsExist ==
    ASSUME NEW s, NEW e, NEW n \in Nat
    PROVE  \E f : Fronts(s, e, n, f)
<1> DEFINE Bad == {m \in Nat : ~\E f : Fronts(s, e, m, f)}
<1> SUFFICES ASSUME Bad # {} PROVE FALSE
  OBVIOUS
<1>1. PICK m \in Bad : \A k \in Bad : m <= k
  BY LeastNat
<1>2. CASE m = 0
  <2>1. [k \in 0..0 |-> <<>>] = [k \in 0..0 |-> IF k = 0 THEN <<>>
                        ELSE IF s[k] = e THEN [j \in 0..0 |-> <<>>][k - 1] ELSE Append([j \in 0..0 |-> <<>>][k - 1], s[k])]
    OBVIOUS
  <2>2. Fronts(s, e, 0, [k \in 0..0 |-> <<>>])
    BY <2>1 DEF Fronts
  <2>3. QED
    BY <1>1, <1>2, <2>2
<1>3. CASE m # 0
  <2>1. m - 1 \in Nat /\ m - 1 \notin Bad
    BY <1>1, <1>3
  <2>2. PICK f : Fronts(s, e, m - 1, f)
    BY <2>1
  <2>3. PICK last : last = IF s[m] = e THEN f[m - 1] ELSE Append(f[m - 1], s[m])
    OBVIOUS
  <2>4. PICK g : g = [k \in 0..m |-> IF k = m THEN last ELSE f[k]]
    OBVIOUS
  <2>5. \A k \in 0..m : g[k] = IF k = 0 THEN <<>>
                               ELSE IF s[k] = e THEN g[k - 1] ELSE Append(g[k - 1], s[k])
    <3> TAKE k \in 0..m
    <3>1. CASE k = m
      <4>1. m - 1 \in 0..m /\ m - 1 # m /\ m # 0
        BY <1>3, <2>1
      <4>2. g[m - 1] = f[m - 1] /\ g[m] = last
        BY <2>4, <4>1
      <4>3. QED
        BY <2>3, <3>1, <4>1, <4>2
    <3>2. CASE k # m
      <4>1. k \in 0..(m - 1) /\ g[k] = f[k]
        BY <2>4, <3>2, <2>1
      <4>2. k # 0 => k - 1 \in 0..m /\ k - 1 # m
        BY <4>1, <2>1
      <4>3. k # 0 => g[k - 1] = f[k - 1]
        BY <2>4, <4>2
      <4>4. f[k] = IF k = 0 THEN <<>> ELSE IF s[k] = e THEN f[k - 1] ELSE Append(f[k - 1], s[k])
        BY <2>2, <4>1 DEF Fronts
      <4>5. QED
        BY <4>1, <4>3, <4>4
    <3>3. QED
      BY <3>1, <3>2
  <2>6. g = [k \in 0..m |-> g[k]]
    BY <2>4
  <2>7. Fronts(s, e, m, g)
    BY <2>5, <2>6 DEF Fronts
  <2>8. QED
    BY <1>1, <2>7
<1>4. QED
  BY <1>2, <1>3

(* The loop of delete_chunk over a list of children, step by step. *)
LEMMA WithoutIs ==
    ASSUME NEW s, NEW e, Len(s) \in Nat
    PROVE  \E f : Fronts(s, e, Len(s), f) /\ Hierarchy!Without(s, e) = f[Len(s)]
<1> DEFINE f == CHOOSE f : Fronts(s, e, Len(s), f)
<1>1. Fronts(s, e, Len(s), f)
  BY FrontsExist
<1>2. Hierarchy!Without(s, e) = f[Len(s)]
  BY DEF Hierarchy!Without, Fronts
<1>3. QED
  BY <1>1, <1>2

(* A list names each chunk of K once, and no other. *)
Lists(list, K) ==
    /\ list \in Seq(ChunkId)
    /\ \A k \in DOMAIN list : list[k] \in K
    /\ \A x \in K : \E k \in DOMAIN list : list[k] = x
    /\ \A j, k \in DOMAIN list : list[j] = list[k] => j = k

LEMMA ListsMore ==
    ASSUME NEW s, NEW K, Lists(s, K), NEW x \in ChunkId, x \notin K,
           NEW r, r = Append(s, x), NEW M, M = K \cup {x}
    PROVE  Lists(r, M)
<1>1. s \in Seq(ChunkId) /\ Len(s) \in Nat /\ DOMAIN s = 1..Len(s)
  BY DEF Lists
<1>2. r \in Seq(ChunkId) /\ DOMAIN r = 1..(Len(s) + 1) /\ r[Len(s) + 1] = x
      /\ \A k \in DOMAIN s : k \in DOMAIN r /\ r[k] = s[k]
  BY <1>1
<1>3. \A k \in DOMAIN r : k \in DOMAIN s \/ k = Len(s) + 1
  BY <1>1, <1>2
<1>4. \A k \in DOMAIN r : r[k] \in M
  BY <1>2, <1>3 DEF Lists
<1>5. \A y \in M : \E k \in DOMAIN r : r[k] = y
  <2> SUFFICES ASSUME NEW y \in M PROVE \E k \in DOMAIN r : r[k] = y
    OBVIOUS
  <2>1. CASE y \in K
    BY <2>1, <1>2 DEF Lists
  <2>2. CASE y = x
    BY <2>2, <1>1, <1>2
  <2>3. QED
    BY <2>1, <2>2
<1>6. \A j, k \in DOMAIN r : r[j] = r[k] => j = k
  <2> SUFFICES ASSUME NEW j \in DOMAIN r, NEW k \in DOMAIN r, r[j] = r[k] PROVE j = k
    OBVIOUS
  <2>1. CASE j \in DOMAIN s /\ k \in DOMAIN s
    BY <2>1, <1>2 DEF Lists
  <2>2. CASE j = Len(s) + 1 /\ k = Len(s) + 1
    BY <2>2
  <2>3. CASE j \in DOMAIN s /\ k = Len(s) + 1
    BY <2>3, <1>2 DEF Lists
  <2>4. CASE j = Len(s) + 1 /\ k \in DOMAIN s
    BY <2>4, <1>2 DEF Lists
  <2>5. QED
    BY <2>1, <2>2, <2>3, <2>4, <1>3
<1>7. QED
  BY <1>2, <1>4, <1>5, <1>6 DEF Lists

(* What the loop has kept of the first n items of s. *)
Remaining(s, e, n) == {s[k] : k \in 1..n} \ {e}

LEMMA FrontsList ==
    ASSUME NEW s, NEW K, Lists(s, K), NEW e, NEW f, Fronts(s, e, Len(s), f), NEW n \in 0..Len(s)
    PROVE  Lists(f[n], Remaining(s, e, n))
<1> DEFINE Bad == {m \in Nat : m <= Len(s) /\ ~Lists(f[m], Remaining(s, e, m))}
<1>0. s \in Seq(ChunkId) /\ Len(s) \in Nat /\ DOMAIN s = 1..Len(s)
  BY DEF Lists
<1> SUFFICES ASSUME Bad # {} PROVE FALSE
  BY <1>0
<1>1. PICK m \in Bad : \A k \in Bad : m <= k
  BY LeastNat
<1>2. f[m] = IF m = 0 THEN <<>> ELSE IF s[m] = e THEN f[m - 1] ELSE Append(f[m - 1], s[m])
  <2>1. m \in 0..Len(s)
    BY <1>0, <1>1
  <2>2. PICK g : g = [k \in 0..Len(s) |-> IF k = 0 THEN <<>> ELSE IF s[k] = e THEN f[k - 1] ELSE Append(f[k - 1], s[k])]
    OBVIOUS
  <2>3. f = g
    BY <2>2 DEF Fronts
  <2>4. g[m] = IF m = 0 THEN <<>> ELSE IF s[m] = e THEN f[m - 1] ELSE Append(f[m - 1], s[m])
    BY <2>1, <2>2
  <2>5. QED
    BY <2>3, <2>4
<1>3. CASE m = 0
  <2>1. Remaining(s, e, m) = {}
    BY <1>3 DEF Remaining
  <2>2. f[m] = <<>>
    BY <1>2, <1>3
  <2>3. Lists(<<>>, {})
    BY DEF Lists
  <2>4. QED
    BY <1>1, <2>1, <2>2, <2>3
<1>4. CASE m # 0
  <2>1. m - 1 \in Nat /\ m - 1 \notin Bad /\ m \in 1..Len(s)
    BY <1>0, <1>1, <1>4
  <2>2. Lists(f[m - 1], Remaining(s, e, m - 1))
    BY <2>1, <1>0
  <2>3. {s[k] : k \in 1..m} = {s[k] : k \in 1..(m - 1)} \cup {s[m]}
    <3>1. \A k \in 1..m : k \in 1..(m - 1) \/ k = m
      BY <2>1
    <3>2. \A k \in 1..(m - 1) : k \in 1..m
      BY <2>1
    <3>3. QED
      BY <2>1, <3>1, <3>2
  <2>4. CASE s[m] = e
    <3>1. Remaining(s, e, m) = Remaining(s, e, m - 1)
      BY <2>3, <2>4 DEF Remaining
    <3>2. f[m] = f[m - 1]
      BY <1>2, <1>4, <2>4
    <3>3. QED
      BY <1>1, <2>2, <3>1, <3>2
  <2>5. CASE s[m] # e
    <3>1. Remaining(s, e, m) = Remaining(s, e, m - 1) \cup {s[m]}
      BY <2>3, <2>5 DEF Remaining
    <3>2. f[m] = Append(f[m - 1], s[m])
      BY <1>2, <1>4, <2>5
    <3>3. s[m] \notin Remaining(s, e, m - 1) /\ s[m] \in ChunkId
      <4>1. \A k \in 1..(m - 1) : s[k] # s[m]
        BY <1>0, <2>1 DEF Lists
      <4>2. QED
        BY <1>0, <2>1, <4>1 DEF Remaining
    <3>4. Lists(f[m], Remaining(s, e, m))
      BY <2>2, <3>1, <3>2, <3>3, ListsMore
    <3>5. QED
      BY <1>1, <3>4
  <2>6. QED
    BY <2>4, <2>5
<1>5. QED
  BY <1>3, <1>4

LEMMA WithoutRight ==
    ASSUME NEW s, NEW K, Lists(s, K), NEW e, NEW M, M = K \ {e}
    PROVE  Lists(Hierarchy!Without(s, e), M)
<1>1. s \in Seq(ChunkId) /\ Len(s) \in Nat /\ DOMAIN s = 1..Len(s)
  BY DEF Lists
<1>2. PICK f : Fronts(s, e, Len(s), f) /\ Hierarchy!Without(s, e) = f[Len(s)]
  BY <1>1, WithoutIs
<1>3. Lists(f[Len(s)], Remaining(s, e, Len(s)))
  BY <1>1, <1>2, FrontsList
<1>4. Remaining(s, e, Len(s)) = M
  BY <1>1 DEF Remaining, Lists
<1>5. QED
  BY <1>2, <1>3, <1>4

(* The two directions of the links: each parent lists its children. *)
Kids(idx, p) == {id \in DOMAIN idx.chunks : idx.chunks[id].parent = p}

LinksOK(idx) ==
    /\ DOMAIN idx.chunks \subseteq ChunkId
    /\ \A id \in DOMAIN idx.chunks : idx.chunks[id].parent \in (ChunkId \cup {Root}) \ {id}
    /\ DOMAIN idx.parentOf = DOMAIN idx.chunks \ Kids(idx, Root)
    /\ \A id \in DOMAIN idx.parentOf : idx.parentOf[id] = idx.chunks[id].parent
    /\ \A p \in ChunkId : Lists(Hierarchy!Listed(idx, p), Kids(idx, p))

HInv == ~readded => LinksOK(index) /\ to_delete \subseteq ChunkId

(* A chunk that is added under an id that is free. *)
LEMMA LinkedKeeps ==
    ASSUME NEW idx, LinksOK(idx), NEW id \in ChunkId, id \notin DOMAIN idx.chunks,
           NEW parent \in ChunkId \cup {Root}, parent # id, NEW reference,
           NEW new, new = Hierarchy!Linked(idx, id, parent, reference)
    PROVE  LinksOK(new)
<1>1. PICK chunk : chunk = [parent |-> parent, reference |-> reference]
  OBVIOUS
<1>2. DOMAIN new.chunks = DOMAIN idx.chunks \cup {id} /\ new.chunks[id] = chunk
      /\ \A k \in DOMAIN idx.chunks : new.chunks[k] = idx.chunks[k]
  BY <1>1 DEF Hierarchy!Linked, Hierarchy!Put
<1>3. Kids(new, parent) = Kids(idx, parent) \cup {id}
  BY <1>1, <1>2 DEF Kids
<1>4. ASSUME NEW p, p # parent PROVE Kids(new, p) = Kids(idx, p)
  BY <1>1, <1>2, <1>4 DEF Kids
<1>5. id \notin Kids(idx, parent)
  BY DEF Kids
<1>6. DOMAIN new.parentOf = DOMAIN new.chunks \ Kids(new, Root)
      /\ \A k \in DOMAIN new.parentOf : new.parentOf[k] = new.chunks[k].parent
  <2>1. CASE parent = Root
    <3>1. new.parentOf = idx.parentOf
      BY <2>1 DEF Hierarchy!Linked
    <3>2. \A k \in DOMAIN idx.parentOf : k \in DOMAIN idx.chunks
      BY DEF LinksOK
    <3>3. QED
      BY <1>2, <1>3, <2>1, <3>1, <3>2 DEF LinksOK
  <2>2. CASE parent # Root
    <3>1. new.parentOf = Hierarchy!Put(idx.parentOf, id, parent)
      BY <2>2 DEF Hierarchy!Linked
    <3>2. DOMAIN new.parentOf = DOMAIN idx.parentOf \cup {id} /\ new.parentOf[id] = parent
          /\ \A k \in DOMAIN idx.parentOf \ {id} : new.parentOf[k] = idx.parentOf[k]
      BY <3>1 DEF Hierarchy!Put
    <3>3. Kids(new, Root) = Kids(idx, Root) /\ id \notin Kids(idx, Root)
      BY <1>4, <2>2 DEF Kids
    <3>4. DOMAIN new.parentOf = DOMAIN new.chunks \ Kids(new, Root)
      BY <1>2, <3>2, <3>3 DEF LinksOK
    <3>5. \A k \in DOMAIN idx.parentOf : k \in DOMAIN idx.chunks /\ k # id
      BY DEF LinksOK
    <3>6. QED
      BY <1>1, <1>2, <3>2, <3>4, <3>5 DEF LinksOK
  <2>3. QED
    BY <2>1, <2>2
<1>7. ASSUME NEW p \in ChunkId PROVE Lists(Hierarchy!Listed(new, p), Kids(new, p))
  <2>1. Lists(Hierarchy!Listed(idx, p), Kids(idx, p))
    BY DEF LinksOK
  <2>2. CASE parent = Root
    <3>1. new.childrenOf = Hierarchy!Put(idx.childrenOf, id, Hierarchy!Listed(idx, id))
      BY <2>2 DEF Hierarchy!Linked
    <3>2. Hierarchy!Listed(new, p) = Hierarchy!Listed(idx, p)
      BY <3>1 DEF Hierarchy!Listed, Hierarchy!Put
    <3>3. p # parent
      BY <2>2, RootIsNoChunk
    <3>4. QED
      BY <1>4, <2>1, <3>2, <3>3
  <2>3. CASE parent # Root
    <3>1. new.childrenOf = Hierarchy!Put(idx.childrenOf, parent, Append(Hierarchy!Listed(idx, parent), id))
      BY <2>3 DEF Hierarchy!Linked
    <3>2. CASE p = parent
      <4>1. Hierarchy!Listed(new, p) = Append(Hierarchy!Listed(idx, p), id)
        BY <3>1, <3>2 DEF Hierarchy!Listed, Hierarchy!Put
      <4>2. PICK s, r, K, M : /\ s = Hierarchy!Listed(idx, p) /\ r = Append(s, id)
                              /\ K = Kids(idx, p) /\ M = K \cup {id}
        OBVIOUS
      <4>3. Lists(s, K) /\ id \notin K
        BY <1>5, <2>1, <3>2, <4>2
      <4>4. Lists(r, M)
        BY <4>2, <4>3, ListsMore
      <4>5. QED
        BY <1>3, <3>2, <4>1, <4>2, <4>4
    <3>3. CASE p # parent
      <4>1. Hierarchy!Listed(new, p) = Hierarchy!Listed(idx, p)
        BY <3>1, <3>3 DEF Hierarchy!Listed, Hierarchy!Put
      <4>2. QED
        BY <1>4, <2>1, <3>3, <4>1
    <3>4. QED
      BY <3>2, <3>3
  <2>4. QED
    BY <2>2, <2>3
<1>8. DOMAIN new.chunks \subseteq ChunkId
  BY <1>2 DEF LinksOK
<1>9. \A k \in DOMAIN new.chunks : new.chunks[k].parent \in (ChunkId \cup {Root}) \ {k}
  BY <1>1, <1>2 DEF LinksOK
<1>10. QED
  BY <1>6, <1>7, <1>8, <1>9 DEF LinksOK

(* What delete_chunk removes with a chunk are its children. *)
LEMMA GoneAre ==
    ASSUME NEW idx, LinksOK(idx), NEW id \in ChunkId
    PROVE  Hierarchy!Range(Hierarchy!Listed(idx, id)) = Kids(idx, id)
<1>1. PICK s, K : s = Hierarchy!Listed(idx, id) /\ K = Kids(idx, id) /\ Lists(s, K)
  BY DEF LinksOK
<1>2. {s[k] : k \in DOMAIN s} = K
  BY <1>1 DEF Lists
<1>3. QED
  BY <1>1, <1>2 DEF Hierarchy!Range

LEMMA DeletedKeeps ==
    ASSUME NEW idx, LinksOK(idx), NEW id \in ChunkId, NEW new, new = Hierarchy!Deleted(idx, id)
    PROVE  LinksOK(new)
<1>1. CASE id \notin DOMAIN idx.chunks
  BY <1>1 DEF Hierarchy!Deleted, Hierarchy!Ids
<1>2. CASE id \in DOMAIN idx.chunks
  <2>1. PICK gone : gone = {id} \cup Kids(idx, id)
    OBVIOUS
  <2>2. new = [chunks |-> Hierarchy!Drop(idx.chunks, gone),
               parentOf |-> Hierarchy!Drop(idx.parentOf, gone),
               childrenOf |-> Hierarchy!Drop(Hierarchy!Unlinked(idx, id), {id})]
    BY <1>2, <2>1, GoneAre DEF Hierarchy!Deleted, Hierarchy!Ids
  <2>3. DOMAIN new.chunks = DOMAIN idx.chunks \ gone
        /\ \A k \in DOMAIN new.chunks : new.chunks[k] = idx.chunks[k]
    BY <2>2 DEF Hierarchy!Drop, Hierarchy!Restrict
  <2>4. DOMAIN new.parentOf = DOMAIN idx.parentOf \ gone
        /\ \A k \in DOMAIN new.parentOf : new.parentOf[k] = idx.parentOf[k]
    BY <2>2 DEF Hierarchy!Drop, Hierarchy!Restrict
  <2>5. DOMAIN new.childrenOf = DOMAIN idx.childrenOf \ {id}
        /\ \A p \in DOMAIN new.childrenOf : new.childrenOf[p] = Hierarchy!Unlinked(idx, id)[p]
    BY <2>2 DEF Hierarchy!Drop, Hierarchy!Restrict, Hierarchy!Unlinked
  <2>6. PICK parent : parent = idx.chunks[id].parent /\ parent # id
    BY <1>2 DEF LinksOK
  <2>7. \A p : Kids(new, p) = Kids(idx, p) \ gone
    BY <2>3 DEF Kids
  <2>8. ASSUME NEW p \in ChunkId PROVE Lists(Hierarchy!Listed(new, p), Kids(new, p))
    <3>1. Lists(Hierarchy!Listed(idx, p), Kids(idx, p))
      BY DEF LinksOK
    <3>2. CASE p = id
      <4>1. Hierarchy!Listed(new, p) = <<>>
        BY <2>5, <3>2 DEF Hierarchy!Listed
      <4>2. Kids(new, p) = {}
        BY <2>1, <2>7, <3>2
      <4>3. QED
        BY <4>1, <4>2 DEF Lists
    <3>3. CASE p = parent
      <4>1. Kids(new, p) = Kids(idx, p) \ {id}
        BY <2>1, <2>6, <2>7, <3>3 DEF Kids
      <4>2. CASE p \in DOMAIN idx.childrenOf
        <5>1. Hierarchy!Listed(new, p) = Hierarchy!Without(idx.childrenOf[p], id)
          BY <2>5, <2>6, <3>3, <4>2 DEF Hierarchy!Listed, Hierarchy!Unlinked
        <5>2. PICK s, K, M : s = idx.childrenOf[p] /\ K = Kids(idx, p) /\ M = K \ {id}
          OBVIOUS
        <5>3. Lists(s, K)
          BY <3>1, <4>2, <5>2 DEF Hierarchy!Listed
        <5>4. Lists(Hierarchy!Without(s, id), M)
          BY <5>2, <5>3, WithoutRight
        <5>5. QED
          BY <4>1, <5>1, <5>2, <5>4
      <4>3. CASE p \notin DOMAIN idx.childrenOf
        <5>1. Hierarchy!Listed(new, p) = Hierarchy!Listed(idx, p) /\ Hierarchy!Listed(idx, p) = <<>>
          BY <2>5, <4>3 DEF Hierarchy!Listed
        <5>2. Kids(idx, p) = {}
          BY <3>1, <5>1 DEF Lists
        <5>3. QED
          BY <3>1, <4>1, <5>1, <5>2
      <4>4. QED
        BY <4>2, <4>3
    <3>4. CASE p # id /\ p # parent
      <4>1. Kids(new, p) = Kids(idx, p)
        BY <2>1, <2>6, <2>7, <3>4 DEF Kids
      <4>2. Hierarchy!Listed(new, p) = Hierarchy!Listed(idx, p)
        BY <2>5, <2>6, <3>4 DEF Hierarchy!Listed, Hierarchy!Unlinked
      <4>3. QED
        BY <3>1, <4>1, <4>2
    <3>5. QED
      BY <3>2, <3>3, <3>4
  <2>9. DOMAIN new.parentOf = DOMAIN new.chunks \ Kids(new, Root)
    BY <2>3, <2>4, <2>7 DEF LinksOK
  <2>10. \A k \in DOMAIN new.parentOf : new.parentOf[k] = new.chunks[k].parent
    <3> SUFFICES ASSUME NEW k \in DOMAIN new.parentOf PROVE new.parentOf[k] = new.chunks[k].parent
      OBVIOUS
    <3>1. k \in DOMAIN idx.parentOf /\ new.parentOf[k] = idx.parentOf[k] /\ k \in DOMAIN new.chunks
      BY <2>4, <2>9
    <3>2. QED
      BY <2>3, <3>1 DEF LinksOK
  <2>11. DOMAIN new.chunks \subseteq ChunkId
         /\ \A k \in DOMAIN new.chunks : new.chunks[k].parent \in (ChunkId \cup {Root}) \ {k}
    BY <2>3 DEF LinksOK
  <2>12. QED
    BY <2>8, <2>9, <2>10, <2>11 DEF LinksOK
<1>3. QED
  BY <1>1, <1>2

LEMMA HInit == Hierarchy!Init => HInv
<1> SUFFICES ASSUME Hierarchy!Init PROVE LinksOK(index) /\ to_delete \subseteq ChunkId
  BY DEF HInv
<1>1. DOMAIN index.chunks = {} /\ DOMAIN index.parentOf = {} /\ DOMAIN index.childrenOf = {}
  BY DEF Hierarchy!Init, Hierarchy!Empty
<1>2. \A p : Kids(index, p) = {} /\ Hierarchy!Listed(index, p) = <<>>
  BY <1>1 DEF Kids, Hierarchy!Listed
<1>3. Lists(<<>>, {})
  BY DEF Lists
<1>4. QED
  BY <1>1, <1>2, <1>3 DEF LinksOK, Hierarchy!Init

LEMMA HNext == HInv /\ [Hierarchy!Next]_Hierarchy!vars => HInv'
<1> SUFFICES ASSUME HInv, [Hierarchy!Next]_Hierarchy!vars, ~readded'
             PROVE  LinksOK(index') /\ to_delete' \subseteq ChunkId
  BY DEF HInv, LinksOK, Kids, Lists, Hierarchy!Listed
<1>1. ~readded
  BY DEF Hierarchy!Next, Hierarchy!AddChunk, Hierarchy!DeleteChunk, Hierarchy!DeleteByReference,
         Hierarchy!DeleteNext, Hierarchy!Clear, Hierarchy!vars
<1>2. LinksOK(index) /\ to_delete \subseteq ChunkId
  BY <1>1 DEF HInv
<1>3. ASSUME NEW id \in ChunkId, NEW parent \in ChunkId \cup {Root}, NEW reference \in References,
             Hierarchy!AddChunk(id, parent, reference)
      PROVE  LinksOK(index') /\ to_delete' \subseteq ChunkId
  <2>1. /\ parent # id /\ index' = Hierarchy!Linked(index, id, parent, reference)
        /\ id \notin DOMAIN index.chunks /\ to_delete' = to_delete
    BY <1>3 DEF Hierarchy!AddChunk, Hierarchy!Ids
  <2>2. PICK idx, new : idx = index /\ new = index'
    OBVIOUS
  <2>3. LinksOK(new)
    BY <1>2, <2>1, <2>2, LinkedKeeps
  <2>4. QED
    BY <1>2, <2>1, <2>2, <2>3
<1>4. ASSUME NEW id \in ChunkId, index' = Hierarchy!Deleted(index, id), to_delete' \subseteq to_delete
      PROVE  LinksOK(index') /\ to_delete' \subseteq ChunkId
  <2>1. PICK idx, new : idx = index /\ new = index'
    OBVIOUS
  <2>2. LinksOK(new)
    BY <1>2, <1>4, <2>1, DeletedKeeps
  <2>3. QED
    BY <1>2, <1>4, <2>1, <2>2
<1>5. ASSUME NEW id \in ChunkId, Hierarchy!DeleteChunk(id)
      PROVE  LinksOK(index') /\ to_delete' \subseteq ChunkId
  BY <1>4, <1>5 DEF Hierarchy!DeleteChunk
<1>6. ASSUME NEW reference \in References, Hierarchy!DeleteByReference(reference)
      PROVE  LinksOK(index') /\ to_delete' \subseteq ChunkId
  BY <1>2, <1>6 DEF Hierarchy!DeleteByReference, Hierarchy!Ids, LinksOK
<1>7. ASSUME Hierarchy!DeleteNext
      PROVE  LinksOK(index') /\ to_delete' \subseteq ChunkId
  <2>1. PICK id \in to_delete : index' = Hierarchy!Deleted(index, id) /\ to_delete' = to_delete \ {id}
    BY <1>7 DEF Hierarchy!DeleteNext
  <2>2. id \in ChunkId /\ to_delete' \subseteq to_delete
    BY <1>2, <2>1
  <2>3. QED
    BY <1>4, <2>1, <2>2
<1>8. ASSUME Hierarchy!Clear
      PROVE  LinksOK(index') /\ to_delete' \subseteq ChunkId
  <2>1. index' = Hierarchy!Empty /\ to_delete' = to_delete
    BY <1>8 DEF Hierarchy!Clear
  <2>2. PICK new : new = index'
    OBVIOUS
  <2>3. DOMAIN new.chunks = {} /\ DOMAIN new.parentOf = {} /\ DOMAIN new.childrenOf = {}
    BY <2>1, <2>2 DEF Hierarchy!Empty
  <2>4. \A p : Kids(new, p) = {} /\ Hierarchy!Listed(new, p) = <<>>
    BY <2>3 DEF Kids, Hierarchy!Listed
  <2>5. Lists(<<>>, {})
    BY DEF Lists
  <2>6. LinksOK(new)
    BY <2>3, <2>4, <2>5 DEF LinksOK
  <2>7. QED
    BY <1>2, <2>1, <2>2, <2>6
<1>9. CASE UNCHANGED Hierarchy!vars
  BY <1>2, <1>9 DEF Hierarchy!vars
<1>10. QED
  BY <1>3, <1>5, <1>6, <1>7, <1>8, <1>9 DEF Hierarchy!Next

LEMMA HRight == HInv => LinksAgree
<1> SUFFICES ASSUME HInv, ~readded PROVE Hierarchy!LinksAgree
  BY DEF LinksAgree, Hierarchy!LinksAgree
<1>1. LinksOK(index)
  BY DEF HInv
<1>2. DOMAIN index.parentOf \subseteq Hierarchy!Ids(index)
  BY <1>1 DEF LinksOK, Hierarchy!Ids
<1>3. ASSUME NEW id \in Hierarchy!Ids(index), NEW parent \in ChunkId
      PROVE  LET places == {k \in DOMAIN Hierarchy!Listed(index, parent) : Hierarchy!Listed(index, parent)[k] = id}
                 named == index.chunks[id].parent IN
             /\ named = parent <=> (id \in DOMAIN index.parentOf /\ index.parentOf[id] = parent)
             /\ named = parent => \E k \in places : places = {k}
             /\ named # parent => places = {}
  <2>1. PICK s, K : s = Hierarchy!Listed(index, parent) /\ K = Kids(index, parent) /\ Lists(s, K)
    BY <1>1 DEF LinksOK
  <2>2. id \in DOMAIN index.chunks /\ parent # Root
    BY <1>3, RootIsNoChunk DEF Hierarchy!Ids
  <2>3. id \in K <=> index.chunks[id].parent = parent
    BY <2>1, <2>2 DEF Kids
  <2>4. index.chunks[id].parent = parent <=> (id \in DOMAIN index.parentOf /\ index.parentOf[id] = parent)
    BY <1>1, <2>2 DEF LinksOK, Kids
  <2>5. PICK places : places = {k \in DOMAIN s : s[k] = id}
    OBVIOUS
  <2>6. id \in K => \E k \in places : places = {k}
    BY <2>1, <2>5 DEF Lists
  <2>7. id \notin K => places = {}
    BY <2>1, <2>5 DEF Lists
  <2>8. QED
    BY <2>1, <2>3, <2>4, <2>5, <2>6, <2>7
<1>4. QED
  BY <1>2, <1>3 DEF Hierarchy!LinksAgree

(* While no chunk has been added again, each chunk is in the list of its
   parent once and of no other, parent_of says who that is, the roots are
   the chunks without a parent, and what a deletion takes out is in none of
   them, also between the deletions of one reference
   (rag/indexing/hierarchical.py:33-71, 185-251). *)
THEOREM Links == Hierarchy!Spec => []LinksAgree
  BY HInit, HNext, HRight, PTL DEF Hierarchy!Spec

-----------------------------------------------------------------------------
(* The response validator and its client. *)

VMessage == [role : {"user", "assistant"}, id : Nat]
VOutcome == Validator!Verdicts \cup {"raised"}
VAttempt == [response : Nat, outcome : VOutcome]
VPrompt == [rejected : Nat, reason : VOutcome]
VStage == {"idle", "sent", "raised", "replied"}
VAnswer == Validator!Verdicts \cup {"none", "response"}

VCallType == [stage : VStage, attempt : Nat, sent : Seq(VMessage), answer : VAnswer]
VClientType == said \in Seq(VMessage) /\ made \in Nat /\ call \in VCallType

VTypeInv ==
    /\ VClientType
    /\ pc \in {"start", "judging", "executing", "returned"}
    /\ plan \in [retries : Nat, executor : {"none", "client", "other"}]
    /\ attempt \in Nat /\ best \in Nat /\ newest \in Nat
    /\ prompts \in Seq(VPrompt) /\ judged \in Seq(VAttempt)

(* The client: what calls up to n said follows each other, and a request that
   is under way carries all of it. *)
OrderlyPair(x, y, j, k, n) ==
    /\ x.id \in 1..n
    /\ j < k /\ x.id = y.id => k = j + 1 /\ x.role = "user" /\ y.role = "assistant"
    /\ j < k => x.id <= y.id

Orderly(messages, n) ==
    \A j, k \in DOMAIN messages : OrderlyPair(messages[j], messages[k], j, k, n)

VClientInv ==
    /\ Orderly(said, made)
    /\ Validator!InFlight => made > 0 /\ Validator!RequestWhole

(* The loop: where it stands, and what has come of the attempts so far. *)
VControlInv ==
    /\ pc \in {"start", "returned"} => call.stage = "idle"
    /\ pc = "judging" => /\ call.stage # "idle"
                         /\ call.stage = "replied" => call.answer \in Validator!Verdicts
    /\ pc = "executing" => (call.stage = "idle" <=> plan.executor # "client")

VAttemptInv ==
    /\ pc \in {"start", "judging"} => Len(judged) = attempt - 1 /\ attempt <= plan.retries + 1
    /\ pc = "executing" => Len(judged) = attempt /\ attempt <= plan.retries
    /\ pc # "returned" => best = newest /\ \A k \in DOMAIN judged : ~Validator!Accepts(judged[k].outcome)

(* The prompts: each of an attempt that rejected its response. *)
Prompted(p, a) ==
    /\ Validator!Rejects(a.outcome)
    /\ p = [rejected |-> a.response, reason |-> a.outcome]

VPromptInv ==
    /\ \A k \in DOMAIN prompts : \E j \in DOMAIN judged : Prompted(prompts[k], judged[j])
    /\ pc = "executing" => /\ prompts # <<>>
                           /\ Prompted(prompts[Len(prompts)], judged[Len(judged)])

VResultInv ==
    pc = "returned" =>
      /\ Len(judged) = attempt /\ result.attempts = attempt /\ attempt <= plan.retries + 1
      /\ \A k \in 1..(attempt - 1) : ~Validator!Accepts(judged[k].outcome)
      /\ judged[attempt].response = newest
      /\ result.passed = "yes" <=> Validator!Accepts(judged[attempt].outcome)
      /\ result.passed = "no" <=> Validator!Rejects(judged[attempt].outcome)
      /\ result.passed # "yes" => attempt = plan.retries + 1 /\ result.critique = judged[attempt].outcome

VInv == VTypeInv /\ VClientInv /\ VControlInv /\ VAttemptInv /\ VPromptInv /\ VResultInv

LEMMA VRight == VInv => JudgedRight
<1> SUFFICES ASSUME VInv PROVE JudgedRight
  OBVIOUS
<1> USE DEF VInv, VTypeInv
<1>0. DOMAIN judged = 1..Len(judged) /\ Len(judged) \in Nat /\ attempt \in Nat /\ plan.retries \in Nat
  OBVIOUS
<1>1. Len(judged) <= plan.retries + 1
  <2>1. PICK r \in Nat, a \in Nat, n \in Nat : r = plan.retries /\ a = attempt /\ n = Len(judged)
    BY <1>0
  <2>2. (n = a - 1 /\ a <= r + 1) \/ (n = a /\ a <= r) \/ (n = a /\ a <= r + 1)
    BY <2>1 DEF VAttemptInv, VResultInv
  <2>3. n <= r + 1
    BY <2>2
  <2>4. QED
    BY <2>1, <2>3
<1>2. \A k \in DOMAIN judged : Validator!Accepts(judged[k].outcome) => k = Len(judged)
  <2>1. CASE pc # "returned"
    BY <2>1 DEF VAttemptInv
  <2>2. CASE pc = "returned"
    <3>1. Len(judged) = attempt
      BY <2>2 DEF VResultInv
    <3>2. \A k \in 1..(attempt - 1) : ~Validator!Accepts(judged[k].outcome)
      BY <2>2 DEF VResultInv
    <3>3. \A k \in DOMAIN judged : k # Len(judged) => k \in 1..(attempt - 1)
      BY <1>0, <3>1
    <3>4. QED
      BY <3>2, <3>3
  <2>3. QED
    BY <2>1, <2>2
<1>3. pc = "judging" => best = newest
  BY DEF VAttemptInv
<1>4. ASSUME NEW k \in DOMAIN prompts
      PROVE \E j \in DOMAIN judged :
             /\ Validator!Rejects(judged[j].outcome)
             /\ prompts[k] = [rejected |-> judged[j].response, reason |-> judged[j].outcome]
             /\ k = Len(prompts) /\ pc = "executing" => j = Len(judged)
  <2>1. CASE k = Len(prompts) /\ pc = "executing"
    BY <1>0, <2>1 DEF VPromptInv, Prompted, VAttemptInv
  <2>2. CASE ~(k = Len(prompts) /\ pc = "executing")
    BY <1>4, <2>2 DEF VPromptInv, Prompted
  <2>3. QED
    BY <2>1, <2>2
<1>5. pc = "returned" =>
          LET last == judged[Len(judged)] IN
          /\ result.attempts = Len(judged)
          /\ result.passed = "yes" <=> Validator!Accepts(last.outcome)
          /\ result.passed = "no" <=> Validator!Rejects(last.outcome)
          /\ result.passed # "yes" => result.attempts = plan.retries + 1 /\ result.critique = last.outcome
          /\ last.response = newest
  BY DEF VResultInv
<1>6. QED
  <2>1. Validator!HistoryInOrder
    BY DEF VClientInv, Orderly, OrderlyPair, Validator!HistoryInOrder
  <2>2. Validator!RequestWhole
    BY DEF VClientInv, Validator!RequestWhole
  <2>3. QED
    BY <1>1, <1>2, <1>3, <1>4, <1>5, <2>1, <2>2 DEF JudgedRight, Validator!JudgedRight
-----------------------------------------------------------------------------
(* The client of the validator. *)

LEMMA OrderlyMore ==
    ASSUME NEW s \in Seq(VMessage), NEW n \in Nat, Orderly(s, n)
    PROVE  Orderly(s, n + 1)
  BY DEF Orderly, OrderlyPair, VMessage

LEMMA OrderlyPrompt ==
    ASSUME NEW s \in Seq(VMessage), NEW n \in Nat, n > 0, Orderly(s, n),
           \A k \in DOMAIN s : s[k].id < n,
           NEW m, m = [role |-> "user", id |-> n], NEW r, r = Append(s, m)
    PROVE  Orderly(r, n) /\ r \in Seq(VMessage)
<1>1. m \in VMessage
  BY DEF VMessage
<1>2. r \in Seq(VMessage)
  BY <1>1
<1>3. DOMAIN r = 1..(Len(s) + 1) /\ DOMAIN s = 1..Len(s) /\ Len(s) \in Nat
  BY <1>1
<1>4. \A k \in DOMAIN s : r[k] = s[k]
  BY <1>1, <1>3
<1>5. r[Len(s) + 1] = m
  BY <1>1
<1>6. \A k \in DOMAIN r : k \in DOMAIN s \/ k = Len(s) + 1
  BY <1>3
<1>7. Orderly(r, n)
  <2> SUFFICES ASSUME NEW j \in DOMAIN r, NEW k \in DOMAIN r
                      PROVE  OrderlyPair(r[j], r[k], j, k, n)
    BY DEF Orderly
  <2>1. CASE j \in DOMAIN s /\ k \in DOMAIN s
    BY <2>1, <1>4 DEF Orderly
  <2>2. CASE j \in DOMAIN s /\ k = Len(s) + 1
    <3>1. r[j] = s[j] /\ s[j].id \in 1..n /\ s[j].id < n
      BY <2>2, <1>4 DEF Orderly, OrderlyPair
    <3>2. r[k].id = n
      BY <2>2, <1>5
    <3>3. r[j].id # r[k].id /\ r[j].id <= r[k].id
      BY <3>1, <3>2
    <3>4. QED
      BY <3>1, <3>3 DEF OrderlyPair
  <2>3. CASE j = Len(s) + 1
    <3>1. ~(j < k)
      BY <2>3, <1>3
    <3>2. r[j].id = n
      BY <2>3, <1>5
    <3>3. QED
      BY <3>1, <3>2 DEF OrderlyPair
  <2>4. QED
    BY <2>1, <2>2, <2>3, <1>6
<1>8. QED
  BY <1>2, <1>7

LEMMA OrderlyAnswer ==
    ASSUME NEW s \in Seq(VMessage), NEW n \in Nat, n > 0, Orderly(s, n),
           \A k \in DOMAIN s : s[k].id < n,
           NEW m, m = [role |-> "user", id |-> n], NEW a, a = [role |-> "assistant", id |-> n],
           NEW r, r = s \o << m, a >>
    PROVE  Orderly(r, n) /\ r \in Seq(VMessage)
<1>1. m \in VMessage /\ a \in VMessage
  BY DEF VMessage
<1>2. PICK p : p = Append(s, m)
  OBVIOUS
<1>3. Orderly(p, n) /\ p \in Seq(VMessage)
  BY <1>2, OrderlyPrompt
<1>4. Len(p) = Len(s) + 1 /\ Len(s) \in Nat /\ p[Len(s) + 1] = m /\ \A k \in 1..Len(s) : p[k] = s[k]
  BY <1>1, <1>2
<1>5. r \in Seq(VMessage)
  BY <1>1
<1>6. Len(r) = Len(s) + 2 /\ DOMAIN r = 1..(Len(s) + 2) /\ DOMAIN p = 1..(Len(s) + 1)
  BY <1>1, <1>3, <1>4
<1>7. \A k \in DOMAIN p : r[k] = p[k]
  BY <1>1, <1>4, <1>6
<1>8. r[Len(s) + 2] = a
  BY <1>1
<1>9. \A k \in DOMAIN r : k \in DOMAIN p \/ k = Len(s) + 2
  BY <1>4, <1>6
<1>10. Orderly(r, n)
  <2> SUFFICES ASSUME NEW j \in DOMAIN r, NEW k \in DOMAIN r
                      PROVE  OrderlyPair(r[j], r[k], j, k, n)
    BY DEF Orderly
  <2>1. CASE j \in DOMAIN p /\ k \in DOMAIN p
    <3>1. r[j] = p[j] /\ r[k] = p[k]
      BY <2>1, <1>7
    <3>2. QED
      BY <2>1, <3>1, <1>3 DEF Orderly
  <2>2. CASE j = Len(s) + 1 /\ k = Len(s) + 2
    <3>1. r[j] = m
      BY <2>2, <1>4, <1>6, <1>7
    <3>2. r[k] = a
      BY <2>2, <1>8
    <3>3. QED
      BY <2>2, <3>1, <3>2, <1>4 DEF OrderlyPair
  <2>3. CASE j \in 1..Len(s) /\ k = Len(s) + 2
    <3>1. r[j] = s[j] /\ s[j].id \in 1..n /\ s[j].id < n
      BY <2>3, <1>4, <1>6, <1>7 DEF Orderly, OrderlyPair
    <3>2. r[k].id = n
      BY <2>3, <1>8
    <3>3. r[j].id # r[k].id /\ r[j].id <= r[k].id
      BY <3>1, <3>2
    <3>4. QED
      BY <3>1, <3>3 DEF OrderlyPair
  <2>4. CASE j = Len(s) + 2
    <3>1. ~(j < k)
      BY <2>4, <1>4, <1>6
    <3>2. r[j].id = n
      BY <2>4, <1>8
    <3>3. QED
      BY <3>1, <3>2 DEF OrderlyPair
  <2>5. j \in 1..Len(s) \/ j = Len(s) + 1 \/ j = Len(s) + 2
    BY <1>4, <1>6
  <2>6. QED
    BY <2>1, <2>2, <2>3, <2>4, <2>5, <1>4, <1>6, <1>9
<1>11. QED
  BY <1>5, <1>10

(* A request that is begun, when none is under way. *)
LEMMA AskKeeps ==
    ASSUME VClientType, VClientInv, ~Validator!InFlight, Validator!Ask
    PROVE  VClientType' /\ VClientInv' /\ call'.stage = "sent"
<1> USE DEF VClientType, VClientInv
<1>1. made' = made + 1 /\ said' = said /\ made' \in Nat /\ made' > 0
  BY DEF Validator!Ask
<1>2. PICK m : m = [role |-> "user", id |-> made + 1]
  OBVIOUS
<1>3. m \in VMessage /\ Append(said, m) \in Seq(VMessage)
  BY <1>2 DEF VMessage
<1>4. call' = [stage |-> "sent", attempt |-> 1, answer |-> "none", sent |-> Append(said, m)]
  BY <1>2 DEF Validator!Ask
<1>5. VClientType'
  BY <1>1, <1>3, <1>4 DEF VCallType, VStage, VAnswer
<1>6. Orderly(said, made + 1)
  BY OrderlyMore
<1>7. Orderly(said, made)'
  BY <1>1, <1>6
<1>8. call'.sent = Validator!Request'
  BY <1>1, <1>2, <1>4 DEF Validator!Request, Validator!Message
<1>9. \A k \in DOMAIN said : said[k].id < made + 1
  BY DEF Orderly, OrderlyPair
<1>10. Validator!RequestWhole'
  BY <1>1, <1>8, <1>9 DEF Validator!RequestWhole
<1>11. QED
  BY <1>1, <1>4, <1>5, <1>7, <1>10

(* A call that fails, or is tried again. *)
LEMMA FailsKeeps ==
    ASSUME VClientType, VClientInv, Validator!Fails
    PROVE  /\ VClientType' /\ VClientInv'
           /\ call'.stage \in {"sent", "raised"} /\ call'.answer = call.answer
<1> USE DEF VClientType, VClientInv
<1>1. Validator!InFlight /\ said' = said /\ made' = made
  BY DEF Validator!Fails
<1>2. Validator!Request \in Seq(VMessage)
  BY DEF Validator!Request, Validator!Message, VMessage
<1>3. call.sent = Validator!Request
  BY <1>1 DEF Validator!RequestWhole
<1>4. \/ call' = [call EXCEPT !.attempt = call.attempt + 1, !.sent = Validator!Request]
      \/ call' = [call EXCEPT !.stage = "raised"]
  BY DEF Validator!Fails
<1>5. VClientType'
  <2>1. call' \in VCallType
    <3>1. CASE call' = [call EXCEPT !.attempt = call.attempt + 1, !.sent = Validator!Request]
      <4>1. PICK r \in Seq(VMessage), n \in Nat : r = Validator!Request /\ n = call.attempt + 1
        <5>1. call.attempt \in Nat
          BY DEF VCallType
        <5>2. QED
          BY <5>1, <1>2
      <4>2. call' = [call EXCEPT !.attempt = n, !.sent = r]
        BY <3>1, <4>1
      <4>3. QED
        BY <4>2 DEF VCallType
    <3>2. CASE call' = [call EXCEPT !.stage = "raised"]
      BY <3>2 DEF VCallType, VStage
    <3>3. QED
      BY <1>4, <3>1, <3>2
  <2>2. QED
    BY <1>1, <2>1
<1>6. call'.sent = call.sent /\ call'.stage \in {"sent", "raised"} /\ call'.answer = call.answer
  BY <1>1, <1>3, <1>4 DEF VCallType, Validator!InFlight
<1>7. Validator!RequestWhole' /\ made' > 0
  BY <1>1, <1>3, <1>6 DEF Validator!RequestWhole, Validator!Request, Validator!Message
<1>8. QED
  BY <1>1, <1>5, <1>6, <1>7

(* What may follow the request, as it is recorded: the prompt alone, or the
   prompt and an answer. *)
LEMMA AnswersKeeps ==
    ASSUME VClientType, VClientInv, NEW text \in VAnswer, Validator!Answers(text)
    PROVE  VClientType' /\ VClientInv' /\ call'.stage = "replied" /\ call'.answer = text
<1> USE DEF VClientType, VClientInv
<1>1. Validator!InFlight /\ made' = made /\ made > 0 /\ \A k \in DOMAIN said : said[k].id < made
  BY DEF Validator!Answers, Validator!RequestWhole
<1>2. PICK m, a, r : /\ m = [role |-> "user", id |-> made] /\ a = [role |-> "assistant", id |-> made]
                     /\ r = said \o << m, a >>
  OBVIOUS
<1>3. said' = r
  BY <1>2 DEF Validator!Answers, Validator!Message
<1>4. Orderly(r, made) /\ r \in Seq(VMessage)
  BY <1>1, <1>2, OrderlyAnswer
<1>5. call' = [call EXCEPT !.stage = "replied", !.answer = text]
  BY DEF Validator!Answers
<1>6. call' \in VCallType /\ call'.stage = "replied" /\ call'.answer = text
  BY <1>5 DEF VCallType, VStage
<1>7. QED
  BY <1>1, <1>3, <1>4, <1>6 DEF Validator!InFlight

LEMMA UnusableKeeps ==
    ASSUME VClientType, VClientInv, Validator!AnswersUnusably
    PROVE  VClientType' /\ VClientInv' /\ call'.stage = "raised"
<1> USE DEF VClientType, VClientInv
<1>1. Validator!InFlight /\ made' = made /\ made > 0 /\ \A k \in DOMAIN said : said[k].id < made
  BY DEF Validator!AnswersUnusably, Validator!RequestWhole
<1>2. PICK m, r : m = [role |-> "user", id |-> made] /\ r = Append(said, m)
  OBVIOUS
<1>3. said' = r
  BY <1>2 DEF Validator!AnswersUnusably, Validator!Message
<1>4. Orderly(r, made) /\ r \in Seq(VMessage)
  BY <1>1, <1>2, OrderlyPrompt
<1>5. call' = [call EXCEPT !.stage = "raised"]
  BY DEF Validator!AnswersUnusably
<1>6. call' \in VCallType /\ call'.stage = "raised"
  BY <1>5 DEF VCallType, VStage
<1>7. QED
  BY <1>1, <1>3, <1>4, <1>6 DEF Validator!InFlight

LEMMA ForgetKeeps ==
    ASSUME VClientType, VClientInv, Validator!Forget
    PROVE  VClientType' /\ VClientInv' /\ call'.stage = "idle"
  BY DEF VClientType, VClientInv, Validator!Forget, Validator!NoCall, Validator!InFlight, VCallType, VStage, VAnswer
-----------------------------------------------------------------------------
(* The loop of the validator. *)

LoopVars == << pc, plan, attempt, best, newest, critique, prompts, judged, result >>

LEMMA VInit == Validator!Init /\ MaxRetries \in Nat => VInv
<1> SUFFICES ASSUME Validator!Init, MaxRetries \in Nat PROVE VInv
  OBVIOUS
<1> USE DEF Validator!Init, Validator!ClientInit, Validator!NoCall
<1>1. VTypeInv
  BY DEF VTypeInv, VClientType, VCallType, VStage, VAnswer
<1>2. VClientInv
  BY DEF VClientInv, Orderly, Validator!InFlight
<1>3. VControlInv /\ VAttemptInv /\ VPromptInv /\ VResultInv
  BY DEF VControlInv, VAttemptInv, VPromptInv, VResultInv
<1>4. QED
  BY <1>1, <1>2, <1>3 DEF VInv

LEMMA VJudge == VInv /\ Validator!Judge => VInv'
<1> SUFFICES ASSUME VInv, Validator!Judge PROVE VInv'
  OBVIOUS
<1>1. pc = "start" /\ pc' = "judging" /\ Validator!Ask
      /\ plan' = plan /\ attempt' = attempt /\ best' = best /\ newest' = newest
      /\ prompts' = prompts /\ judged' = judged
  BY DEF Validator!Judge
<1>2. ~Validator!InFlight
  BY <1>1 DEF VInv, VControlInv, Validator!InFlight
<1>3. VClientType' /\ VClientInv' /\ call'.stage = "sent"
  BY <1>1, <1>2, AskKeeps DEF VInv, VTypeInv
<1>4. VTypeInv'
  BY <1>1, <1>3 DEF VInv, VTypeInv
<1>5. VControlInv'
  BY <1>1, <1>3 DEF VControlInv
<1>6. VAttemptInv'
  BY <1>1 DEF VInv, VAttemptInv
<1>7. VPromptInv' /\ VResultInv'
  BY <1>1 DEF VInv, VPromptInv, VResultInv, Prompted
<1>8. QED
  BY <1>3, <1>4, <1>5, <1>6, <1>7 DEF VInv

LEMMA VClient == VInv /\ Validator!Client => VInv'
<1> SUFFICES ASSUME VInv, Validator!Client PROVE VInv'
  OBVIOUS
<1>1. UNCHANGED LoopVars
  BY DEF Validator!Client, LoopVars
<1>2. PICK text \in VAnswer :
         \/ Validator!Fails
         \/ Validator!AnswersUnusably
         \/ Validator!Answers(text) /\ pc = "judging" /\ text \in Validator!Verdicts
         \/ Validator!Answers(text) /\ pc = "executing"
  BY DEF Validator!Client, VAnswer
<1>3. Validator!InFlight
  BY <1>2 DEF Validator!Fails, Validator!AnswersUnusably, Validator!Answers
<1>4. VClientType' /\ VClientInv' /\ call'.stage \in {"sent", "raised", "replied"}
  BY <1>2, FailsKeeps, UnusableKeeps, AnswersKeeps DEF VInv, VTypeInv
<1>5. VControlInv'
  <2>1. pc \in {"judging", "executing"}
    BY <1>3 DEF VInv, VTypeInv, VControlInv, Validator!InFlight
  <2>2. pc = "judging" => (call'.stage = "replied" => call'.answer \in Validator!Verdicts)
    BY <1>2, FailsKeeps, UnusableKeeps, AnswersKeeps DEF VInv, VTypeInv
  <2>3. pc = "executing" => plan.executor = "client"
    BY <1>3 DEF VInv, VControlInv, Validator!InFlight
  <2>4. QED
    BY <1>1, <1>4, <2>1, <2>2, <2>3 DEF VControlInv, LoopVars
<1>6. VTypeInv' /\ VAttemptInv' /\ VPromptInv' /\ VResultInv'
  BY <1>1, <1>4 DEF VInv, VTypeInv, VAttemptInv, VPromptInv, VResultInv, Prompted, LoopVars
<1>7. QED
  BY <1>4, <1>5, <1>6 DEF VInv

(* A judgement is added to those there are, of the newest response. *)
LEMMA Judged ==
    ASSUME NEW s \in Seq(VAttempt), NEW b \in Nat, NEW outcome \in VOutcome,
           NEW v, v = [response |-> b, outcome |-> outcome], NEW r, r = Append(s, v)
    PROVE  /\ r \in Seq(VAttempt) /\ Len(r) = Len(s) + 1 /\ r[Len(r)] = v
           /\ \A k \in DOMAIN s : k \in DOMAIN r /\ r[k] = s[k]
           /\ \A k \in DOMAIN r : k \in DOMAIN s \/ k = Len(r)
  BY DEF VAttempt

(* The judgement of the attempt under way, and what is known of the others. *)
Noted(outcome) ==
    /\ Len(judged') = attempt
    /\ judged'[attempt] = [response |-> newest, outcome |-> outcome]
    /\ \A k \in DOMAIN judged : judged'[k] = judged[k]
    /\ DOMAIN judged' = DOMAIN judged \cup {attempt}
    /\ DOMAIN judged = 1..(attempt - 1)
    /\ \A k \in DOMAIN judged : ~Validator!Accepts(judged[k].outcome)
    /\ judged' \in Seq(VAttempt)

LEMMA NotedIs ==
    ASSUME VInv, pc = "judging", NEW outcome \in VOutcome, Validator!Noted(outcome)
    PROVE  Noted(outcome)
<1>0. judged \in Seq(VAttempt) /\ best \in Nat
  BY DEF VInv, VTypeInv
<1>1. PICK v, r : v = [response |-> best, outcome |-> outcome] /\ r = Append(judged, v)
  OBVIOUS
<1>2. judged' = r
  BY <1>1 DEF Validator!Noted
<1>3. /\ r \in Seq(VAttempt) /\ Len(r) = Len(judged) + 1 /\ r[Len(r)] = v
      /\ \A k \in DOMAIN judged : k \in DOMAIN r /\ r[k] = judged[k]
      /\ \A k \in DOMAIN r : k \in DOMAIN judged \/ k = Len(r)
  BY <1>0, <1>1, Judged
<1>4. Len(judged) = attempt - 1 /\ Len(judged) \in Nat /\ attempt \in Nat /\ best = newest
  BY DEF VInv, VTypeInv, VAttemptInv
<1>5. Len(r) = attempt
  BY <1>3, <1>4
<1>6. DOMAIN r = DOMAIN judged \cup {attempt} /\ DOMAIN judged = 1..(attempt - 1)
  BY <1>3, <1>4, <1>5
<1>7. QED
  BY <1>1, <1>2, <1>3, <1>4, <1>5, <1>6 DEF Noted, VInv, VAttemptInv

(* The prompts stay what they were when another judgement is added. *)
LEMMA PromptsStay ==
    ASSUME VInv, NEW outcome, Noted(outcome), prompts' = prompts
    PROVE  \A k \in DOMAIN prompts : \E j \in DOMAIN judged' : Prompted(prompts[k], judged'[j])
<1> SUFFICES ASSUME NEW k \in DOMAIN prompts PROVE \E j \in DOMAIN judged' : Prompted(prompts[k], judged'[j])
  OBVIOUS
<1>1. PICK j \in DOMAIN judged : Prompted(prompts[k], judged[j])
  BY DEF VInv, VPromptInv
<1>2. judged'[j] = judged[j] /\ j \in DOMAIN judged'
  BY DEF Noted
<1>3. QED
  BY <1>1, <1>2

(* The attempt ends the loop, is followed by another, or by a request for a
   new response. *)
LEMMA ReturnKeeps ==
    ASSUME VInv, pc = "judging", NEW outcome \in VOutcome, Noted(outcome),
           NEW passed, NEW reason, Validator!Return(passed, reason), Validator!Forget, plan' = plan,
           passed = "yes" <=> Validator!Accepts(outcome),
           passed = "no" <=> Validator!Rejects(outcome),
           passed # "yes" => attempt > plan.retries /\ reason = outcome
    PROVE  VInv'
<1>1. /\ pc' = "returned" /\ attempt' = attempt /\ best' = best /\ newest' = newest /\ prompts' = prompts
      /\ result' = [passed |-> passed, attempts |-> attempt, critique |-> reason]
  BY DEF Validator!Return
<1>2. VClientType' /\ VClientInv' /\ call'.stage = "idle"
  BY ForgetKeeps DEF VInv, VTypeInv
<1>3. VTypeInv'
  BY <1>1, <1>2 DEF VInv, VTypeInv, Noted
<1>4. VControlInv' /\ VAttemptInv'
  BY <1>1, <1>2 DEF VControlInv, VAttemptInv
<1>5. VPromptInv'
  BY <1>1, PromptsStay DEF VPromptInv
<1>6. VResultInv'
  <2>1. PICK n \in Nat, r \in Nat : n = attempt /\ r = plan.retries /\ n <= r + 1
    BY DEF VInv, VTypeInv, VAttemptInv
  <2>2. Len(judged') = n /\ result'.attempts = n /\ attempt' = n /\ plan'.retries = r
    BY <1>1, <2>1 DEF Noted
  <2>3. \A k \in 1..(n - 1) : ~Validator!Accepts(judged'[k].outcome)
    BY <2>1 DEF Noted
  <2>4. judged'[n] = [response |-> newest, outcome |-> outcome]
    BY <2>1 DEF Noted
  <2>5. passed # "yes" => n = r + 1
    BY <2>1
  <2>6. result'.passed = passed /\ result'.critique = reason /\ newest' = newest
    BY <1>1
  <2>7. /\ Len(judged') = attempt' /\ result'.attempts = attempt' /\ attempt' <= plan'.retries + 1
        /\ \A k \in 1..(attempt' - 1) : ~Validator!Accepts(judged'[k].outcome)
        /\ judged'[attempt'].response = newest'
        /\ judged'[attempt'].outcome = outcome
    BY <2>1, <2>2, <2>3, <2>4, <2>6
  <2>8. result'.passed # "yes" => attempt' = plan'.retries + 1 /\ result'.critique = judged'[attempt'].outcome
    BY <2>1, <2>2, <2>5, <2>6, <2>7
  <2>9. /\ result'.passed = "yes" <=> Validator!Accepts(judged'[attempt'].outcome)
        /\ result'.passed = "no" <=> Validator!Rejects(judged'[attempt'].outcome)
    BY <2>6, <2>7
  <2>10. QED
    BY <2>7, <2>8, <2>9 DEF VResultInv, Validator!Accepts, Validator!Rejects
<1>7. QED
  BY <1>2, <1>3, <1>4, <1>5, <1>6 DEF VInv

LEMMA RetryKeeps ==
    ASSUME VInv, pc = "judging", NEW outcome \in VOutcome, Noted(outcome), ~Validator!Accepts(outcome),
           ~Validator!Last, Validator!NextAttempt, best' = best, plan' = plan, Validator!Forget
    PROVE  VInv'
<1>1. pc' = "start" /\ attempt' = attempt + 1 /\ newest' = newest /\ prompts' = prompts
  BY DEF Validator!NextAttempt
<1>2. VClientType' /\ VClientInv' /\ call'.stage = "idle"
  BY ForgetKeeps DEF VInv, VTypeInv
<1>3. VTypeInv'
  BY <1>1, <1>2 DEF VInv, VTypeInv, Noted
<1>4. VControlInv'
  BY <1>1, <1>2 DEF VControlInv
<1>5. VAttemptInv'
  <2>1. PICK n \in Nat, r \in Nat : n = attempt /\ r = plan.retries /\ n <= r
    <3>1. attempt \in Nat /\ plan.retries \in Nat
      BY DEF VInv, VTypeInv
    <3>2. QED
      BY <3>1 DEF Validator!Last
  <2>2. Len(judged') = n /\ attempt' = n + 1 /\ plan'.retries = r
    BY <1>1, <2>1 DEF Noted
  <2>3. Len(judged') = attempt' - 1 /\ attempt' <= plan'.retries + 1
    BY <2>1, <2>2
  <2>4. \A k \in DOMAIN judged' : ~Validator!Accepts(judged'[k].outcome)
    BY DEF Noted
  <2>5. best' = newest'
    BY <1>1 DEF VInv, VAttemptInv
  <2>6. QED
    BY <1>1, <2>3, <2>4, <2>5 DEF VAttemptInv, Validator!Accepts
<1>6. VPromptInv' /\ VResultInv'
  BY <1>1, PromptsStay DEF VPromptInv, VResultInv
<1>7. QED
  BY <1>2, <1>3, <1>4, <1>5, <1>6 DEF VInv

LEMMA ExecuteKeeps ==
    ASSUME VInv, pc = "judging", call.stage = "replied", NEW outcome \in VOutcome, Noted(outcome),
           Validator!Rejects(outcome), ~Validator!Last, Validator!ExecuteAgain(outcome), plan' = plan,
           \/ plan.executor = "other" /\ Validator!Forget
           \/ plan.executor = "client" /\ Validator!Ask
    PROVE  VInv'
<1>1. pc' = "executing" /\ attempt' = attempt /\ best' = best /\ newest' = newest
  BY DEF Validator!ExecuteAgain
<1>2. VClientType' /\ VClientInv' /\ (call'.stage = "idle" <=> plan.executor # "client")
  <2>1. ~Validator!InFlight
    BY DEF Validator!InFlight
  <2>2. CASE Validator!Forget
    BY <2>1, <2>2, ForgetKeeps, AskKeeps DEF VInv, VTypeInv
  <2>3. CASE Validator!Ask
    BY <2>1, <2>3, ForgetKeeps, AskKeeps DEF VInv, VTypeInv
  <2>4. QED
    BY <2>2, <2>3
<1>3. PICK p : p = [rejected |-> newest, reason |-> outcome]
  OBVIOUS
<1>4. p \in VPrompt
  BY <1>3 DEF VInv, VTypeInv, VPrompt
<1>5. prompts' = Append(prompts, p) /\ prompts \in Seq(VPrompt)
  BY <1>3 DEF VInv, VTypeInv, VAttemptInv, Validator!ExecuteAgain
<1>6. VTypeInv'
  BY <1>1, <1>2, <1>4, <1>5 DEF VInv, VTypeInv, Noted
<1>7. VControlInv'
  BY <1>1, <1>2 DEF VControlInv
<1>8. ~Validator!Accepts(outcome)
  BY DEF Validator!Accepts, Validator!Rejects
<1>9. VAttemptInv'
  <2>1. Len(judged') = attempt' /\ attempt' <= plan'.retries /\ best' = newest'
    BY <1>1 DEF Noted, VInv, VTypeInv, VAttemptInv, Validator!Last
  <2>2. \A k \in DOMAIN judged' : ~Validator!Accepts(judged'[k].outcome)
    BY <1>8 DEF Noted
  <2>3. QED
    BY <1>1, <2>1, <2>2 DEF VAttemptInv, Validator!Accepts
<1>10. VPromptInv'
  <2>1. Len(prompts') = Len(prompts) + 1 /\ prompts'[Len(prompts')] = p
        /\ \A k \in DOMAIN prompts : prompts'[k] = prompts[k]
    BY <1>4, <1>5
  <2>2. \A k \in DOMAIN prompts' : k \in DOMAIN prompts \/ k = Len(prompts')
    BY <1>4, <1>5
  <2>3. Prompted(p, judged'[attempt])
    <3>1. PICK a : a = judged'[attempt] /\ a.outcome = outcome /\ a.response = newest
      BY DEF Noted
    <3>2. QED
      BY <1>3, <3>1 DEF Prompted
  <2>4. \A k \in DOMAIN prompts : \E j \in DOMAIN judged' : Prompted(prompts'[k], judged'[j])
    <3> SUFFICES ASSUME NEW k \in DOMAIN prompts
                 PROVE  \E j \in DOMAIN judged' : Prompted(prompts'[k], judged'[j])
      OBVIOUS
    <3>1. PICK j \in DOMAIN judged : Prompted(prompts[k], judged[j])
      BY DEF VInv, VPromptInv
    <3>2. judged'[j] = judged[j] /\ j \in DOMAIN judged' /\ prompts'[k] = prompts[k]
      BY <2>1 DEF Noted
    <3>3. QED
      BY <3>1, <3>2
  <2>5. attempt \in DOMAIN judged' /\ attempt' = Len(judged') /\ attempt' = attempt
    BY <1>1 DEF Noted
  <2>6. QED
    BY <2>1, <2>2, <2>3, <2>4, <2>5 DEF VPromptInv
<1>11. VResultInv'
  BY <1>1 DEF VResultInv
<1>12. QED
  BY <1>2, <1>6, <1>7, <1>9, <1>10, <1>11 DEF VInv

LEMMA VJudgeRaised == VInv /\ Validator!JudgeRaised => VInv'
<1> SUFFICES ASSUME VInv, Validator!JudgeRaised PROVE VInv'
  OBVIOUS
<1>1. /\ pc = "judging" /\ Validator!Noted("raised") /\ Validator!Forget /\ plan' = plan
      /\ \/ Validator!Last /\ Validator!Return("unknown", "raised")
         \/ ~Validator!Last /\ Validator!NextAttempt /\ best' = best
  BY DEF Validator!JudgeRaised
<1>2. "raised" \in VOutcome /\ ~Validator!Accepts("raised") /\ ~Validator!Rejects("raised")
  BY DEF VOutcome, Validator!Accepts, Validator!Rejects
<1>3. Noted("raised")
  BY <1>1, <1>2, NotedIs
<1>4. CASE Validator!Last /\ Validator!Return("unknown", "raised")
  BY <1>1, <1>2, <1>3, <1>4, ReturnKeeps DEF Validator!Last
<1>5. CASE ~Validator!Last /\ Validator!NextAttempt /\ best' = best
  BY <1>1, <1>2, <1>3, <1>5, RetryKeeps
<1>6. QED
  BY <1>1, <1>4, <1>5

LEMMA VAccepted == VInv /\ Validator!Accepted => VInv'
<1> SUFFICES ASSUME VInv, Validator!Accepted PROVE VInv'
  OBVIOUS
<1>1. PICK outcome \in VOutcome : outcome = call.answer
  BY DEF VInv, VControlInv, VOutcome, Validator!Accepted
<1>2. /\ pc = "judging" /\ Validator!Noted(outcome) /\ Validator!Forget /\ plan' = plan
      /\ Validator!Return("yes", Validator!NoReason) /\ Validator!Parse(outcome).passed
  BY <1>1 DEF Validator!Accepted
<1>3. Validator!Accepts(outcome) /\ ~Validator!Rejects(outcome)
  BY <1>2 DEF Validator!Parse, Validator!Accepts, Validator!Rejects
<1>4. Noted(outcome)
  BY <1>2, NotedIs
<1>5. QED
  BY <1>2, <1>3, <1>4, ReturnKeeps

LEMMA VRejected == VInv /\ Validator!Rejected => VInv'
<1> SUFFICES ASSUME VInv, Validator!Rejected PROVE VInv'
  OBVIOUS
<1>1. PICK outcome \in VOutcome : outcome = call.answer /\ outcome \in Validator!Verdicts
  BY DEF VInv, VControlInv, VOutcome, Validator!Rejected
<1>2. /\ pc = "judging" /\ call.stage = "replied" /\ ~Validator!Parse(outcome).passed
      /\ Validator!Noted(outcome) /\ plan' = plan
  BY <1>1 DEF Validator!Rejected
<1>3. Validator!Rejects(outcome) /\ ~Validator!Accepts(outcome) /\ Validator!Parse(outcome).critique = outcome
  BY <1>1, <1>2 DEF Validator!Parse, Validator!Accepts, Validator!Rejects, Validator!Verdicts
<1>4. Noted(outcome)
  BY <1>2, NotedIs
<1>5. \/ Validator!Last /\ Validator!Return("no", outcome) /\ Validator!Forget
      \/ ~Validator!Last /\ Validator!NextAttempt /\ best' = best /\ Validator!Forget
      \/ /\ ~Validator!Last /\ Validator!ExecuteAgain(outcome)
         /\ \/ plan.executor = "other" /\ Validator!Forget
            \/ plan.executor = "client" /\ Validator!Ask
  <2>1. plan.executor \in {"none", "client", "other"}
    BY DEF VInv, VTypeInv
  <2>2. CASE Validator!Last
    BY <1>1, <1>3, <2>1, <2>2 DEF Validator!Rejected
  <2>3. CASE ~Validator!Last /\ plan.executor = "none"
    BY <1>1, <1>3, <2>1, <2>3 DEF Validator!Rejected
  <2>4. CASE ~Validator!Last /\ plan.executor = "other"
    BY <1>1, <1>3, <2>1, <2>4 DEF Validator!Rejected
  <2>5. CASE ~Validator!Last /\ plan.executor = "client"
    BY <1>1, <1>3, <2>1, <2>5 DEF Validator!Rejected
  <2>6. QED
    BY <2>1, <2>2, <2>3, <2>4, <2>5
<1>6. CASE Validator!Last /\ Validator!Return("no", outcome) /\ Validator!Forget
  BY <1>2, <1>3, <1>4, <1>6, ReturnKeeps DEF Validator!Last
<1>7. CASE ~Validator!Last /\ Validator!NextAttempt /\ best' = best /\ Validator!Forget
  BY <1>2, <1>3, <1>4, <1>7, RetryKeeps
<1>8. CASE /\ ~Validator!Last /\ Validator!ExecuteAgain(outcome)
           /\ \/ plan.executor = "other" /\ Validator!Forget
              \/ plan.executor = "client" /\ Validator!Ask
  BY <1>2, <1>3, <1>4, <1>8, ExecuteKeeps
<1>9. QED
  BY <1>5, <1>6, <1>7, <1>8

LEMMA VTakeResponse == VInv /\ Validator!TakeResponse => VInv'
<1> SUFFICES ASSUME VInv, Validator!TakeResponse PROVE VInv'
  OBVIOUS
<1>1. /\ pc = "executing" /\ pc' = "start" /\ attempt' = attempt + 1 /\ Validator!Forget
      /\ plan' = plan /\ prompts' = prompts /\ judged' = judged
  BY DEF Validator!TakeResponse
<1>2. VClientType' /\ VClientInv' /\ call'.stage = "idle"
  BY <1>1, ForgetKeeps DEF VInv, VTypeInv
<1>3. best' = newest' /\ newest' \in Nat
  <2>1. best = newest /\ newest \in Nat
    BY <1>1 DEF VInv, VTypeInv, VAttemptInv
  <2>2. QED
    BY <2>1 DEF Validator!TakeResponse, Validator!Executed
<1>4. VTypeInv'
  BY <1>1, <1>2, <1>3 DEF VInv, VTypeInv
<1>5. VControlInv'
  BY <1>1, <1>2 DEF VControlInv
<1>6. VAttemptInv'
  <2>1. PICK n \in Nat, r \in Nat : n = attempt /\ r = plan.retries /\ n <= r /\ Len(judged) = n
    BY <1>1 DEF VInv, VTypeInv, VAttemptInv
  <2>2. Len(judged') = attempt' - 1 /\ attempt' <= plan'.retries + 1
    BY <1>1, <2>1
  <2>3. \A k \in DOMAIN judged : ~Validator!Accepts(judged[k].outcome)
    BY <1>1 DEF VInv, VAttemptInv
  <2>4. QED
    BY <1>1, <1>3, <2>2, <2>3 DEF VAttemptInv, Validator!Accepts
<1>7. VPromptInv' /\ VResultInv'
  BY <1>1 DEF VInv, VPromptInv, VResultInv, Prompted
<1>8. QED
  BY <1>2, <1>4, <1>5, <1>6, <1>7 DEF VInv

LEMMA VStutter == VInv /\ UNCHANGED Validator!vars => VInv'
<1> SUFFICES ASSUME VInv, UNCHANGED Validator!vars PROVE VInv'
  OBVIOUS
<1>1. UNCHANGED << said, call, made >> /\ UNCHANGED LoopVars
  BY DEF Validator!vars, Validator!clientVars, LoopVars
<1>2. VTypeInv'
  BY <1>1 DEF VInv, VTypeInv, VClientType, LoopVars
<1>3. VClientInv'
  BY <1>1 DEF VInv, VClientInv, Validator!InFlight, Validator!RequestWhole, Validator!Request, Validator!Message
<1>4. VControlInv' /\ VAttemptInv' /\ VPromptInv' /\ VResultInv'
  BY <1>1 DEF VInv, VControlInv, VAttemptInv, VPromptInv, VResultInv, Prompted, LoopVars
<1>5. QED
  BY <1>2, <1>3, <1>4 DEF VInv

(* The verdict returned is that of the attempt whose response is returned,
   after no more than max_retries retries; each retry is prompted by what the
   last judge refused; and the judge's client keeps its history in order,
   whatever calls fail (agent/response_validator.py, FFMistralSmall.py). *)
THEOREM Verdicts == Validator!Spec => []JudgedRight
<1>1. Validator!Init => VInv
  BY VInit, BoundsAreNaturals
<1>2. VInv /\ [Validator!Next]_Validator!vars => VInv'
  BY VJudge, VClient, VJudgeRaised, VAccepted, VRejected, VTakeResponse, VStutter DEF Validator!Next
<1>3. VInv => JudgedRight
  BY VRight
<1>4. QED
  BY <1>1, <1>2, <1>3, PTL DEF Validator!Spec

-----------------------------------------------------------------------------
(* The facade: the clients its parts have, and where each exchange stands. *)
Conversations == [Clients -> Seq(Nat)]

WorkerType ==
    [pc : {"idle", "suspend", "clear", "take", "generate", "restore", "write", "report", "done"},
     kind : {"plain", "declarative", "query"}, asked : Clients, saved : Seq(Nat), new : Seq(Nat),
     seen : Seq(Nat), ok : BOOLEAN, reported : Nat, quiet : BOOLEAN, before : Conversations \cup {<<>>}]

MainType == [pc : {"idle", "add", "facade", "manager", "engine", "adapter"}, client : Clients, copy : Seq(Nat)]

FTypeInv ==
    /\ conv \in Conversations /\ metered \in [Clients -> Nat]
    /\ wired \in [Facades!Part -> Clients]
    /\ worker \in WorkerType /\ main \in MainType
    /\ dealt \in Nat /\ deeds \in Nat /\ told \subseteq Nat

(* set_client: the parts that have the new client so far. *)
SetSoFar ==
    CASE main.pc = "facade" -> {}
      [] main.pc = "manager" -> {"facade"}
      [] main.pc = "engine" -> {"facade", "manager"}
      [] main.pc = "adapter" -> {"facade", "manager", "engine"}
      [] OTHER -> Facades!Part

WiredInv == \A p \in SetSoFar : wired[p] = main.client

(* The number of an exchange is used once. *)
Unsaid == worker.pc \in {"suspend", "clear", "take", "generate"}

FreshInv ==
    /\ told \subseteq (1..dealt) \cup (MaxCalls + 1 .. MaxCalls + deeds)
    /\ dealt <= MaxCalls /\ deeds <= MaxDeeds
    /\ Unsaid => dealt >= 1 /\ dealt \notin told
    /\ main.pc = "add" => deeds >= 1 /\ MaxCalls + deeds \notin told

(* What was told stands in one place: in a conversation, or among what the
   call has saved. *)
Saved ==
    IF worker.kind = "declarative" /\ worker.pc \in {"take", "generate", "restore", "write"}
    THEN worker.saved ELSE <<>>

Within(s, T) == \A k \in DOMAIN s : s[k] \in T
Once(s) == \A j, k \in DOMAIN s : s[j] = s[k] => j = k
Apart(s, t) == \A j \in DOMAIN s, k \in DOMAIN t : s[j] # t[k]
Occurs(m, s) == \E k \in DOMAIN s : s[k] = m

Spread(cv, sv, T) ==
    /\ \A c \in Clients : Within(cv[c], T) /\ Once(cv[c]) /\ Apart(cv[c], sv)
    /\ \A c, d \in Clients : c # d => Apart(cv[c], cv[d])
    /\ Within(sv, T) /\ Once(sv)
    /\ \A m \in T : Occurs(m, sv) \/ \E c \in Clients : Occurs(m, cv[c])

ToldInv == ~torn => Spread(conv, Saved, told)

-----------------------------------------------------------------------------
(* Which stages belong to which kind of call. *)
KindInv ==
    /\ worker.pc \in {"suspend", "clear", "restore", "write"} => worker.kind = "declarative"
    /\ worker.pc = "report" => worker.ok

(* A call that nothing has disturbed: one client is wired in all parts. *)
Alone == main.client

OneMore(cv, c, ok, number) == IF ok THEN [cv EXCEPT ![c] = Append(cv[c], number)] ELSE cv

Outside(cv, c, ok, number) == [cv EXCEPT ![c] = IF ok THEN <<number>> ELSE <<>>]

Behind == IF worker.kind = "declarative" THEN Outside(worker.before, Alone, FALSE, dealt) ELSE worker.before

Held == worker.kind = "declarative" => worker.saved = worker.before[Alone]

Metered == worker.ok => metered[Alone] = dealt

QuietInv ==
    worker.quiet =>
       /\ main.pc = "idle"
       /\ worker.pc # "idle" => worker.before \in Conversations
       /\ worker.pc \in {"suspend", "clear"} => conv = worker.before
       /\ worker.pc \in {"clear", "take", "generate", "restore", "write"} => Held
       /\ worker.pc \in {"take", "generate"} => conv = Behind
       /\ worker.pc \in {"generate", "restore", "write", "report", "done"} => worker.asked = Alone
       /\ worker.pc \in {"restore", "write"} =>
             /\ conv = Outside(worker.before, Alone, worker.ok, dealt)
             /\ worker.seen = <<>> /\ Metered
       /\ worker.pc = "write" => worker.new = conv[Alone]
       /\ worker.pc \in {"report", "done"} =>
             /\ conv = OneMore(worker.before, Alone, worker.ok, dealt)
             /\ worker.seen = IF worker.kind = "declarative" THEN <<>> ELSE worker.before[Alone]
             /\ Metered
       /\ worker.pc = "done" /\ worker.ok => worker.reported = dealt

FInv == FTypeInv /\ WiredInv /\ FreshInv /\ KindInv /\ ToldInv /\ QuietInv

-----------------------------------------------------------------------------
LEMMA ApartBack == ASSUME NEW s, NEW t, Apart(s, t) PROVE Apart(t, s)
  BY DEF Apart

LEMMA SpreadSuspend ==
    ASSUME NEW cv \in Conversations, NEW T, Spread(cv, <<>>, T), NEW c \in Clients,
           NEW r, r = [cv EXCEPT ![c] = <<>>], NEW s, s = cv[c]
    PROVE  Spread(r, s, T)
<1>1. r[c] = <<>> /\ \A d \in Clients : d # c => r[d] = cv[d]
  BY DEF Conversations
<1>2. \A t : Within(<<>>, T) /\ Once(<<>>) /\ Apart(<<>>, t) /\ Apart(t, <<>>)
  BY DEF Within, Once, Apart
<1>3. \A d \in Clients : Within(r[d], T) /\ Once(r[d]) /\ Apart(r[d], s)
  BY <1>1, <1>2 DEF Spread
<1>4. \A d, e \in Clients : d # e => Apart(r[d], r[e])
  BY <1>1, <1>2 DEF Spread
<1>5. Within(s, T) /\ Once(s)
  BY DEF Spread
<1>6. ASSUME NEW m \in T PROVE Occurs(m, s) \/ \E d \in Clients : Occurs(m, r[d])
  <2>1. ~Occurs(m, <<>>)
    BY DEF Occurs
  <2>2. PICK d \in Clients : Occurs(m, cv[d])
    BY <2>1 DEF Spread
  <2>3. QED
    BY <1>1, <2>2
<1>7. QED
  BY <1>3, <1>4, <1>5, <1>6 DEF Spread

(* The places of s and t in their concatenation r. *)
Joined(s, t, r) ==
    /\ \A k \in DOMAIN s : k \in DOMAIN r /\ r[k] = s[k]
    /\ \A k \in DOMAIN t : Len(s) + k \in DOMAIN r /\ r[Len(s) + k] = t[k]
    /\ \A k \in DOMAIN r : k \in DOMAIN s \/ (k - Len(s) \in DOMAIN t /\ k = Len(s) + (k - Len(s)))

LEMMA ConcatIs ==
    ASSUME NEW s \in Seq(Nat), NEW t \in Seq(Nat), NEW r, r = s \o t
    PROVE  Joined(s, t, r)
<1>1. PICK m \in Nat, n \in Nat : m = Len(s) /\ n = Len(t)
  OBVIOUS
<1>2. DOMAIN s = 1..m /\ DOMAIN t = 1..n /\ DOMAIN r = 1..(m + n)
  BY <1>1
<1>3. \A k \in 1..m : k \in 1..(m + n) /\ r[k] = s[k]
  BY <1>1
<1>4. \A k \in 1..n : m + k \in 1..(m + n) /\ r[m + k] = t[k]
  BY <1>1
<1>5. \A k \in 1..(m + n) : k \in 1..m \/ (k - m \in 1..n /\ k = m + (k - m))
  OBVIOUS
<1>6. QED
  BY <1>1, <1>2, <1>3, <1>4, <1>5 DEF Joined

LEMMA SpreadRestore ==
    ASSUME NEW cv \in Conversations, NEW sv \in Seq(Nat), NEW T, Spread(cv, sv, T), NEW c \in Clients,
           NEW r, r = [cv EXCEPT ![c] = sv \o cv[c]]
    PROVE  Spread(r, <<>>, T)
<1>1. PICK t : t = cv[c] /\ t \in Seq(Nat)
  BY DEF Conversations
<1>2. PICK u : u = sv \o t
  OBVIOUS
<1>3. r[c] = u /\ \A d \in Clients : d # c => r[d] = cv[d]
  BY <1>1, <1>2 DEF Conversations
<1>4. /\ \A k \in DOMAIN sv : k \in DOMAIN u /\ u[k] = sv[k]
      /\ \A k \in DOMAIN t : Len(sv) + k \in DOMAIN u /\ u[Len(sv) + k] = t[k]
      /\ \A k \in DOMAIN u : k \in DOMAIN sv \/ (k - Len(sv) \in DOMAIN t /\ k = Len(sv) + (k - Len(sv)))
  <2>1. Joined(sv, t, u)
    BY <1>1, <1>2, ConcatIs
  <2>2. QED
    BY <2>1 DEF Joined
<1>5. /\ Within(t, T) /\ Once(t) /\ Apart(t, sv) /\ Within(sv, T) /\ Once(sv)
      /\ \A d \in Clients : d # c => Apart(t, cv[d]) /\ Apart(cv[d], sv)
  BY <1>1 DEF Spread
<1>6. Within(u, T)
  BY <1>4, <1>5 DEF Within
<1>7. Once(u)
  <2> SUFFICES ASSUME NEW j \in DOMAIN u, NEW k \in DOMAIN u, u[j] = u[k] PROVE j = k
    BY DEF Once
  <2>1. CASE j \in DOMAIN sv /\ k \in DOMAIN sv
    BY <2>1, <1>4, <1>5 DEF Once
  <2>2. CASE j \in DOMAIN sv /\ k - Len(sv) \in DOMAIN t /\ k = Len(sv) + (k - Len(sv))
    BY <2>2, <1>4, <1>5 DEF Apart
  <2>3. CASE k \in DOMAIN sv /\ j - Len(sv) \in DOMAIN t /\ j = Len(sv) + (j - Len(sv))
    BY <2>3, <1>4, <1>5 DEF Apart
  <2>4. CASE /\ j - Len(sv) \in DOMAIN t /\ j = Len(sv) + (j - Len(sv))
             /\ k - Len(sv) \in DOMAIN t /\ k = Len(sv) + (k - Len(sv))
    <3>1. PICK a \in DOMAIN t, b \in DOMAIN t : j = Len(sv) + a /\ k = Len(sv) + b
      BY <2>4
    <3>2. t[a] = t[b]
      BY <3>1, <1>4
    <3>3. QED
      BY <3>1, <3>2, <1>5 DEF Once
  <2>5. QED
    BY <2>1, <2>2, <2>3, <2>4, <1>4
<1>8. \A d \in Clients : d # c => Apart(u, cv[d]) /\ Apart(cv[d], u)
  <2> SUFFICES ASSUME NEW d \in Clients, d # c PROVE Apart(u, cv[d])
    BY ApartBack
  <2>1. Apart(t, cv[d]) /\ Apart(cv[d], sv)
    BY <1>5
  <2>2. QED
    BY <1>4, <2>1 DEF Apart
<1>9. \A m : Occurs(m, sv) \/ Occurs(m, t) => Occurs(m, u)
  BY <1>4 DEF Occurs
<1>10. \A s : Within(<<>>, T) /\ Once(<<>>) /\ Apart(s, <<>>)
  BY DEF Within, Once, Apart
<1>11. \A d \in Clients : Within(r[d], T) /\ Once(r[d]) /\ Apart(r[d], <<>>)
  BY <1>3, <1>6, <1>7, <1>10 DEF Spread
<1>12. \A d, e \in Clients : d # e => Apart(r[d], r[e])
  BY <1>3, <1>8 DEF Spread
<1>13. ASSUME NEW m \in T PROVE \E d \in Clients : Occurs(m, r[d])
  <2>1. CASE Occurs(m, sv)
    BY <1>3, <1>9, <2>1
  <2>2. CASE \E d \in Clients : Occurs(m, cv[d])
    BY <1>1, <1>3, <1>9, <2>2
  <2>3. QED
    BY <2>1, <2>2 DEF Spread
<1>14. QED
  BY <1>10, <1>11, <1>12, <1>13 DEF Spread

(* The places of s, and of m behind it, in r. *)
Extended(s, m, r) ==
    /\ \A k \in DOMAIN s : k \in DOMAIN r /\ r[k] = s[k]
    /\ Len(s) + 1 \in DOMAIN r /\ r[Len(s) + 1] = m
    /\ \A k \in DOMAIN r : k \in DOMAIN s \/ k = Len(s) + 1

LEMMA AppendIs ==
    ASSUME NEW s \in Seq(Nat), NEW m \in Nat, NEW r, r = Append(s, m)
    PROVE  Extended(s, m, r)
  BY DEF Extended

LEMMA SpreadAppend ==
    ASSUME NEW cv \in Conversations, NEW sv \in Seq(Nat), NEW T, Spread(cv, sv, T), NEW c \in Clients,
           NEW m \in Nat, m \notin T, NEW r, r = [cv EXCEPT ![c] = Append(cv[c], m)],
           NEW M, M = T \cup {m}
    PROVE  Spread(r, sv, M)
<1>1. PICK t : t = cv[c] /\ t \in Seq(Nat)
  BY DEF Conversations
<1>2. PICK u : u = Append(t, m)
  OBVIOUS
<1>3. r[c] = u /\ \A d \in Clients : d # c => r[d] = cv[d]
  BY <1>1, <1>2 DEF Conversations
<1>4. /\ \A k \in DOMAIN t : k \in DOMAIN u /\ u[k] = t[k]
      /\ Len(t) + 1 \in DOMAIN u /\ u[Len(t) + 1] = m
      /\ \A k \in DOMAIN u : k \in DOMAIN t \/ k = Len(t) + 1
  <2>1. Extended(t, m, u)
    BY <1>1, <1>2, AppendIs
  <2>2. QED
    BY <2>1 DEF Extended
<1>5. /\ Within(t, T) /\ Once(t) /\ Apart(t, sv) /\ Within(sv, T) /\ Once(sv)
      /\ \A d \in Clients : d # c => Apart(t, cv[d]) /\ Within(cv[d], T)
  BY <1>1 DEF Spread
<1>6. Within(u, M) /\ Once(u)
  <2>1. Within(u, M)
    BY <1>4, <1>5 DEF Within
  <2>2. \A k \in DOMAIN t : t[k] # m
    BY <1>5 DEF Within
  <2>3. ASSUME NEW j \in DOMAIN u, NEW k \in DOMAIN u, u[j] = u[k] PROVE j = k
    BY <1>4, <1>5, <2>2, <2>3 DEF Once
  <2>4. QED
    BY <2>1, <2>3 DEF Once
<1>7. Apart(u, sv) /\ \A d \in Clients : d # c => Apart(u, cv[d]) /\ Apart(cv[d], u)
  <2>1. ASSUME NEW s, Within(s, T), Apart(t, s) PROVE Apart(u, s) /\ Apart(s, u)
    <3>1. \A k \in DOMAIN s : s[k] # m
      BY <2>1 DEF Within
    <3>2. \A j \in DOMAIN u, k \in DOMAIN s : u[j] # s[k]
      BY <1>4, <2>1, <3>1 DEF Apart
    <3>3. QED
      BY <3>2 DEF Apart
  <2>2. QED
    BY <1>5, <2>1
<1>8. Within(sv, M) /\ \A d \in Clients : d # c => Within(cv[d], M)
  BY <1>5 DEF Within
<1>9. Occurs(m, u) /\ \A n : Occurs(n, t) => Occurs(n, u)
  BY <1>4 DEF Occurs
<1>10. \A d \in Clients : Within(r[d], M) /\ Once(r[d]) /\ Apart(r[d], sv)
  BY <1>3, <1>6, <1>7, <1>8 DEF Spread
<1>11. \A d, e \in Clients : d # e => Apart(r[d], r[e])
  BY <1>3, <1>7 DEF Spread
<1>12. \A n \in M : Occurs(n, sv) \/ \E d \in Clients : Occurs(n, r[d])
  BY <1>1, <1>3, <1>9 DEF Spread
<1>13. QED
  BY <1>5, <1>8, <1>10, <1>11, <1>12 DEF Spread

-----------------------------------------------------------------------------
LEMMA FInit == MaxCalls \in Nat /\ MaxDeeds \in Nat /\ Facades!Init => FInv
<1> SUFFICES ASSUME MaxCalls \in Nat, MaxDeeds \in Nat, Facades!Init PROVE FInv
  OBVIOUS
<1>1. PICK c \in Clients : wired = [p \in Facades!Part |-> c]
  BY DEF Facades!Init
<1>2. Facades!NoCall \in WorkerType /\ Facades!NoCall.pc = "idle" /\ Facades!NoCall.quiet = TRUE
  BY <1>1 DEF Facades!NoCall, WorkerType
<1>3. main.pc = "idle" /\ main.client = c /\ main \in MainType
  BY <1>1 DEF Facades!Init, MainType, Facades!Part
<1>4. FTypeInv
  BY <1>1, <1>2, <1>3 DEF FTypeInv, Facades!Init, Conversations
<1>5. WiredInv
  BY <1>1, <1>3 DEF WiredInv, SetSoFar
<1>6. FreshInv
  BY <1>2, <1>3 DEF FreshInv, Unsaid, Facades!Init
<1>7. KindInv /\ QuietInv
  BY <1>2, <1>3 DEF KindInv, QuietInv, Facades!Init
<1>8. ToldInv
  <2>1. told = {} /\ Saved = <<>> /\ \A d \in Clients : conv[d] = <<>>
    BY <1>2 DEF Facades!Init, Saved
  <2>2. \A T : Within(<<>>, T) /\ Once(<<>>) /\ Apart(<<>>, <<>>)
    BY DEF Within, Once, Apart
  <2>3. QED
    BY <2>1, <2>2 DEF ToldInv, Spread
<1>9. QED
  BY <1>4, <1>5, <1>6, <1>7, <1>8 DEF FInv

LEMMA SavedType == FInv => Saved \in Seq(Nat)
<1>1. <<>> \in Seq(Nat)
  OBVIOUS
<1>2. QED
  BY <1>1 DEF FInv, FTypeInv, WorkerType, Saved

(* What the main thread does is not quiet for the worker. *)
LEMMA Disturbed ==
    ASSUME FInv, Facades!Disturbs
    PROVE  /\ worker' \in WorkerType /\ worker'.pc = worker.pc
           /\ KindInv' /\ QuietInv' /\ Saved' = Saved
<1>1. /\ worker' \in WorkerType /\ worker'.quiet = FALSE /\ worker'.pc = worker.pc
      /\ worker'.kind = worker.kind /\ worker'.saved = worker.saved /\ worker'.ok = worker.ok
  BY DEF FInv, FTypeInv, WorkerType, Facades!Disturbs
<1>2. QED
  BY <1>1 DEF FInv, KindInv, QuietInv, Saved

LEMMA FSwitch == FInv /\ Facades!Switch => FInv'
<1> SUFFICES ASSUME FInv, Facades!Switch PROVE FInv'
  OBVIOUS
<1>1. /\ worker' \in WorkerType /\ worker'.pc = worker.pc
      /\ KindInv' /\ QuietInv' /\ Saved' = Saved
  BY Disturbed DEF Facades!Switch
<1>2. main' \in MainType /\ main'.pc = "facade"
  BY DEF FInv, FTypeInv, MainType, Facades!Switch
<1>3. deeds \in Nat /\ deeds' = deeds + 1 /\ deeds < MaxDeeds
      /\ UNCHANGED << conv, metered, wired, dealt, told, torn >>
  BY DEF FInv, FTypeInv, Facades!Switch
<1>4. FTypeInv'
  BY <1>1, <1>2, <1>3 DEF FInv, FTypeInv
<1>5. WiredInv'
  BY <1>2 DEF WiredInv, SetSoFar
<1>6. FreshInv'
  <2>1. PICK d \in Nat, n \in Nat, m \in Nat : d = deeds /\ n = MaxDeeds /\ m = MaxCalls
    BY <1>3, BoundsAreNaturals
  <2>2. MaxCalls + 1 .. MaxCalls + deeds \subseteq MaxCalls + 1 .. MaxCalls + deeds'
    BY <1>3, <2>1
  <2>3. deeds' <= MaxDeeds
    BY <1>3, <2>1
  <2>4. QED
    BY <1>1, <1>2, <1>3, <2>2, <2>3 DEF FInv, FreshInv, Unsaid
<1>7. ToldInv'
  BY <1>1, <1>3 DEF FInv, ToldInv
<1>8. QED
  BY <1>1, <1>4, <1>5, <1>6, <1>7 DEF FInv

LEMMA FSetPart ==
    ASSUME NEW part, NEW next, FInv, Facades!SetPart(part, next),
           << part, next >> \in { << "facade", "manager" >>, << "manager", "engine" >>,
                                 << "engine", "adapter" >>, << "adapter", "idle" >> }
    PROVE  FInv'
<1>1. /\ worker' \in WorkerType /\ worker'.pc = worker.pc
      /\ KindInv' /\ QuietInv' /\ Saved' = Saved
  BY Disturbed DEF Facades!SetPart
<1>2. main' \in MainType /\ main'.pc = next /\ main'.client = main.client /\ main.pc = part
      /\ main.client \in Clients
  BY DEF FInv, FTypeInv, MainType, Facades!SetPart
<1>3. part \in Facades!Part /\ wired' = [wired EXCEPT ![part] = main.client]
      /\ UNCHANGED << conv, metered, dealt, deeds, told, torn >>
  BY DEF Facades!SetPart, Facades!Part
<1>4. FTypeInv'
  BY <1>1, <1>2, <1>3 DEF FInv, FTypeInv
<1>5. WiredInv'
  <2>1. /\ wired'[part] = main.client
        /\ \A p \in Facades!Part : p # part => wired'[p] = wired[p]
    BY <1>3 DEF FInv, FTypeInv
  <2>2. SetSoFar' = SetSoFar \cup {part} /\ SetSoFar \subseteq Facades!Part
    BY <1>2 DEF SetSoFar, Facades!Part
  <2>3. QED
    BY <1>2, <2>1, <2>2 DEF FInv, WiredInv
<1>6. FreshInv'
  BY <1>1, <1>2, <1>3 DEF FInv, FreshInv, Unsaid
<1>7. ToldInv'
  BY <1>1, <1>3 DEF FInv, ToldInv
<1>8. QED
  BY <1>1, <1>4, <1>5, <1>6, <1>7 DEF FInv

LEMMA FAddRead == FInv /\ Facades!AddRead => FInv'
<1> SUFFICES ASSUME FInv, Facades!AddRead PROVE FInv'
  OBVIOUS
<1>1. /\ worker' \in WorkerType /\ worker'.pc = worker.pc
      /\ KindInv' /\ QuietInv' /\ Saved' = Saved
  BY Disturbed DEF Facades!AddRead
<1>2. main' \in MainType /\ main'.pc = "add" /\ main.pc = "idle" /\ main'.client = main.client
  <2>1. conv[wired["manager"]] \in Seq(Nat)
    BY DEF FInv, FTypeInv, Conversations, Facades!Part
  <2>2. QED
    BY <2>1 DEF FInv, FTypeInv, MainType, Facades!AddRead
<1>3. deeds \in Nat /\ deeds' = deeds + 1 /\ deeds < MaxDeeds
      /\ UNCHANGED << conv, metered, wired, dealt, told, torn >>
  BY DEF FInv, FTypeInv, Facades!AddRead
<1>4. FTypeInv'
  BY <1>1, <1>2, <1>3 DEF FInv, FTypeInv
<1>5. WiredInv'
  BY <1>2, <1>3 DEF FInv, WiredInv, SetSoFar
<1>6. FreshInv'
  <2>1. PICK d \in Nat, n \in Nat, m \in Nat, a \in Nat : d = deeds /\ n = MaxDeeds /\ m = MaxCalls /\ a = dealt
    BY <1>3, BoundsAreNaturals DEF FInv, FTypeInv
  <2>2. MaxCalls + 1 .. MaxCalls + deeds \subseteq MaxCalls + 1 .. MaxCalls + deeds'
    BY <1>3, <2>1
  <2>3. deeds' <= MaxDeeds /\ deeds' >= 1
    BY <1>3, <2>1
  <2>4. MaxCalls + deeds' \notin (1..dealt) \cup (MaxCalls + 1 .. MaxCalls + deeds)
    BY <1>3, <2>1 DEF FInv, FreshInv
  <2>5. QED
    BY <1>1, <1>2, <1>3, <2>2, <2>3, <2>4 DEF FInv, FreshInv, Unsaid
<1>7. ToldInv'
  BY <1>1, <1>3 DEF FInv, ToldInv
<1>8. QED
  BY <1>1, <1>4, <1>5, <1>6, <1>7 DEF FInv

LEMMA FAddWrite == FInv /\ Facades!AddWrite => FInv'
<1> SUFFICES ASSUME FInv, Facades!AddWrite PROVE FInv'
  OBVIOUS
<1>1. /\ worker' \in WorkerType /\ worker'.pc = worker.pc
      /\ KindInv' /\ QuietInv' /\ Saved' = Saved
  BY Disturbed DEF Facades!AddWrite
<1>2. main' \in MainType /\ main'.pc = "idle" /\ main.pc = "add" /\ main'.client = main.client
      /\ main.copy \in Seq(Nat)
  <2>1. <<>> \in Seq(Nat)
    OBVIOUS
  <2>2. QED
    BY <2>1 DEF FInv, FTypeInv, MainType, Facades!AddWrite
<1>3. PICK c \in Clients, m \in Nat : c = wired["manager"] /\ m = MaxCalls + deeds
  BY BoundsAreNaturals DEF FInv, FTypeInv, Facades!Part
<1>4. /\ conv' = [conv EXCEPT ![c] = Append(main.copy, m)]
      /\ told' = told \cup {m}
      /\ torn' = (torn \/ conv[c] # main.copy)
      /\ UNCHANGED << metered, wired, dealt, deeds >>
  BY <1>3 DEF Facades!AddWrite, Facades!ByHand
<1>5. Append(main.copy, m) \in Seq(Nat)
  BY <1>2, <1>3
<1>6. FTypeInv'
  BY <1>1, <1>2, <1>4, <1>5 DEF FInv, FTypeInv, Conversations
<1>7. WiredInv'
  BY <1>2, <1>4 DEF FInv, WiredInv, SetSoFar
<1>8. FreshInv'
  <2>1. PICK d \in Nat, n \in Nat, a \in Nat : d = deeds /\ n = MaxCalls /\ a = dealt
    BY BoundsAreNaturals DEF FInv, FTypeInv
  <2>2. d >= 1 /\ a <= n
    BY <1>2, <2>1 DEF FInv, FreshInv
  <2>3. m \in MaxCalls + 1 .. MaxCalls + deeds /\ m # dealt
    BY <1>3, <2>1, <2>2
  <2>4. QED
    BY <1>1, <1>2, <1>4, <2>3 DEF FInv, FreshInv, Unsaid
<1>9. ToldInv'
  <2> SUFFICES ASSUME ~torn' PROVE Spread(conv', Saved', told')
    BY DEF ToldInv
  <2>1. ~torn /\ conv[c] = main.copy
    BY <1>4
  <2>2. m \notin told
    BY <1>2, <1>3 DEF FInv, FreshInv
  <2>3. PICK cv, sv, T : cv = conv /\ sv = Saved /\ T = told
    OBVIOUS
  <2>. cv \in Conversations /\ sv \in Seq(Nat)
    BY <2>3, SavedType DEF FInv, FTypeInv
  <2>4. Spread(cv, sv, T)
    BY <2>1, <2>3 DEF FInv, ToldInv
  <2>5. conv' = [cv EXCEPT ![c] = Append(cv[c], m)] /\ told' = T \cup {m}
    BY <1>4, <2>1, <2>3
  <2>6. PICK r, M : r = conv' /\ M = told'
    OBVIOUS
  <2>7. Spread(r, sv, M)
    BY <2>2, <2>3, <2>4, <2>5, <2>6, SpreadAppend
  <2>8. QED
    BY <1>1, <2>3, <2>6, <2>7
<1>10. QED
  BY <1>1, <1>6, <1>7, <1>8, <1>9 DEF FInv

(* One client is wired everywhere while nothing disturbs the call. *)
LEMMA OneClient ==
    ASSUME FInv
    PROVE  /\ Alone \in Clients
           /\ worker.quiet => \A p \in Facades!Part : wired[p] = Alone
BY DEF FInv, FTypeInv, MainType, Alone, QuietInv, WiredInv, SetSoFar

LEMMA FBegin == FInv /\ Facades!Begin => FInv'
<1> SUFFICES ASSUME FInv, Facades!Begin PROVE FInv'
  OBVIOUS
<1>1. PICK kind \in {"plain", "declarative", "query"} :
          worker' = [Facades!NoCall EXCEPT !.kind = kind, !.before = conv, !.quiet = main.pc = "idle",
                        !.pc = CASE kind = "declarative" -> "suspend"
                                 [] kind = "plain" -> "take"
                                 [] kind = "query" -> "generate",
                        !.asked = wired["adapter"]]
  BY DEF Facades!Begin
<1>2. /\ worker.pc \in {"idle", "done"} /\ dealt' = dealt + 1 /\ dealt < MaxCalls
      /\ UNCHANGED << conv, metered, wired, main, deeds, told, torn >>
  BY DEF Facades!Begin, Facades!Busy
<1>3. wired["adapter"] \in Clients /\ conv \in Conversations
  BY DEF FInv, FTypeInv, Facades!Part
<1>4. <<>> \in Seq(Nat)
  OBVIOUS
<1>5. /\ worker'.kind = kind /\ worker'.before = conv
      /\ worker'.quiet = (main.pc = "idle")
      /\ worker'.pc = CASE kind = "declarative" -> "suspend"
                        [] kind = "plain" -> "take"
                        [] kind = "query" -> "generate"
      /\ worker'.asked = wired["adapter"] /\ worker'.saved = <<>> /\ worker'.new = <<>>
      /\ worker'.seen = <<>> /\ worker'.ok = FALSE /\ worker'.reported = 0
  BY <1>1 DEF Facades!NoCall
<1>6. worker' \in WorkerType
  <2>1. worker'.pc \in {"suspend", "take", "generate"} /\ worker'.quiet \in BOOLEAN
    BY <1>5
  <2>2. worker' = [pc |-> worker'.pc, kind |-> worker'.kind, asked |-> worker'.asked, saved |-> worker'.saved,
                   new |-> worker'.new, seen |-> worker'.seen, ok |-> worker'.ok,
                   reported |-> worker'.reported, quiet |-> worker'.quiet, before |-> worker'.before]
    BY <1>1 DEF Facades!NoCall
  <2>3. /\ worker'.kind \in {"plain", "declarative", "query"} /\ worker'.asked \in Clients
        /\ worker'.ok \in BOOLEAN
    BY <1>3, <1>5
  <2>. worker'.reported \in Nat
    BY <1>5
  <2>4. worker'.saved \in Seq(Nat) /\ worker'.new \in Seq(Nat) /\ worker'.seen \in Seq(Nat)
    BY <1>4, <1>5
  <2>5. worker'.before \in Conversations \cup {<<>>}
    BY <1>3, <1>5
  <2>6. QED
    BY <2>1, <2>2, <2>3, <2>4, <2>5 DEF WorkerType
<1>7. FTypeInv'
  BY <1>2, <1>6 DEF FInv, FTypeInv
<1>8. WiredInv'
  BY <1>2 DEF FInv, WiredInv, SetSoFar
<1>9. FreshInv'
  <2>1. PICK d \in Nat, n \in Nat, a \in Nat : d = deeds /\ n = MaxCalls /\ a = dealt
    BY BoundsAreNaturals DEF FInv, FTypeInv
  <2>2. a < n /\ dealt' = a + 1
    BY <1>2, <2>1
  <2>3. 1..dealt \subseteq 1..dealt' /\ dealt' <= MaxCalls /\ dealt' >= 1
    BY <2>1, <2>2
  <2>4. dealt' \notin (1..dealt) \cup (MaxCalls + 1 .. MaxCalls + deeds)
    BY <2>1, <2>2
  <2>5. QED
    BY <1>2, <2>3, <2>4 DEF FInv, FreshInv, Unsaid
<1>10. KindInv'
  BY <1>5 DEF KindInv
<1>11. ToldInv'
  <2>1. Saved' = <<>> /\ Saved = <<>>
    BY <1>2, <1>5 DEF Saved
  <2>2. QED
    BY <1>2, <2>1 DEF FInv, ToldInv
<1>12. QuietInv'
  <2>1. main.pc = "idle" => wired["adapter"] = Alone
    BY DEF FInv, WiredInv, SetSoFar, Facades!Part, Alone
  <2>2. Alone' = Alone
    BY <1>2 DEF Alone
  <2>3. worker'.pc \in {"take", "generate"} => worker'.kind # "declarative"
    BY <1>5
  <2>4. worker'.pc \in {"suspend", "take", "generate"}
    BY <1>5
  <2>5. Held' \/ worker'.pc = "suspend"
    BY <2>3, <2>4 DEF Held
  <2>6. Behind' = conv \/ worker'.pc = "suspend"
    BY <1>5, <2>3, <2>4 DEF Behind
  <2>7. QED
    BY <1>2, <1>3, <1>5, <2>1, <2>2, <2>4, <2>5, <2>6 DEF QuietInv
<1>13. QED
  BY <1>7, <1>8, <1>9, <1>10, <1>11, <1>12 DEF FInv

LEMMA FSuspendRead == FInv /\ Facades!SuspendRead => FInv'
<1> SUFFICES ASSUME FInv, Facades!SuspendRead PROVE FInv'
  OBVIOUS
<1>1. PICK c \in Clients : c = wired["manager"] /\ conv[c] \in Seq(Nat)
  BY DEF FInv, FTypeInv, Conversations, Facades!Part
<1>2. /\ worker' = [worker EXCEPT !.pc = "clear", !.saved = conv[c]] /\ worker.pc = "suspend"
      /\ UNCHANGED << conv, metered, wired, main, dealt, deeds, told, torn >>
  BY <1>1 DEF Facades!SuspendRead
<1>3. /\ worker' \in WorkerType /\ worker'.pc = "clear" /\ worker'.saved = conv[c]
      /\ worker'.kind = worker.kind /\ worker'.quiet = worker.quiet /\ worker'.before = worker.before
      /\ worker.quiet \in BOOLEAN
  BY <1>1, <1>2 DEF FInv, FTypeInv, WorkerType
<1>4. FTypeInv' /\ KindInv'
  BY <1>2, <1>3 DEF FInv, FTypeInv, KindInv
<1>5. WiredInv'
  BY <1>2 DEF FInv, WiredInv, SetSoFar
<1>6. FreshInv'
  BY <1>2, <1>3 DEF FInv, FreshInv, Unsaid
<1>7. ToldInv'
  <2>1. Saved' = <<>> /\ Saved = <<>>
    BY <1>2, <1>3 DEF Saved
  <2>2. QED
    BY <1>2, <2>1 DEF FInv, ToldInv
<1>8. QuietInv'
  <2> SUFFICES ASSUME worker'.quiet PROVE QuietInv'
    BY DEF QuietInv
  <2>1. c = Alone /\ Alone' = Alone
    BY <1>1, <1>2, <1>3, OneClient DEF Alone, Facades!Part
  <2>2. conv = worker.before /\ main.pc = "idle" /\ worker.before \in Conversations
    BY <1>2, <1>3 DEF FInv, QuietInv
  <2>3. Held'
    BY <1>3, <2>1, <2>2 DEF Held
  <2>4. QED
    BY <1>2, <1>3, <2>2, <2>3 DEF QuietInv
<1>9. QED
  BY <1>4, <1>5, <1>6, <1>7, <1>8 DEF FInv

LEMMA FSuspendClear == FInv /\ Facades!SuspendClear => FInv'
<1> SUFFICES ASSUME FInv, Facades!SuspendClear PROVE FInv'
  OBVIOUS
<1>1. PICK c \in Clients : c = wired["manager"] /\ conv[c] \in Seq(Nat)
  BY DEF FInv, FTypeInv, Conversations, Facades!Part
<1>2. /\ worker' = [worker EXCEPT !.pc = "take"] /\ worker.pc = "clear"
      /\ conv' = [conv EXCEPT ![c] = <<>>]
      /\ torn' = (torn \/ conv[c] # worker.saved)
      /\ UNCHANGED << metered, wired, main, dealt, deeds, told >>
  BY <1>1 DEF Facades!SuspendClear
<1>3. /\ worker' \in WorkerType /\ worker'.pc = "take" /\ worker'.saved = worker.saved
      /\ worker'.kind = worker.kind /\ worker'.quiet = worker.quiet /\ worker'.before = worker.before
      /\ worker.quiet \in BOOLEAN
  BY <1>1, <1>2 DEF FInv, FTypeInv, WorkerType
<1>4. worker.kind = "declarative"
  BY <1>2 DEF FInv, KindInv
<1>5. FTypeInv' /\ KindInv'
  <2>1. <<>> \in Seq(Nat)
    OBVIOUS
  <2>2. QED
    BY <1>2, <1>3, <2>1 DEF FInv, FTypeInv, KindInv, Conversations
<1>6. WiredInv'
  BY <1>2 DEF FInv, WiredInv, SetSoFar
<1>7. FreshInv'
  BY <1>2, <1>3 DEF FInv, FreshInv, Unsaid
<1>8. ToldInv'
  <2> SUFFICES ASSUME ~torn' PROVE Spread(conv', Saved', told')
    BY DEF ToldInv
  <2>1. Saved = <<>> /\ Saved' = worker.saved /\ ~torn /\ worker.saved = conv[c]
    BY <1>2, <1>3, <1>4 DEF Saved
  <2>2. PICK cv, T, r, s : cv = conv /\ T = told /\ r = conv' /\ s = Saved'
    OBVIOUS
  <2>3. cv \in Conversations
    BY <2>2 DEF FInv, FTypeInv
  <2>4. Spread(cv, <<>>, T) /\ r = [cv EXCEPT ![c] = <<>>] /\ s = cv[c]
    BY <1>2, <2>1, <2>2 DEF FInv, ToldInv
  <2>5. Spread(r, s, T)
    BY <2>3, <2>4, SpreadSuspend
  <2>6. QED
    BY <1>2, <2>2, <2>5
<1>9. QuietInv'
  <2> SUFFICES ASSUME worker'.quiet PROVE QuietInv'
    BY DEF QuietInv
  <2>1. c = Alone /\ Alone' = Alone
    BY <1>1, <1>2, <1>3, OneClient DEF Alone, Facades!Part
  <2>2. conv = worker.before /\ main.pc = "idle" /\ worker.before \in Conversations /\ Held
    BY <1>2, <1>3 DEF FInv, QuietInv
  <2>3. Held'
    BY <1>3, <2>1, <2>2 DEF Held
  <2>4. conv' = Behind'
    BY <1>2, <1>3, <1>4, <2>1, <2>2 DEF Behind, Outside
  <2>5. QED
    BY <1>2, <1>3, <2>2, <2>3, <2>4 DEF QuietInv
<1>10. QED
  BY <1>5, <1>6, <1>7, <1>8, <1>9 DEF FInv

LEMMA FTake == FInv /\ Facades!Take => FInv'
<1> SUFFICES ASSUME FInv, Facades!Take PROVE FInv'
  OBVIOUS
<1>1. PICK c \in Clients : c = wired["engine"]
  BY DEF FInv, FTypeInv, Facades!Part
<1>2. /\ worker' = [worker EXCEPT !.pc = "generate", !.asked = c] /\ worker.pc = "take"
      /\ UNCHANGED << conv, metered, wired, main, dealt, deeds, told, torn >>
  BY <1>1 DEF Facades!Take
<1>3. /\ worker' \in WorkerType /\ worker'.pc = "generate" /\ worker'.saved = worker.saved
      /\ worker'.kind = worker.kind /\ worker'.quiet = worker.quiet /\ worker'.before = worker.before
      /\ worker'.asked = c /\ worker.quiet \in BOOLEAN
  BY <1>1, <1>2 DEF FInv, FTypeInv, WorkerType
<1>4. FTypeInv' /\ KindInv'
  BY <1>2, <1>3 DEF FInv, FTypeInv, KindInv
<1>5. WiredInv'
  BY <1>2 DEF FInv, WiredInv, SetSoFar
<1>6. FreshInv'
  BY <1>2, <1>3 DEF FInv, FreshInv, Unsaid
<1>7. ToldInv'
  <2>1. Saved' = Saved
    BY <1>2, <1>3 DEF Saved
  <2>2. QED
    BY <1>2, <2>1 DEF FInv, ToldInv
<1>8. QuietInv'
  <2> SUFFICES ASSUME worker'.quiet PROVE QuietInv'
    BY DEF QuietInv
  <2>1. c = Alone /\ Alone' = Alone
    BY <1>1, <1>2, <1>3, OneClient DEF Alone, Facades!Part
  <2>2. conv = Behind /\ main.pc = "idle" /\ worker.before \in Conversations /\ Held
    BY <1>2, <1>3 DEF FInv, QuietInv
  <2>3. Held' /\ Behind' = Behind
    BY <1>2, <1>3, <2>1, <2>2 DEF Held, Behind, Outside
  <2>4. QED
    BY <1>2, <1>3, <2>1, <2>2, <2>3 DEF QuietInv
<1>9. QED
  BY <1>4, <1>5, <1>6, <1>7, <1>8 DEF FInv

LEMMA FGenerate == FInv /\ Facades!Generate => FInv'
<1> SUFFICES ASSUME FInv, Facades!Generate PROVE FInv'
  OBVIOUS
<1>1. PICK c \in Clients, m \in Nat : c = worker.asked /\ m = dealt /\ conv[c] \in Seq(Nat)
  BY DEF FInv, FTypeInv, WorkerType, Conversations
<1>2. PICK ok \in BOOLEAN :
         /\ worker' = [worker EXCEPT !.pc = IF ok \/ Facades!After = "restore" THEN Facades!After ELSE "done",
                                     !.seen = conv[c], !.ok = ok]
         /\ conv' = IF ok THEN [conv EXCEPT ![c] = Append(conv[c], m)] ELSE conv
         /\ told' = IF ok THEN told \cup {m} ELSE told
         /\ metered' = [metered EXCEPT ![c] = IF ok THEN m ELSE 0]
  BY <1>1 DEF Facades!Generate, Facades!Exchange
<1>3. worker.pc = "generate" /\ UNCHANGED << wired, main, dealt, deeds, torn >>
  BY DEF Facades!Generate
<1>4. /\ worker' \in WorkerType /\ worker'.saved = worker.saved /\ worker'.asked = c
      /\ worker'.kind = worker.kind /\ worker'.quiet = worker.quiet /\ worker'.before = worker.before
      /\ worker'.seen = conv[c] /\ worker'.ok = ok /\ worker.quiet \in BOOLEAN
      /\ worker'.pc = IF worker.kind = "declarative" THEN "restore" ELSE IF ok THEN "report" ELSE "done"
  BY <1>1, <1>2 DEF FInv, FTypeInv, WorkerType, Facades!After
<1>5. FTypeInv' /\ KindInv'
  <2>1. Append(conv[c], m) \in Seq(Nat)
    BY <1>1
  <2>2. conv' \in Conversations
    BY <1>1, <1>2, <2>1 DEF FInv, FTypeInv, Conversations
  <2>3. told' \subseteq Nat /\ metered' \in [Clients -> Nat]
    BY <1>1, <1>2 DEF FInv, FTypeInv
  <2>4. QED
    BY <1>3, <1>4, <2>2, <2>3 DEF FInv, FTypeInv, KindInv
<1>6. WiredInv'
  BY <1>3 DEF FInv, WiredInv, SetSoFar
<1>7. FreshInv'
  <2>1. PICK d \in Nat, n \in Nat : d = deeds /\ n = MaxCalls
    BY BoundsAreNaturals DEF FInv, FTypeInv
  <2>2. m >= 1 /\ m <= n
    BY <1>1, <1>3, <2>1 DEF FInv, FreshInv, Unsaid
  <2>3. m \in 1..dealt
    BY <1>1, <2>2
  <2>4. main.pc = "add" => MaxCalls + deeds # m
    <3>1. main.pc = "add" => d >= 1
      BY <2>1 DEF FInv, FreshInv
    <3>2. QED
      BY <2>1, <2>2, <3>1
  <2>5. worker'.pc \notin {"suspend", "clear", "take", "generate"}
    BY <1>4
  <2>6. told' \subseteq told \cup {m}
    BY <1>2
  <2>7. QED
    BY <1>3, <2>3, <2>4, <2>5, <2>6 DEF FInv, FreshInv, Unsaid
<1>8. ToldInv'
  <2> SUFFICES ASSUME ~torn' PROVE Spread(conv', Saved', told')
    BY DEF ToldInv
  <2>1. Saved' = Saved /\ ~torn
    BY <1>3, <1>4 DEF Saved
  <2>2. PICK cv, sv, T, r, M : cv = conv /\ sv = Saved /\ T = told /\ r = conv' /\ M = told'
    OBVIOUS
  <2>3. cv \in Conversations /\ sv \in Seq(Nat) /\ Spread(cv, sv, T)
    BY <2>1, <2>2, SavedType DEF FInv, FTypeInv, ToldInv
  <2>4. m \notin T
    BY <1>1, <1>3, <2>2 DEF FInv, FreshInv, Unsaid
  <2>5. CASE ok
    <3>1. r = [cv EXCEPT ![c] = Append(cv[c], m)] /\ M = T \cup {m}
      BY <1>2, <2>2, <2>5
    <3>2. Spread(r, sv, M)
      BY <2>3, <2>4, <3>1, SpreadAppend
    <3>3. QED
      BY <2>1, <2>2, <3>2
  <2>6. CASE ~ok
    <3>1. r = cv /\ M = T
      BY <1>2, <2>2, <2>6
    <3>2. Spread(r, sv, M)
      BY <2>3, <3>1
    <3>3. QED
      BY <2>1, <2>2, <3>2
  <2>7. QED
    BY <2>5, <2>6
<1>9. QuietInv'
  <2> SUFFICES ASSUME worker'.quiet PROVE QuietInv'
    BY DEF QuietInv
  <2>1. c = Alone /\ Alone' = Alone
    BY <1>1, <1>3, <1>4 DEF FInv, QuietInv, Alone
  <2>2. conv = Behind /\ main.pc = "idle" /\ worker.before \in Conversations /\ Held
    BY <1>3, <1>4 DEF FInv, QuietInv
  <2>3. Metered'
    BY <1>1, <1>2, <1>3, <1>4, <2>1 DEF Metered, FInv, FTypeInv
  <2>4. CASE worker.kind = "declarative"
    <3>1. conv = [worker.before EXCEPT ![c] = <<>>]
      BY <2>1, <2>2, <2>4 DEF Behind, Outside
    <3>2. conv[c] = <<>> /\ Append(<<>>, m) = <<m>>
      BY <1>1, <2>2, <3>1 DEF Conversations
    <3>3. conv' = Outside(worker.before, c, ok, m)
      <4>1. ok => conv' = [conv EXCEPT ![c] = <<m>>]
        BY <1>2, <3>2
      <4>2. QED
        BY <1>2, <2>2, <3>1, <4>1 DEF Outside, Conversations
    <3>4. Held' /\ worker'.pc = "restore"
      BY <1>4, <2>1, <2>2, <2>4 DEF Held
    <3>5. QED
      BY <1>1, <1>3, <1>4, <2>1, <2>2, <2>3, <3>2, <3>3, <3>4 DEF QuietInv
  <2>5. CASE worker.kind # "declarative"
    <3>1. conv = worker.before
      BY <2>2, <2>5 DEF Behind
    <3>2. conv' = OneMore(worker.before, c, ok, m)
      BY <1>2, <3>1 DEF OneMore
    <3>3. worker'.pc \in {"report", "done"} /\ (worker'.pc = "done" => ~ok)
      BY <1>4, <2>5
    <3>4. QED
      BY <1>1, <1>3, <1>4, <2>1, <2>2, <2>3, <2>5, <3>1, <3>2, <3>3 DEF QuietInv
  <2>6. QED
    BY <2>4, <2>5
<1>10. QED
  BY <1>5, <1>6, <1>7, <1>8, <1>9 DEF FInv

LEMMA FRestoreRead == FInv /\ Facades!RestoreRead => FInv'
<1> SUFFICES ASSUME FInv, Facades!RestoreRead PROVE FInv'
  OBVIOUS
<1>1. PICK c \in Clients : c = wired["manager"] /\ conv[c] \in Seq(Nat)
  BY DEF FInv, FTypeInv, Conversations, Facades!Part
<1>2. /\ worker' = [worker EXCEPT !.pc = "write", !.new = conv[c]] /\ worker.pc = "restore"
      /\ UNCHANGED << conv, metered, wired, main, dealt, deeds, told, torn >>
  BY <1>1 DEF Facades!RestoreRead
<1>3. /\ worker' \in WorkerType /\ worker'.pc = "write" /\ worker'.saved = worker.saved /\ worker'.new = conv[c]
      /\ worker'.kind = worker.kind /\ worker'.quiet = worker.quiet /\ worker'.before = worker.before
      /\ worker'.asked = worker.asked /\ worker'.ok = worker.ok /\ worker'.seen = worker.seen
      /\ worker.quiet \in BOOLEAN
  BY <1>1, <1>2 DEF FInv, FTypeInv, WorkerType
<1>4. FTypeInv' /\ KindInv'
  BY <1>2, <1>3 DEF FInv, FTypeInv, KindInv
<1>5. WiredInv'
  BY <1>2 DEF FInv, WiredInv, SetSoFar
<1>6. FreshInv'
  BY <1>2, <1>3 DEF FInv, FreshInv, Unsaid
<1>7. ToldInv'
  <2>1. Saved' = Saved
    BY <1>2, <1>3 DEF Saved
  <2>2. QED
    BY <1>2, <2>1 DEF FInv, ToldInv
<1>8. QuietInv'
  <2> SUFFICES ASSUME worker'.quiet PROVE QuietInv'
    BY DEF QuietInv
  <2>1. c = Alone /\ Alone' = Alone
    BY <1>1, <1>2, <1>3, OneClient DEF Alone, Facades!Part
  <2>2. /\ main.pc = "idle" /\ worker.before \in Conversations /\ Held /\ worker.asked = Alone
        /\ conv = Outside(worker.before, Alone, worker.ok, dealt)
        /\ worker.seen = <<>> /\ Metered
    BY <1>2, <1>3 DEF FInv, QuietInv
  <2>3. Held' /\ Metered'
    BY <1>2, <1>3, <2>1, <2>2 DEF Held, Metered
  <2>4. QED
    BY <1>2, <1>3, <2>1, <2>2, <2>3 DEF QuietInv
<1>9. QED
  BY <1>4, <1>5, <1>6, <1>7, <1>8 DEF FInv

LEMMA FRestoreWrite == FInv /\ Facades!RestoreWrite => FInv'
<1> SUFFICES ASSUME FInv, Facades!RestoreWrite PROVE FInv'
  OBVIOUS
<1>1. PICK c \in Clients : c = wired["manager"] /\ conv[c] \in Seq(Nat)
  BY DEF FInv, FTypeInv, Conversations, Facades!Part
<1>2. /\ worker' = [worker EXCEPT !.pc = IF worker.ok THEN "report" ELSE "done"] /\ worker.pc = "write"
      /\ conv' = [conv EXCEPT ![c] = worker.saved \o worker.new]
      /\ torn' = (torn \/ conv[c] # worker.new)
      /\ UNCHANGED << metered, wired, main, dealt, deeds, told >>
  BY <1>1 DEF Facades!RestoreWrite
<1>3. /\ worker' \in WorkerType /\ worker'.pc = (IF worker.ok THEN "report" ELSE "done")
      /\ worker'.kind = worker.kind /\ worker'.quiet = worker.quiet /\ worker'.before = worker.before
      /\ worker'.asked = worker.asked /\ worker'.ok = worker.ok /\ worker'.seen = worker.seen
      /\ worker.quiet \in BOOLEAN
  BY <1>1, <1>2 DEF FInv, FTypeInv, WorkerType
<1>4. worker.kind = "declarative" /\ worker.saved \in Seq(Nat) /\ worker.new \in Seq(Nat) /\ worker.ok \in BOOLEAN
  BY <1>2 DEF FInv, FTypeInv, WorkerType, KindInv
<1>5. FTypeInv' /\ KindInv'
  <2>1. worker.saved \o worker.new \in Seq(Nat)
    BY <1>4
  <2>2. conv' \in Conversations
    BY <1>2, <2>1 DEF FInv, FTypeInv, Conversations
  <2>3. QED
    BY <1>2, <1>3, <2>2 DEF FInv, FTypeInv, KindInv
<1>6. WiredInv'
  BY <1>2 DEF FInv, WiredInv, SetSoFar
<1>7. FreshInv'
  BY <1>2, <1>3 DEF FInv, FreshInv, Unsaid
<1>8. ToldInv'
  <2> SUFFICES ASSUME ~torn' PROVE Spread(conv', Saved', told')
    BY DEF ToldInv
  <2>1. Saved' = <<>> /\ Saved = worker.saved /\ ~torn /\ worker.new = conv[c]
    <3>1. worker'.pc \in {"report", "done"}
      BY <1>3, <1>4
    <3>2. Saved' = <<>> /\ Saved = worker.saved
      BY <1>2, <1>4, <3>1 DEF Saved
    <3>3. QED
      BY <1>2, <3>2
  <2>2. PICK cv, T, r, s : cv = conv /\ T = told /\ r = conv' /\ s = Saved
    OBVIOUS
  <2>3. cv \in Conversations /\ s \in Seq(Nat)
    BY <2>2, SavedType DEF FInv, FTypeInv
  <2>4. Spread(cv, s, T) /\ r = [cv EXCEPT ![c] = s \o cv[c]]
    BY <1>2, <2>1, <2>2 DEF FInv, ToldInv
  <2>5. Spread(r, <<>>, T)
    BY <2>3, <2>4, SpreadRestore
  <2>6. QED
    BY <1>2, <2>1, <2>2, <2>5
<1>9. QuietInv'
  <2> SUFFICES ASSUME worker'.quiet PROVE QuietInv'
    BY DEF QuietInv
  <2>1. c = Alone /\ Alone' = Alone
    BY <1>1, <1>2, <1>3, OneClient DEF Alone, Facades!Part
  <2>2. /\ main.pc = "idle" /\ worker.before \in Conversations /\ Held /\ worker.asked = Alone
        /\ conv = Outside(worker.before, Alone, worker.ok, dealt)
        /\ worker.seen = <<>> /\ Metered /\ worker.new = conv[Alone]
    BY <1>2, <1>3 DEF FInv, QuietInv
  <2>3. Metered'
    BY <1>2, <1>3, <2>1, <2>2 DEF Metered
  <2>4. PICK b, s, n, m : b = worker.before /\ s = worker.saved /\ n = worker.new /\ m = dealt
    OBVIOUS
  <2>. m \in Nat
    BY <2>4 DEF FInv, FTypeInv
  <2>5. s = b[c] /\ n = IF worker.ok THEN <<m>> ELSE <<>>
    BY <1>4, <2>1, <2>2, <2>4 DEF Held, Outside, Conversations
  <2>6. s \in Seq(Nat) /\ s \o <<m>> = Append(s, m) /\ s \o <<>> = s
    BY <1>4, <2>4
  <2>7. s \o n = IF worker.ok THEN Append(b[c], m) ELSE b[c]
    BY <2>5, <2>6
  <2>8. conv' = [b EXCEPT ![c] = s \o n]
    BY <1>2, <2>1, <2>2, <2>4 DEF Outside, Conversations
  <2>9. conv' = OneMore(b, c, worker.ok, m)
    <3>1. CASE worker.ok
      BY <2>7, <2>8, <3>1 DEF OneMore
    <3>2. CASE ~worker.ok
      BY <2>2, <2>4, <2>7, <2>8, <3>2 DEF OneMore, Conversations
    <3>3. QED
      BY <3>1, <3>2
  <2>10. worker'.pc \in {"report", "done"} /\ (worker'.pc = "done" => ~worker'.ok)
    BY <1>3, <1>4
  <2>11. conv' = OneMore(worker'.before, Alone', worker'.ok, dealt') /\ worker'.asked = Alone'
    BY <1>2, <1>3, <2>1, <2>2, <2>4, <2>9
  <2>12. worker'.seen = IF worker'.kind = "declarative" THEN <<>> ELSE worker'.before[Alone']
    BY <1>3, <1>4, <2>2
  <2>13. QED
    BY <1>2, <1>3, <2>2, <2>3, <2>10, <2>11, <2>12 DEF QuietInv
<1>10. QED
  BY <1>5, <1>6, <1>7, <1>8, <1>9 DEF FInv

LEMMA FReport == FInv /\ Facades!Report => FInv'
<1> SUFFICES ASSUME FInv, Facades!Report PROVE FInv'
  OBVIOUS
<1>1. PICK c \in Clients : c = IF worker.kind = "query" THEN worker.asked ELSE wired["engine"]
  BY DEF FInv, FTypeInv, WorkerType, Facades!Part
<1>2. /\ worker' = [worker EXCEPT !.pc = "done", !.reported = metered[c]] /\ worker.pc = "report"
      /\ UNCHANGED << conv, metered, wired, main, dealt, deeds, told, torn >>
  BY <1>1 DEF Facades!Report
<1>3. /\ worker' \in WorkerType /\ worker'.pc = "done" /\ worker'.reported = metered[c]
      /\ worker'.kind = worker.kind /\ worker'.quiet = worker.quiet /\ worker'.before = worker.before
      /\ worker'.asked = worker.asked /\ worker'.ok = worker.ok /\ worker'.seen = worker.seen
      /\ worker.quiet \in BOOLEAN
  BY <1>1, <1>2 DEF FInv, FTypeInv, WorkerType
<1>4. FTypeInv' /\ KindInv'
  BY <1>2, <1>3 DEF FInv, FTypeInv, KindInv
<1>5. WiredInv'
  BY <1>2 DEF FInv, WiredInv, SetSoFar
<1>6. FreshInv'
  BY <1>2, <1>3 DEF FInv, FreshInv, Unsaid
<1>7. ToldInv'
  <2>1. Saved' = <<>> /\ Saved = <<>>
    BY <1>2, <1>3 DEF Saved
  <2>2. QED
    BY <1>2, <2>1 DEF FInv, ToldInv
<1>8. QuietInv'
  <2> SUFFICES ASSUME worker'.quiet PROVE QuietInv'
    BY DEF QuietInv
  <2>1. /\ main.pc = "idle" /\ worker.before \in Conversations /\ worker.asked = Alone
        /\ conv = OneMore(worker.before, Alone, worker.ok, dealt)
        /\ worker.seen = IF worker.kind = "declarative" THEN <<>> ELSE worker.before[Alone]
        /\ Metered
    BY <1>2, <1>3 DEF FInv, QuietInv
  <2>2. c = Alone /\ Alone' = Alone
    BY <1>1, <1>2, <1>3, <2>1, OneClient DEF Alone, Facades!Part
  <2>3. Metered' /\ (worker'.ok => worker'.reported = dealt)
    BY <1>2, <1>3, <2>1, <2>2 DEF Metered
  <2>4. QED
    BY <1>2, <1>3, <2>1, <2>2, <2>3 DEF QuietInv
<1>9. QED
  BY <1>4, <1>5, <1>6, <1>7, <1>8 DEF FInv

LEMMA FStutter == FInv /\ UNCHANGED Facades!vars => FInv'
<1> SUFFICES ASSUME FInv, UNCHANGED Facades!vars PROVE FInv'
  OBVIOUS
<1>1. UNCHANGED << conv, metered, wired, worker, main, dealt, deeds, told, torn >>
  BY DEF Facades!vars
<1>2. FTypeInv' /\ WiredInv' /\ KindInv'
  BY <1>1 DEF FInv, FTypeInv, WiredInv, KindInv, SetSoFar
<1>3. FreshInv' /\ ToldInv'
  BY <1>1 DEF FInv, FreshInv, Unsaid, ToldInv, Saved
<1>4. QuietInv'
  <2>1. Alone' = Alone /\ Behind' = Behind /\ Held' = Held /\ Metered' = Metered
    BY <1>1 DEF Alone, Behind, Held, Metered
  <2>2. QED
    BY <1>1, <2>1 DEF FInv, QuietInv
<1>5. QED
  BY <1>2, <1>3, <1>4 DEF FInv

LEMMA FNext == FInv /\ [Facades!Next]_Facades!vars => FInv'
<1> SUFFICES ASSUME FInv, [Facades!Next]_Facades!vars PROVE FInv'
  OBVIOUS
<1>1. CASE Facades!Work
  BY <1>1, FBegin, FSuspendRead, FSuspendClear, FTake, FGenerate, FRestoreRead, FRestoreWrite, FReport
     DEF Facades!Work
<1>2. CASE Facades!SetPart("facade", "manager") \/ Facades!SetPart("manager", "engine")
  BY <1>2, FSetPart
<1>3. CASE Facades!SetPart("engine", "adapter") \/ Facades!SetPart("adapter", "idle")
  BY <1>3, FSetPart
<1>4. CASE Facades!Switch \/ Facades!AddRead \/ Facades!AddWrite
  BY <1>4, FSwitch, FAddRead, FAddWrite
<1>5. CASE UNCHANGED Facades!vars
  BY <1>5, FStutter
<1>6. QED
  BY <1>1, <1>2, <1>3, <1>4, <1>5 DEF Facades!Next, Facades!Deeds

-----------------------------------------------------------------------------
(* A sequence of different numbers up to n has at most n of them. *)
LEMMA OnceIsShort ==
    ASSUME NEW n \in Nat, NEW s \in Seq(Nat), Within(s, 1..n), Once(s)
    PROVE  Len(s) <= n
<1>1. PICK m \in Nat : m = Len(s) /\ DOMAIN s = 1..m
  OBVIOUS
<1>2. s \in [1..m -> 1..n]
  BY <1>1 DEF Within
<1>3. \A a, b \in 1..m : s[a] = s[b] => a = b
  BY <1>1 DEF Once
<1>4. s \in Injection(1..m, 1..n)
  BY <1>2, <1>3 DEF Injection, IsInjective
<1>5. /\ IsFiniteSet(1..n) /\ Cardinality(1..n) = n
      /\ Cardinality(1..m) = m
  BY FS_Interval
<1>6. Cardinality(1..m) <= Cardinality(1..n)
  BY <1>4, <1>5, FS_Injection
<1>7. QED
  BY <1>1, <1>5, <1>6

LEMMA FHeard ==
    ASSUME FInv, ~torn, NEW message \in 1..MaxCalls + MaxDeeds
    PROVE  Facades!Heard(message) = IF message \in told THEN 1 ELSE 0
<1> DEFINE N == MaxCalls + MaxDeeds
           Ks == {k \in DOMAIN Saved : Saved[k] = message}
           Cs == Facades!Places(message)
<1>1. N \in Nat
  BY BoundsAreNaturals
<1>2. Spread(conv, Saved, told)
  BY DEF FInv, ToldInv
<1>3. Facades!SavedPlaces(message) = Ks
  BY DEF Facades!SavedPlaces, Saved
<1>4. told \subseteq 1..N
  <2>1. PICK d \in Nat, n \in Nat, a \in Nat, e \in Nat : d = deeds /\ n = MaxCalls /\ a = dealt /\ e = MaxDeeds
    BY BoundsAreNaturals DEF FInv, FTypeInv
  <2>2. a <= n /\ d <= e
    BY <2>1 DEF FInv, FreshInv
  <2>3. (1..a) \cup (n + 1 .. n + d) \subseteq 1..n + e
    BY <2>2
  <2>4. QED
    BY <2>1, <2>3 DEF FInv, FreshInv
<1>5. ASSUME NEW c \in Clients PROVE /\ DOMAIN conv[c] \subseteq 1..N
                                    /\ Within(conv[c], told) /\ Once(conv[c])
  <2>1. PICK s \in Seq(Nat) : s = conv[c]
    BY DEF FInv, FTypeInv, Conversations
  <2>2. Within(s, told) /\ Once(s)
    BY <1>2, <2>1 DEF Spread
  <2>3. Within(s, 1..N)
    BY <1>4, <2>2 DEF Within
  <2>4. Len(s) <= N
    BY <1>1, <2>2, <2>3, OnceIsShort
  <2>5. QED
    BY <1>1, <2>1, <2>2, <2>4
<1>6. \A p \in Cs : /\ p = << p[1], p[2] >> /\ p[1] \in Clients
                    /\ p[2] \in DOMAIN conv[p[1]] /\ conv[p[1]][p[2]] = message
  BY DEF Facades!Places
<1>7. \A c \in Clients : \A k \in DOMAIN conv[c] : conv[c][k] = message => << c, k >> \in Cs
  BY <1>5 DEF Facades!Places
<1>8. Facades!Heard(message) = Facades!Cardinality(Cs) + Facades!Cardinality(Ks)
  BY <1>3 DEF Facades!Heard
<1>9. \A S : Facades!Cardinality(S) = Cardinality(S)
  BY DEF Cardinality, Facades!Cardinality
<1> HIDE DEF N, Ks, Cs
<1>10. CASE message \notin told
  <2>1. Cs = {}
    BY <1>5, <1>6, <1>10 DEF Within
  <2>2. Ks = {}
    BY <1>2, <1>10 DEF Ks, Spread, Within
  <2>3. QED
    BY <1>8, <1>9, <1>10, <2>1, <2>2, FS_EmptySet
<1>11. CASE message \in told /\ Occurs(message, Saved)
  <2>1. PICK k \in DOMAIN Saved : Saved[k] = message
    BY <1>11 DEF Occurs
  <2>2. Ks = {k}
    BY <1>2, <2>1 DEF Ks, Spread, Once
  <2>3. Cs = {}
    BY <1>2, <1>6, <2>1 DEF Spread, Apart
  <2>4. QED
    <3>1. Cardinality(Cs) = 0 /\ Cardinality(Ks) = 1
      BY <2>2, <2>3, FS_EmptySet, FS_Singleton
    <3>2. QED
      BY <1>8, <1>9, <1>11, <3>1
<1>12. CASE message \in told /\ ~Occurs(message, Saved)
  <2>1. PICK c \in Clients : Occurs(message, conv[c])
    BY <1>2, <1>12 DEF Spread
  <2>2. PICK k \in DOMAIN conv[c] : conv[c][k] = message
    BY <2>1 DEF Occurs
  <2>3. Ks = {}
    BY <1>12 DEF Ks, Occurs
  <2>4. << c, k >> \in Cs
    BY <1>7, <2>2
  <2>5. ASSUME NEW p \in Cs PROVE p = << c, k >>
    <3>1. p[1] = c
      BY <1>2, <1>6, <2>2 DEF Spread, Apart
    <3>2. p[2] = k
      BY <1>5, <1>6, <2>2, <3>1 DEF Once
    <3>3. QED
      BY <1>6, <3>1, <3>2
  <2>6. Cs = {<< c, k >>}
    BY <2>4, <2>5
  <2>7. QED
    <3>1. Cardinality(Ks) = 0 /\ Cardinality(Cs) = 1
      BY <2>3, <2>6, FS_EmptySet, FS_Singleton
    <3>2. QED
      BY <1>8, <1>9, <1>12, <3>1
<1>13. QED
  BY <1>10, <1>11, <1>12

LEMMA FRight == FInv => WiringRight
<1> SUFFICES ASSUME FInv PROVE WiringRight
  OBVIOUS
<1>1. main.pc \in {"idle", "add"} => \A p \in Facades!Part : wired[p] = main.client
  BY DEF FInv, WiredInv, SetSoFar
<1>2. ~torn => \A message \in 1..MaxCalls + MaxDeeds :
                  Facades!Heard(message) = IF message \in told THEN 1 ELSE 0
  BY FHeard
<1>3. ASSUME worker.pc = "done" /\ worker.quiet
      PROVE  /\ conv = IF worker.ok THEN [worker.before EXCEPT ![worker.asked] =
                                             Append(worker.before[worker.asked], Facades!Exchange)]
                       ELSE worker.before
             /\ worker.seen = IF worker.kind = "declarative" THEN <<>> ELSE worker.before[worker.asked]
             /\ worker.ok => worker.reported = Facades!Exchange
  BY <1>3 DEF FInv, QuietInv, OneMore, Facades!Exchange
<1>4. QED
  BY <1>1, <1>2, <1>3 DEF WiringRight, Facades!WiringRight

(* When set_client is over all parts use its client; every exchange answered
   or added stands once, in a conversation or in what a declarative call has
   saved, as long as no history was overwritten that had changed; and a call
   nothing disturbs adds its own exchange to its client alone and reports its
   usage (FFAI.py:259-276, conversation_manager.py:62-95). *)
THEOREM WiringHolds == Facades!Spec => []WiringRight
<1>1. MaxCalls \in Nat /\ MaxDeeds \in Nat
  BY BoundsAreNaturals
<1>2. Facades!Init => FInv
  BY <1>1, FInit
<1>3. QED
  BY <1>2, FNext, FRight, PTL DEF Facades!Spec
=============================================================================
