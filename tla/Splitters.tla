------------------------------- MODULE Splitters -------------------------------
(***************************************************************************)
(* The chunkers of ffai.rag.splitters. A text is a sequence of characters  *)
(* that remember where they stand in the document (at), so that a chunk    *)
(* shows which parts of the document it holds however it was cut, stripped *)
(* and joined. Kinds of character: "w" a word character, " " a space, "n"  *)
(* a newline, "." an end of sentence, "#" the start of a Markdown header   *)
(* or of a function definition. Offsets count from 0, as in the code.      *)
(***************************************************************************)
EXTENDS Integers, Sequences, SequencesExt, FiniteSetsExt

Text(kinds) == [i \in DOMAIN kinds |-> [at |-> i, is |-> kinds[i]]]

Blank(c) == c.is \in {" ", "n"}

(* text[from:to], for offsets in the text. *)
Slice(text, from, to) == SubSeq(text, from + 1, to)

Strip(text) ==
    LET solid == {i \in DOMAIN text : ~Blank(text[i])} IN
    IF solid = {} THEN <<>> ELSE SubSeq(text, Min(solid), Max(solid))

(* Characters the code puts between pieces are nowhere in the document. *)
Inserted(kinds) == [i \in DOMAIN kinds |-> [at |-> 0, is |-> kinds[i]]]

Kinds(text) == [i \in DOMAIN text |-> text[i].is]

(* text.find(sub, from), -1 when there is none. *)
Find(text, sub, from) ==
    LET places == {p \in from..(Len(text) - Len(sub)) :
                      Kinds(Slice(text, p, p + Len(sub))) = Kinds(sub)} IN
    IF places = {} THEN -1 ELSE Min(places)

(* The last of some characters in text[from:to], or -1. *)
RFind(text, kinds, from, to) ==
    Max({-1} \union {p \in from..(to - 1) : text[p + 1].is \in kinds})

Chunk(content, start, end) == [content |-> content, start |-> start, end |-> end]

Smaller(a, b) == IF a < b THEN a ELSE b

Larger(a, b) == IF a > b THEN a ELSE b

(* Mutant: the overlap is taken from the next window. *)
AdvancePast(text, start, end, overlap) ==
    IF end < Len(text) /\ end + overlap < Len(text) THEN end + overlap ELSE end

(* Where the next window starts: overlapping, if that is progress. *)
Advance(text, start, end, overlap) ==
    IF end < Len(text) /\ end - overlap > start THEN Larger(0, end - overlap) ELSE end

-----------------------------------------------------------------------------
(* CharacterChunker *)

(* The end of a window: at its last blank, unless that is where it starts. *)
WindowEnd(text, size, start) ==
    LET full == Smaller(start + size, Len(text))
        blank == RFind(text, {" ", "n"}, start, full) IN
    IF full < Len(text) /\ blank > start THEN blank ELSE full

(* The walk back to a word boundary, which never leaves the overlap. *)
WalkBack(text, start, end, overlap) ==
    Max({p \in (start - 2 * overlap)..start :
            \/ p <= end - overlap \/ p >= Len(text) \/ p = start - 2 * overlap
            \/ Blank(text[p + 1])})

RECURSIVE CharacterFrom(_, _, _, _)
CharacterFrom(text, size, overlap, start) ==
    IF start >= Len(text) THEN <<>>
    ELSE LET end == WindowEnd(text, size, start)
             content == Strip(Slice(text, start, end))
             next == Advance(text, start, end, overlap)
             boundary == IF next < Len(text) THEN WalkBack(text, next, end, overlap) ELSE next
         IN (IF content = <<>> THEN <<>> ELSE << Chunk(content, start, end) >>)
            \o CharacterFrom(text, size, overlap, boundary)

CharacterChunks(text, size, overlap) ==
    IF Strip(text) = <<>> THEN <<>> ELSE CharacterFrom(text, size, overlap, 0)

-----------------------------------------------------------------------------
(* HierarchicalChunker *)

RECURSIVE ParentsFrom(_, _, _)
ParentsFrom(text, size, start) ==
    IF start >= Len(text) THEN <<>>
    ELSE LET full == Smaller(start + size, Len(text))
             blank == RFind(text, {" ", "n"}, start, full)
             end == IF full < Len(text) /\ blank > start + size \div 2 THEN blank ELSE full
             content == Strip(Slice(text, start, end))
             next == Min({p \in end..Len(text) : p = Len(text) \/ ~Blank(text[p + 1])})
         IN (IF content = <<>> THEN <<>> ELSE << Chunk(content, start, end) >>)
            \o ParentsFrom(text, size, next)

(* The children of a parent; offset: where the parent says it starts. *)
RECURSIVE ChildrenFrom(_, _, _, _, _)
ChildrenFrom(text, size, overlap, offset, start) ==
    IF start >= Len(text) THEN <<>>
    ELSE LET end == WindowEnd(text, size, start)
             content == Strip(Slice(text, start, end))
         IN (IF content = <<>> THEN <<>> ELSE << Chunk(content, offset + start, offset + end) >>)
            \o ChildrenFrom(text, size, overlap, offset, Advance(text, start, end, overlap))

(* chunk and _enrich_hierarchical_chunks: the children, which are what is
   indexed, each with the content of its parent. *)
HierarchicalChunks(text, size, overlap, parentSize) ==
    IF Strip(text) = <<>> THEN <<>>
    ELSE LET parents == ParentsFrom(text, parentSize, 0)
             family(p) == [i \in DOMAIN ChildrenFrom(p.content, size, overlap, p.start, 0) |->
                              [child |-> ChildrenFrom(p.content, size, overlap, p.start, 0)[i],
                               parent |-> p]]
         IN FlattenSeq([i \in DOMAIN parents |-> family(parents[i])])

-----------------------------------------------------------------------------
(* RecursiveChunker *)

(* The pieces between separators, and the separators when they are kept. *)
RECURSIVE SplitOn(_, _, _)
SplitOn(text, separator, keep) ==
    LET place == Find(text, separator, 0) IN
    IF text = <<>> THEN <<>>
    ELSE IF place = -1 THEN << text >>
    ELSE LET before == Slice(text, 0, place)
             sep == Slice(text, place, place + Len(separator)) IN
         (IF before = <<>> THEN <<>> ELSE << before >>)
         \o (IF keep THEN << sep >> ELSE <<>>)
         \o SplitOn(Slice(text, place + Len(separator), Len(text)), separator, keep)

(* _split_text_recursive: pieces that are too long are split on the next
   separator; the empty separator splits into characters. *)
RECURSIVE Pieces(_, _, _, _)
Pieces(text, separators, keep, size) ==
    IF text = <<>> THEN <<>>
    ELSE IF separators = <<>> THEN << text >>
    ELSE IF Head(separators) = <<>> THEN [i \in DOMAIN text |-> << text[i] >>]
    ELSE LET splits == SplitOn(text, Inserted(Head(separators)), keep) IN
         IF splits = <<>> THEN << text >>
         ELSE FlattenSeq([i \in DOMAIN splits |->
                  IF Len(splits[i]) <= size THEN << splits[i] >>
                  ELSE Pieces(splits[i], Tail(separators), keep, size)])

(* _split_large_text *)
RECURSIVE LargeFrom(_, _, _, _)
LargeFrom(text, size, offset, start) ==
    IF start >= Len(text) THEN <<>>
    ELSE LET full == Smaller(start + size, Len(text))
             space == RFind(text, {" "}, start, full)
             end == IF full < Len(text) /\ space > start THEN space ELSE full
             content == Strip(Slice(text, start, end))
         IN (IF content = <<>> THEN <<>> ELSE << Chunk(content, offset + start, offset + end) >>)
            \o LargeFrom(text, size, offset, end)

Joined(parts) == FlattenSeq([i \in DOMAIN parts |-> parts[i].content])

(* _finalize_chunks *)
Finalized(chunks, parts) ==
    IF parts = <<>> \/ Strip(Joined(parts)) = <<>> THEN chunks
    ELSE Append(chunks, Chunk(Strip(Joined(parts)), Head(parts).start, Last(parts).end))

(* _get_overlap_text: the end of what was collected, from a word on. *)
OverlapText(parts, overlap) ==
    LET all == Joined(parts)
        tail == Slice(all, Len(all) - overlap, Len(all))
        space == Find(tail, Inserted(<<" ">>), 0) IN
    IF Len(all) <= overlap THEN all
    ELSE IF space > 0 THEN Slice(tail, space + 1, Len(tail)) ELSE tail

(* The parts the next chunk begins with: the overlap, where it is found again. *)
Carried(text, parts, start, overlap) ==
    LET again == OverlapText(parts, overlap)
        from == start - Len(again)
        place == Find(text, again, IF from < 0 THEN Larger(0, Len(text) + from) ELSE from) IN
    IF parts = <<>> \/ again = <<>> \/ place = -1 THEN <<>>
    ELSE << Chunk(again, place, place + Len(again)) >>

(* A part is added to those collected, or begins another chunk. *)
AddPart(size, state, part) ==
    IF Len(Joined(state.parts)) + Len(part.content) <= size
      THEN [state EXCEPT !.parts = Append(@, part)]
    ELSE [state EXCEPT !.chunks = Finalized(@, state.parts), !.parts = << part >>]

(* One round of the loop over the pieces, with the place of the piece. *)
CollectAt(text, size, overlap, state, piece, start) ==
    LET part == Chunk(piece, start, start + Len(piece))
        flushed == [state EXCEPT !.chunks = Finalized(@, state.parts), !.pos = part.end,
                                 !.parts = Carried(text, @, start, overlap)] IN
    IF Len(Joined(state.parts)) + Len(piece) <= size
      THEN [state EXCEPT !.parts = Append(@, part), !.pos = part.end]
    ELSE IF Len(piece) <= size
      THEN [flushed EXCEPT !.parts = Append(@, part)]
    ELSE FoldLeft(LAMBDA s, p : AddPart(size, s, p), flushed, LargeFrom(piece, size, start, 0))

Collect(text, size, overlap, state, piece) ==
    LET found == Find(text, piece, state.pos) IN
    CollectAt(text, size, overlap, state, piece, IF found = -1 THEN state.pos ELSE found)

RecursiveChunks(text, size, overlap, separators, keep) ==
    LET step(state, piece) == Collect(text, size, overlap, state, piece)
        end == FoldLeft(step, [chunks |-> <<>>, parts |-> <<>>, pos |-> 0],
                        Pieces(text, separators, keep, size))
    IN IF Strip(text) = <<>> THEN <<>> ELSE Finalized(end.chunks, end.parts)

-----------------------------------------------------------------------------
(* MarkdownChunker *)

Newline == Inserted(<<"n">>)

Lines(text) ==
    LET ends == {i \in DOMAIN text : text[i].is = "n"} \union {Len(text) + 1}
        cuts == SetToSortSeq(ends, <) IN
    [i \in DOMAIN cuts |-> SubSeq(text, IF i = 1 THEN 1 ELSE cuts[i - 1] + 1, cuts[i] - 1)]

StartsBlock(line) == line # <<>> /\ line[1].is = "#"

(* _split_by_headers: every line ends in a newline of its own. *)
Sections(text) ==
    LET close(sections, section) ==
            IF Strip(section) = <<>> THEN sections ELSE Append(sections, section)
        step(s, line) ==
            IF StartsBlock(line)
              THEN [sections |-> close(s.sections, s.section), section |-> line \o Newline]
            ELSE [s EXCEPT !.section = @ \o line \o Newline]
        end == FoldLeft(step, [sections |-> <<>>, section |-> <<>>], Lines(text))
    IN close(end.sections, end.section)

(* The pieces too long for a chunk. *)
TooLong(pieces, size) == {p \in ToSet(pieces) : Len(p) > size}

Shifted(chunks, offset) ==
    [i \in DOMAIN chunks |-> [chunks[i] EXCEPT !.start = @ + offset, !.end = @ + offset]]

(* A run of pieces is joined while it fits; cut holds what a piece that does
   not fit on its own is cut into. Offsets count only what was kept. *)
Packed(pieces, joiner, size, offset, cut) ==
    LET flush(s) ==
            IF s.run = <<>> THEN s
            ELSE [chunks |-> Append(s.chunks, Chunk(Strip(s.run), s.at, s.at + Len(s.run))),
                  run |-> <<>>, at |-> s.at + Len(s.run)]
        step(s, piece) ==
            IF Len(s.run) + Len(piece) + Len(joiner) <= size
              THEN [s EXCEPT !.run = @ \o (IF @ = <<>> THEN <<>> ELSE joiner) \o piece]
            ELSE IF Len(piece) > size
              THEN LET f == flush(s) IN
                   [f EXCEPT !.chunks = @ \o Shifted(cut[piece].chunks, f.at),
                             !.at = @ + cut[piece].advance]
            ELSE [flush(s) EXCEPT !.run = piece]
        end == FoldLeft(step, [chunks |-> <<>>, run |-> <<>>, at |-> offset], pieces)
    IN IF Strip(end.run) = <<>> THEN end.chunks ELSE flush(end).chunks

(* Sentences end with a mark that is followed by blanks. *)
Sentences(text) ==
    LET gaps == {i \in DOMAIN text :
                    /\ Blank(text[i])
                    /\ \E j \in 1..(i - 1) : text[j].is = "." /\ \A k \in (j + 1)..i : Blank(text[k])}
        starts == {i \in DOMAIN text \ gaps : i = 1 \/ i - 1 \in gaps}
        ends(i) == Min({j \in i..Len(text) : j = Len(text) \/ j + 1 \in gaps})
        order == SetToSortSeq(starts, <) IN
    [i \in DOMAIN order |-> SubSeq(text, order[i], ends(order[i]))]
    \o (IF text # <<>> /\ Len(text) \in gaps THEN << <<>> >> ELSE <<>>)

(* A sentence is cut at every size characters, and a chunk is stripped. *)
CutSentence(size, sentence) ==
    [advance |-> 0,
     chunks |-> [i \in 1..((Len(sentence) + size - 1) \div size) |->
        LET from == (i - 1) * size
            to == Smaller(i * size, Len(sentence)) IN
        Chunk(Strip(Slice(sentence, from, to)), from, to)]]

(* _split_paragraph *)
CutParagraph(size, paragraph) ==
    LET sentences == Sentences(paragraph) IN
    [advance |-> Len(paragraph),
     chunks |-> Packed(sentences, Inserted(<<" ">>), size, 0,
                       [s \in TooLong(sentences, size) |-> CutSentence(size, s)])]

(* Paragraphs are what two newlines or more separate. *)
Paragraphs(text) ==
    LET gap(i) == text[i].is = "n" /\ \E j \in {i - 1, i + 1} \intersect DOMAIN text : text[j].is = "n"
        starts == {i \in DOMAIN text : ~gap(i) /\ (i = 1 \/ gap(i - 1))}
        ends(i) == Min({j \in i..Len(text) : j = Len(text) \/ gap(j + 1)})
        order == SetToSortSeq(starts, <) IN
    [i \in DOMAIN order |-> SubSeq(text, order[i], ends(order[i]))]

(* _split_large_section *)
SectionChunks(size, section, offset) ==
    LET paragraphs == SelectSeq(Paragraphs(section), LAMBDA p : Strip(p) # <<>>) IN
    Packed(paragraphs, Inserted(<<"n", "n">>), size, offset,
           [p \in TooLong(paragraphs, size) |-> CutParagraph(size, p)])

(* _add_overlap *)
Overlapped(chunks, overlap) ==
    [i \in DOMAIN chunks |->
        IF i = 1 \/ overlap = 0 THEN chunks[i]
        ELSE LET before == chunks[i - 1].content
                 tail == Slice(before, Larger(0, Len(before) - overlap), Len(before)) IN
             IF Strip(tail) = <<>> \/ Find(chunks[i].content, tail, 0) # -1 THEN chunks[i]
             ELSE [chunks[i] EXCEPT !.content = tail \o Newline \o @]]

(* With fallback off, a section that is too long is not indexed at all. *)
MarkdownChunks(text, size, overlap, fallback) ==
    LET step(s, section) ==
            LET found == Find(text, section, s.pos)
                start == IF found = -1 THEN s.pos ELSE found IN
            [pos |-> start + Len(section),
             chunks |-> s.chunks \o
                IF Len(section) <= size
                  THEN << Chunk(Strip(section), start, start + Len(section)) >>
                ELSE IF fallback THEN SectionChunks(size, section, start) ELSE <<>>]
    IN IF Strip(text) = <<>> THEN <<>>
       ELSE Overlapped(FoldLeft(step, [pos |-> 0, chunks |-> <<>>], Sections(text)).chunks, overlap)

-----------------------------------------------------------------------------
(* CodeChunker *)

LineSize(lines) == FoldLeft(LAMBDA n, line : n + Len(line) + 1, 0, lines)

JoinLines(lines) ==
    FlattenSeq([i \in DOMAIN lines |-> (IF i = 1 THEN <<>> ELSE Newline) \o lines[i]])

(* _extract_code_blocks: a block runs to the next definition; the first line
   starts one in any case, so that there always is a block. *)
Blocks(text) ==
    LET lines == Lines(text)
        starts(i) == i = 1 \/ \E j \in DOMAIN lines[i] :
                        lines[i][j].is = "#" /\ \A k \in 1..(j - 1) : Blank(lines[i][k])
        order == SetToSortSeq({i \in DOMAIN lines : starts(i)}, <)
        last(b) == IF b = Len(order) THEN Len(lines) ELSE order[b + 1] - 1 IN
    [b \in DOMAIN order |->
        [lines |-> SubSeq(lines, order[b], last(b)),
         start |-> LineSize(SubSeq(lines, 1, order[b] - 1)),
         end |-> IF b = Len(order) THEN Len(text) ELSE LineSize(SubSeq(lines, 1, last(b)))]]

(* _get_overlap_lines: the last lines that fit into the overlap. *)
OverlapLines(lines, overlap) ==
    LET fit == {n \in 0..Len(lines) :
                   LineSize(SubSeq(lines, Len(lines) - n + 1, Len(lines))) <= overlap} IN
    SubSeq(lines, Len(lines) - Max(fit) + 1, Len(lines))

(* _split_large_block; the last part ends at the length of the block. *)
BlockChunks(size, overlap, block) ==
    LET upto(n) == block.start + LineSize(SubSeq(block.lines, 1, n))
        step(s, line) ==
            LET full == LineSize(s.run) + Len(line) + 1 > size /\ s.run # <<>>
                kept == IF full THEN OverlapLines(s.run, overlap) ELSE s.run IN
            [run |-> Append(kept, line), read |-> s.read + 1,
             first |-> IF full THEN s.read - Len(kept) ELSE s.first,
             chunks |-> IF full
                          THEN Append(s.chunks, Chunk(JoinLines(s.run), upto(s.first), upto(s.read)))
                        ELSE s.chunks]
        end == FoldLeft(step, [run |-> <<>>, read |-> 0, first |-> 0, chunks |-> <<>>], block.lines)
    IN Append(end.chunks, Chunk(JoinLines(end.run), upto(end.first), Len(JoinLines(block.lines))))

CodeChunks(text, size, overlap) ==
    LET chunksOf(block) ==
            IF Len(JoinLines(block.lines)) <= size
              THEN << Chunk(JoinLines(block.lines), block.start, block.end) >>
            ELSE BlockChunks(size, overlap, block)
        blocks == Blocks(text)
    IN IF Strip(text) = <<>> THEN <<>>
       ELSE FlattenSeq([b \in DOMAIN blocks |-> chunksOf(blocks[b])])

-----------------------------------------------------------------------------
(* What a splitter promises *)

Places(content) == {content[i].at : i \in DOMAIN content} \ {0}

(* Each character that is not blank is in some chunk. *)
Kept(text, chunks) ==
    \A i \in DOMAIN text : Blank(text[i]) \/ \E c \in DOMAIN chunks : i \in Places(chunks[c].content)

(* The content of a chunk is the text between its offsets, stripped. *)
Located(text, chunk) ==
    /\ 0 <= chunk.start /\ chunk.start <= chunk.end /\ chunk.end <= Len(text)
    /\ Strip(Slice(text, chunk.start, chunk.end)) = Strip(chunk.content)

Within(chunks, size) == \A c \in DOMAIN chunks : Len(chunks[c].content) <= size

Whole(text, chunks, size) == Kept(text, chunks) /\ Within(chunks, size)

Exact(text, chunks, size) ==
    Whole(text, chunks, size) /\ \A c \in DOMAIN chunks : Located(text, chunks[c])

(* A child is within its parent, and both are where they say they are; where
   a text begins with blanks the places of the children are off by them. *)
Nested(text, family) ==
    /\ Located(text, family.parent)
    /\ Places(family.child.content) \subseteq Places(family.parent.content)
    /\ ~Blank(text[1]) => Located(text, family.child)

Families(text, families, size) ==
    /\ Whole(text, [f \in DOMAIN families |-> families[f].child], size)
    /\ Within([f \in DOMAIN families |-> families[f].parent], size + 1)
    /\ \A f \in DOMAIN families : Nested(text, families[f])

(* No chunker loses a character of a text that is not blank, whatever is cut,
   joined, stripped or repeated; the offsets of the character, recursive and
   hierarchical chunkers find the content again in the text; and chunks keep
   to their size, or exceed it by the overlap where the code adds that to a
   full chunk. The Markdown and code chunkers promise no offsets here: theirs
   drift (rag/splitters/character.py:37, recursive.py:52, markdown.py:55,
   code.py:85, hierarchical.py:40). *)
ChunksRight(text, size, overlap) ==
    LET separators == << <<"n">>, <<" ">>, <<>> >> IN
    /\ Exact(text, CharacterChunks(text, size, overlap), size)
    /\ Exact(text, RecursiveChunks(text, size, overlap, separators, TRUE), size + overlap)
    /\ Whole(text, RecursiveChunks(text, size, overlap, separators, FALSE), size + overlap)
    /\ Whole(text, MarkdownChunks(text, size, overlap, TRUE), size + overlap + 1)
    /\ Kept(text, CodeChunks(text, size, overlap))
    /\ Families(text, HierarchicalChunks(text, size, overlap, size + 1), size)
=============================================================================
