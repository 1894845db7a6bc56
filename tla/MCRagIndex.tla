------------------------------ MODULE MCRagIndex ------------------------------
(***************************************************************************)
(* An instance of RagIndex: two sources, a text of two chunks and one of a *)
(* single chunk, and a second chunker that does not split.                 *)
(***************************************************************************)
EXTENDS RagIndex

MCChunks ==
    [text \in Version \X Strategy |->
        IF text[1] = "long" /\ text[2] = "split" THEN << <<"x">>, <<"x", "y">> >>
        ELSE IF text[1] = "long" THEN << <<"x", "x", "y">> >>
        ELSE << <<"z">> >>]

(* The names of sources and of calls are interchangeable. *)
MCSymmetry == Permutations(Source) \union Permutations(Call)
=============================================================================
