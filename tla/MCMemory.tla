------------------------------- MODULE MCMemory -------------------------------
(***************************************************************************)
(* An instance of Memory: two embedding models, every order of recording,  *)
(* searching, reindexing, clearing, closing, crashing and starting again.  *)
(***************************************************************************)
EXTENDS Memory
=============================================================================
