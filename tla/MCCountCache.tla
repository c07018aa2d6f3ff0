--------------------------- MODULE MCCountCache ---------------------------
(***************************************************************************)
(* Two readers and two writers over two predecessors: a reader can take    *)
(* the memo while one writer commits and the other waits to clear it.      *)
(***************************************************************************)
EXTENDS CountCache, TLC

Threads == Permutations(Readers) \cup Permutations(Writers)
=============================================================================
