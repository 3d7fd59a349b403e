-------------------------- MODULE MCPoolAllocator ---------------------------
(* Values for the constants of PoolAllocator: addresses start at an address*)
(* that is aligned for some requests and not for others; some requests do  *)
(* not fit the pool, and some wrap around size_t together with the padding.*)
EXTENDS PoolAllocator

\* a one byte string, an odd string, a word, a node, nothing at all, and
\* arrays larger than the pool and as large as size_t allows
MixedRequests == {<<1, 1>>, <<3, 1>>, <<4, 4>>, <<8, 8>>, <<0, 2>>, <<40, 1>>, <<62, 4>>}
=============================================================================
