----------------------------- MODULE MCLruCache -----------------------------
(* Model checking of LruCache: one cell more than the cache has positions, *)
(* since data_store allocates the new position before it frees one.        *)
EXTENDS LruCache

CONSTANTS p1, p2, p3, p4

Cells == {p1, p2, p3, p4}
=============================================================================
