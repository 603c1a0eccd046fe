--------------------------- MODULE MCIcarusCache ---------------------------
(* Model checking of IcarusCache: every policy with every wrapper that     *)
(* goes with it.                                                           *)
EXTENDS IcarusCache

Kinds ==
  {"NULL", "LRU", "SLRU", "LFU", "FIFO", "RAND"} \X {"plain"}
  \cup {"LRU", "SLRU", "LFU", "FIFO", "RAND"} \X {"keyval"}
  \cup {"LRU", "SLRU", "LFU", "RAND"} \X {"ttl"}
  \cup {<<"SLRU", "rand_insert">>}

FifoWithTtl == {<<"FIFO", "ttl">>}
=============================================================================
