---------------------------- MODULE MCQueueCache ----------------------------
(* Model checking of QueueCache: six chunks, two of every file.            *)
EXTENDS QueueCache

Ranks == [ch \in Chunk |-> (ch + 1) \div 2]
=============================================================================
