-------------------------- MODULE MCIcarusNetwork --------------------------
(* Model checking of IcarusNetwork: receivers 1 and 2 at the opposite ends *)
(* of a square of routers, 3 to 6, and two sources, so that shortest paths *)
(* are not unique.                                                         *)
(*                                                                         *)
(*     1 - 3 - 4 - 2        7, the source of contents 1 and 2, hangs at 6, *)
(*         |   |            8, the source of content 3, hangs at 4.        *)
(*         5 - 6 - 7                                                       *)
EXTENDS IcarusNetwork

Nodes == <<1, 2, 3, 4, 5, 6, 7, 8>>

Caches == <<3, 4, 5>>

(* The paths that a search from every node finds: 3 reaches 6 over 4, but  *)
(* 6 reaches 3 over 5, as the order of the neighbours in memory has it.    *)
ShortestPaths ==
  <<
   <<<<1>>, <<1, 3, 4, 2>>, <<1, 3>>, <<1, 3, 4>>, <<1, 3, 5>>, <<1, 3, 4, 6>>,
     <<1, 3, 4, 6, 7>>, <<1, 3, 4, 8>>>>,
   <<<<2, 4, 3, 1>>, <<2>>, <<2, 4, 3>>, <<2, 4>>, <<2, 4, 3, 5>>, <<2, 4, 6>>,
     <<2, 4, 6, 7>>, <<2, 4, 8>>>>,
   <<<<3, 1>>, <<3, 4, 2>>, <<3>>, <<3, 4>>, <<3, 5>>, <<3, 4, 6>>,
     <<3, 4, 6, 7>>, <<3, 4, 8>>>>,
   <<<<4, 3, 1>>, <<4, 2>>, <<4, 3>>, <<4>>, <<4, 3, 5>>, <<4, 6>>,
     <<4, 6, 7>>, <<4, 8>>>>,
   <<<<5, 3, 1>>, <<5, 6, 4, 2>>, <<5, 3>>, <<5, 6, 4>>, <<5>>, <<5, 6>>,
     <<5, 6, 7>>, <<5, 6, 4, 8>>>>,
   <<<<6, 5, 3, 1>>, <<6, 4, 2>>, <<6, 5, 3>>, <<6, 4>>, <<6, 5>>, <<6>>,
     <<6, 7>>, <<6, 4, 8>>>>,
   <<<<7, 6, 5, 3, 1>>, <<7, 6, 4, 2>>, <<7, 6, 5, 3>>, <<7, 6, 4>>,
     <<7, 6, 5>>, <<7, 6>>, <<7>>, <<7, 6, 4, 8>>>>,
   <<<<8, 4, 3, 1>>, <<8, 4, 2>>, <<8, 4, 3>>, <<8, 4>>, <<8, 4, 6, 5>>,
     <<8, 4, 6>>, <<8, 4, 6, 7>>, <<8>>>>
  >>

Sources == <<7, 7, 8>>

Centrality == <<0, 0, 2, 2, 1, 1, 0, 0>>

Delays == [l \in Link |-> IF l[1] > 6 \/ l[2] > 6 THEN 3 ELSE 1]

AllStrategies ==
  {"NO_CACHE", "EDGE", "LCE", "LCD", "PROB_CACHE", "RAND_BERNOULLI", "RAND_CHOICE", "CL4M",
   "NRR_LCE", "NRR_LCD", "HR_SYMM", "HR_ASYMM", "HR_MULTICAST", "HR_HYBRID_AM", "HR_HYBRID_SM"}

HybridSMOnly == {"HR_HYBRID_SM"}
=============================================================================
