------------------------------ MODULE MCCcnSim ------------------------------
(***************************************************************************)
(* Topologies and catalogues for the model checking of CcnSim.             *)
(***************************************************************************)
EXTENDS CcnSim

CONSTANTS n1, n2, n3, n4, c1, c2, c3

(* Topologies, as the neighbours of every node.                            *)
Line3 == [n \in Node |-> IF n = n2 THEN {n1, n3} ELSE {n2}]

Triangle == [n \in Node |-> Node \ {n}]

Line4 == [n \in Node |-> CASE n = n1 -> {n2}     [] n = n2 -> {n1, n3}
                           [] n = n3 -> {n2, n4} [] n = n4 -> {n3}]

Star4 == [n \in Node |-> IF n = n2 THEN Node \ {n2} ELSE {n2}]

(* Distances and first hops of shortest paths, by breadth-first search.    *)
Within[k \in 0 .. Cardinality(Node)] ==
  [n \in Node |-> IF k = 0 THEN {n}
                  ELSE Within[k-1][n] \cup UNION {Within[k-1][m] : m \in Neighbour[n]}]

Distance ==
  [n \in Node |-> [d \in Node |->
     CHOOSE k \in 0 .. Cardinality(Node) :
       d \in Within[k][n] /\ (k = 0 \/ d \notin Within[k-1][n])]]

FirstHop ==
  [n \in Node |-> [d \in Node \ {n} |->
     CHOOSE m \in Neighbour[n] : Distance[m][d] = Distance[n][d] - 1]]

(* The routes are those the theorems about hop counts speak of.            *)
ASSUME RoutesAreShortest == RoutesShorten /\ Diameter(Cardinality(Node) - 1)

(* Attachments of the clients.                                             *)
Apart    == [c \in Client |-> IF c = c1 THEN n1 ELSE n2]
Spread   == [c \in Client |-> IF c = c1 THEN n2 ELSE IF c = c2 THEN n3 ELSE n4]
AtLeaves == [c \in Client |-> IF c = c1 THEN n4 ELSE n2]

(* Catalogues.                                                             *)
OneChunk   == [f \in Name |-> 1]
TwoChunks  == [f \in Name |-> 2]
RepoAtN3   == [f \in Name |-> {n3}]
RepoAtN1   == [f \in Name |-> {n1}]
RepoAtN1N3 == [f \in Name |-> {n1, n3}]
=============================================================================
