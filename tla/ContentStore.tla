---------------------------- MODULE ContentStore ----------------------------
(***************************************************************************)
(* What the core layer of a node relies on in a content store, whatever    *)
(* its replacement policy: a stored chunk enters, at most C chunks stay,   *)
(* and a chunk leaves only to make room for another.  CcnSim changes the   *)
(* content store of a node in exactly this way.                            *)
(***************************************************************************)
EXTENDS Naturals, FiniteSets

CONSTANTS Chunk, C

VARIABLE content

Insert(ch) ==
  /\ ch \notin content
  /\ IF Cardinality(content) < C
     THEN content' = content \cup {ch}
     ELSE \E victim \in content : content' = (content \ {victim}) \cup {ch}

Init == content = {}

Next == \E ch \in Chunk : Insert(ch)

Spec == Init /\ [][Next]_content
=============================================================================
