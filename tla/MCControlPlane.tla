---------------------------- MODULE MCControlPlane ----------------------------
(***************************************************************************)
(* ControlPlane for TLC.  Nodes and handler goroutines are interchangeable.*)
(***************************************************************************)
EXTENDS ControlPlane, TLC

\* The state constraint: at most two of the goroutines are busy at a time, and
\* the search stops where the properties claim nothing any more.
Interesting ==
  /\ \E q \in Procs : step[q] = "idle"
  /\ disturbed # Nodes

Symmetry == Permutations(Nodes) \cup Permutations(Requests)
===============================================================================
