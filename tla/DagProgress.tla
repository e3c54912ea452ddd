---------------------------- MODULE DagProgress ----------------------------
(***************************************************************************)
(* What the run's DAG promises to a reader who only sees which nodes are   *)
(* done: work is done in dependency order, one node at a time, and is      *)
(* undone only by a repair command the operator asked for, which leaves    *)
(* another dependency-closed set of done nodes.                            *)
(***************************************************************************)
CONSTANTS Node, Deps

VARIABLES
  done,       \* the nodes whose work is accepted
  repairing   \* an operator's repair command is under way

Closed(D) == \A n \in D : Deps[n] \subseteq D

Init == done = {} /\ repairing = FALSE

Complete(n) ==
  /\ Deps[n] \subseteq done
  /\ done' = done \cup {n}
  /\ UNCHANGED repairing

BeginRepair == ~ repairing /\ repairing' = TRUE /\ UNCHANGED done

EndRepair ==
  /\ repairing /\ repairing' = FALSE
  /\ \E D \in SUBSET Node : Closed(D) /\ done' = D

Next == (\E n \in Node : Complete(n)) \/ BeginRepair \/ EndRepair

Spec == Init /\ [][Next]_<<done, repairing>>
=============================================================================
