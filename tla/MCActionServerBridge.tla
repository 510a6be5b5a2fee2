------------------------ MODULE MCActionServerBridge ------------------------
(* The instances of ActionServerBridge that TLC checks. *)
EXTENDS ActionServerBridge, TLC

\* every goal request is for the same action
OneAction == [r \in RosGoals |-> CHOOSE a \in Actions : TRUE]

\* goal requests of one action are interchangeable, and so are the Hakoniwa
\* goal ids, which are drawn at random
Symmetry == Permutations(RosGoals) \cup Permutations(HakGoals)
=============================================================================
