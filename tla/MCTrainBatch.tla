---------------------------- MODULE MCTrainBatch ----------------------------
(***************************************************************************)
(* A small instance of TrainBatch: two trajectories of one sample and one  *)
(* of another.  The values of the critic are all different, so that a      *)
(* value taken from a wrong step or token shows.                           *)
(***************************************************************************)
EXTENDS TrainBatch

MCPrompts == {"p", "q"}
MCPromptOf == <<"p", "p", "q">>

\* The second trajectory of p goes nowhere with its first step.
MCAnchors == {"start", "hall"}
MCAnchorOf ==
  [i \in Trajs |-> [u \in Steps |-> IF i # 2 /\ u > 0 THEN "hall" ELSE "start"]]

MCValueOf == [i \in Trajs |-> [u \in Steps |-> [n \in Tokens |-> 9 * i + 3 * u + n]]]
=============================================================================
