-------------------------- MODULE MCTrajectoryTools --------------------------
(***************************************************************************)
(* The scripts of stage 4 for TLC: a trajectory with a click and a swipe,  *)
(* and one with a click and a step that needs no box and had no thought.   *)
(* On mobile both directories have one name.                               *)
(***************************************************************************)
EXTENDS TrajectoryTools, TLC

CONSTANTS t1, t2

KindOfStep ==
    t1 :> << "click", "swipe" >> @@ t2 :> << "click", "other" >>

SomeDicts ==
    t1 :> << {"none"}, {"none", "dict"} >> @@ t2 :> << {"none", "dict"}, {"none"} >>

OneName == [t \in Trajs |-> t1]

WithoutThought == {<< t2, 2 >>}
=============================================================================
