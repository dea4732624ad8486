------------------------ MODULE AnnotatedTrajectories ------------------------
(***************************************************************************)
(* What the scripts that annotate trajectories promise: an annotation that *)
(* a file has once received stays, whoever writes the file afterwards.     *)
(* Some sessions are started to replace annotations of one sort; only they *)
(* take any away, and of that sort only.  Only a kill can ruin files, and  *)
(* then the whole of them.                                                 *)
(***************************************************************************)
CONSTANTS
    Trajs,
    Facts,
    Replaceable    \* the facts that a session may have been started to replace

VARIABLES
    facts,     \* the annotations each file holds
    ruined,    \* the files that can no longer be read
    session    \* the session under way: "none", one that is "adding" or "replacing"

vars == << facts, ruined, session >>

Init ==
    /\ facts \in [Trajs -> SUBSET Facts]
    /\ ruined = {}
    /\ session = "none"

Running == session \in {"adding", "replacing"}

Start ==
    /\ ~Running
    /\ session' \in {"adding", "replacing"}
    /\ UNCHANGED << facts, ruined >>

\* What the session under way has to leave in a file that holds F.
Kept(F) == IF session = "replacing" THEN F \ Replaceable ELSE F

Annotate(t) ==
    /\ Running
    /\ t \notin ruined
    /\ Kept(facts[t]) \subseteq facts'[t]
    /\ facts'[t] \subseteq Facts
    /\ facts' = [facts EXCEPT ![t] = facts'[t]]
    /\ UNCHANGED << ruined, session >>

End ==
    /\ Running
    /\ session' = "none"
    /\ UNCHANGED << facts, ruined >>

Kill(R) ==
    /\ Running
    /\ session' = "none"
    /\ ruined' = ruined \cup R
    /\ facts' = [t \in Trajs |-> IF t \in R THEN {} ELSE facts[t]]

Next ==
    \/ Start
    \/ \E t \in Trajs : Annotate(t)
    \/ End
    \/ \E R \in SUBSET Trajs : Kill(R)

Spec == Init /\ [][Next]_vars
=============================================================================
