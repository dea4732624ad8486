-------------------------- MODULE RegenerateThought --------------------------
(***************************************************************************)
(* New thoughts for the steps of trajectories (src/uni_gui:                *)
(* computer/regenerate_thought.py and mobile/regenerate_thought.py).       *)
(*                                                                         *)
(* The script loads every file, asks the model for a thought for each      *)
(* step, many at a time, and keeps the old one as raw_thought.  Mobile     *)
(* writes the trajectories that are complete every few trajectories, and   *)
(* both write all the others at the end.                                   *)
(*                                                                         *)
(* With --resume the script skips the steps that have a raw_thought.       *)
(* Without it, which is how regenerate_thought.sh starts it, it takes      *)
(* every step, and what a regenerated one has for its thought by then      *)
(* becomes its raw_thought.  The option --dry-run is off.                  *)
(***************************************************************************)
EXTENDS TaskFiles

CONSTANT FlushEvery     \* trajectories between two writes on mobile

ASSUME RegenerateAssumption == FlushEvery \in Nat \ {0}

VARIABLES
    all_tasks,      \* the task data in memory
    traj_pending,   \* the steps of each trajectory that wait for the model
    unprinted,      \* trajectories completed since the last progress print
    saved_trajs,    \* written in this session
    writing,        \* the file being written, if any
    redoing,        \* whether the session was started without --resume
    redone          \* auxiliary: the steps such sessions have taken that had a raw_thought

thoughtVars == << all_tasks, traj_pending, unprinted, saved_trajs, writing, redoing,
                  redone >>

RegenerateInit ==
    /\ all_tasks = [t \in Trajs |-> Torn]
    /\ traj_pending = [t \in Trajs |-> {}]
    /\ unprinted = 0
    /\ saved_trajs = {}
    /\ writing = {}
    /\ redoing = FALSE
    /\ redone = {}

\* Variant: skips no step, --resume or not.
StepJobsAll(c, resume) == Steps

\* With --resume the steps without a raw_thought, else every step.
StepJobsOf(c, resume) == {s \in Steps : ~resume \/ c.raw[s] = "none"}

\* The steps with a raw_thought.
Regenerated == {j \in Trajs \X Steps : file[j[1]].raw[j[2]] # "none"}

\* One file that cannot be read ends the script before it has done anything.
StartRegenerate(resume) ==
    /\ NewSession
    /\ redoing' = ~resume
    /\ IF \E t \in Trajs : ~file[t].whole
       THEN phase' = "failed" /\ UNCHANGED << all_tasks, traj_pending, redone >>
       ELSE /\ all_tasks' = file
            /\ traj_pending' = [t \in Trajs |-> StepJobsOf(file[t], resume)]
            /\ phase' = IF \A t \in Trajs : StepJobsOf(file[t], resume) = {}
                        THEN "regenerated" ELSE "thoughts"
            /\ redone' = IF resume THEN redone ELSE redone \cup Regenerated
    /\ unprinted' = 0
    /\ saved_trajs' = {}
    /\ UNCHANGED << file, writing >>

\* An old thought that is empty leaves the raw_thought empty.
WithThought(c, s) ==
    [c EXCEPT !.raw[s] = c.thought[s], !.thought[s] = "new"]

NoneAsked == \A t \in Trajs : traj_pending[t] = {}

\* Variant: the count of trajectories since the last print is not reset.
ThoughtNeverPrinted(t, s) ==
    /\ phase = "thoughts"
    /\ s \in traj_pending[t]
    /\ \E c \in {all_tasks[t], WithThought(all_tasks[t], s)} :
          all_tasks' = [all_tasks EXCEPT ![t] = c]
    /\ traj_pending' = [traj_pending EXCEPT ![t] = @ \ {s}]
    /\ unprinted' = unprinted + (IF traj_pending[t] = {s} THEN 1 ELSE 0)
    /\ phase' = IF unprinted' >= FlushEvery /\ platform = "mobile" THEN "flush"
                ELSE IF NoneAsked' THEN "rewrite" ELSE phase
    /\ UNCHANGED << platform, sessions, file, saved_trajs, writing, redoing, redone >>

\* The main thread takes a result.
ThoughtAnswered(t, s) ==
    /\ phase = "thoughts"
    /\ s \in traj_pending[t]
    /\ \E c \in {all_tasks[t], WithThought(all_tasks[t], s)} :
          all_tasks' = [all_tasks EXCEPT ![t] = c]
    /\ traj_pending' = [traj_pending EXCEPT ![t] = @ \ {s}]
    /\ LET done == unprinted + (IF traj_pending[t] = {s} THEN 1 ELSE 0)
           print == done >= FlushEvery \/ NoneAsked'
       IN  /\ unprinted' = IF print THEN 0 ELSE done
           /\ phase' = IF print /\ platform = "mobile" THEN "flush"
                       ELSE IF NoneAsked' THEN "rewrite" ELSE phase
    /\ UNCHANGED << platform, sessions, file, saved_trajs, writing, redoing, redone >>

\* Variant: takes a trajectory with one step under way for complete.
CompleteButOne == {t \in Trajs : Cardinality(traj_pending[t]) <= 1}

Complete == {t \in Trajs : traj_pending[t] = {}}

\* The next file to write: of the complete ones in a flush, of all at the end.
OpenTask(t) ==
    /\ phase \in {"flush", "rewrite"}
    /\ writing = {}
    /\ t \notin saved_trajs
    /\ phase = "flush" => t \in Complete
    /\ writing' = {t}
    /\ file' = [file EXCEPT ![t] = Torn]
    /\ UNCHANGED << platform, sessions, phase, all_tasks, traj_pending, unprinted,
                    saved_trajs, redoing, redone >>

DumpTask(t) ==
    /\ phase \in {"flush", "rewrite"}
    /\ t \in writing
    /\ file' = [file EXCEPT ![t] = all_tasks[t]]
    /\ writing' = {}
    /\ saved_trajs' = saved_trajs \cup {t}
    /\ UNCHANGED << platform, sessions, phase, all_tasks, traj_pending, unprinted, redoing,
                    redone >>

EndFlush ==
    /\ phase = "flush"
    /\ writing = {}
    /\ Complete \subseteq saved_trajs
    /\ phase' = IF NoneAsked THEN "rewrite" ELSE "thoughts"
    /\ UNCHANGED << platform, sessions, file, thoughtVars >>

EndRewrite ==
    /\ phase = "rewrite"
    /\ writing = {}
    /\ saved_trajs = Trajs
    /\ phase' = "regenerated"
    /\ UNCHANGED << platform, sessions, file, thoughtVars >>

Regenerating == phase \in {"thoughts", "flush", "rewrite"}

\* Killed, or ended by Ctrl-C, which drops what has not been written.
KillRegenerate ==
    /\ Regenerating
    /\ phase' = "idle"
    /\ all_tasks' = [t \in Trajs |-> Torn]
    /\ traj_pending' = [t \in Trajs |-> {}]
    /\ unprinted' = 0
    /\ saved_trajs' = {}
    /\ writing' = {}
    /\ redoing' = FALSE
    /\ UNCHANGED << platform, sessions, file, redone >>

RegenerateStep ==
    \/ \E t \in Trajs, s \in Steps : ThoughtAnswered(t, s)
    \/ \E t \in Trajs : OpenTask(t)
    \/ \E t \in Trajs : DumpTask(t)
    \/ EndFlush
    \/ EndRewrite

RegenerateNext ==
    \/ \E resume \in BOOLEAN : StartRegenerate(resume)
    \/ RegenerateStep
    \/ KillRegenerate
=============================================================================
