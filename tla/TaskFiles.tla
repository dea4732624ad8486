------------------------------ MODULE TaskFiles ------------------------------
(***************************************************************************)
(* The task.json files of a GUI data set and the sessions in which scripts *)
(* rewrite them (stage 4 of src/uni_gui: regenerate_thought.py, and        *)
(* fix_bbox.py on the computer or fix_grounding.py on mobile).             *)
(*                                                                         *)
(* A trajectory is a directory with one task.json; each of its steps has a *)
(* bounding box, a thought and, once regenerated, its raw_thought.  Every  *)
(* script rewrites the whole file from a copy in memory, with a plain      *)
(* open(..., "w"): between the opening and the end of the dump the file    *)
(* cannot be read.  The operator runs one script at a time, may kill it at *)
(* any moment, and starts it again.                                        *)
(***************************************************************************)
EXTENDS Integers, FiniteSets

CONSTANTS
    Trajs,         \* trajectory directories
    Steps,         \* indices of steps in a trajectory
    Kind,          \* what each step does: "click", "swipe", or "other", which needs no box
    InitBoxes,     \* the boxes each step may have at first
    Bare,          \* the steps that have no thought at first
    Platforms,     \* of the data set: "computer" or "mobile"
    MaxSessions    \* bound: how often a script is started

\* none; a dict of pixels; a list, which for a swipe says its start; for a swipe also
\* its end
Boxes == {"none", "dict", "start", "full"}
Thoughts == {"none", "original", "new"}

ASSUME TaskFilesAssumption ==
    /\ IsFiniteSet(Trajs) /\ IsFiniteSet(Steps)
    /\ Kind \in [Trajs -> [Steps -> {"click", "swipe", "other"}]]
    /\ InitBoxes \in [Trajs -> [Steps -> SUBSET Boxes]]
    /\ Bare \subseteq Trajs \X Steps
    /\ Platforms \subseteq {"computer", "mobile"}
    /\ MaxSessions \in Nat

VARIABLES
    platform,
    file,       \* the contents of each task.json
    sessions,   \* how many have been started
    phase       \* of the session

fileVars == << platform, file, sessions, phase >>

Content == [whole : BOOLEAN, box : [Steps -> Boxes],
            thought : [Steps -> Thoughts], raw : [Steps -> Thoughts]]

\* What is left between the opening of a file and the end of the dump.
Torn == [whole |-> FALSE, box |-> [s \in Steps |-> "none"],
         thought |-> [s \in Steps |-> "none"], raw |-> [s \in Steps |-> "none"]]

\* A step that needs no box has none, a click is done with one box, and the
\* computer's converter writes no dicts and has no swipes of two ends.
FirstBox(p, t, s, b) ==
    /\ Kind[t][s] = "other" => b = "none"
    /\ Kind[t][s] = "click" => b # "start"
    /\ p = "computer" => b \in {"none", "full"}

FirstContents(p, t) ==
    {[whole |-> TRUE, box |-> b,
      thought |-> [s \in Steps |-> IF << t, s >> \in Bare THEN "none" ELSE "original"],
      raw |-> [s \in Steps |-> "none"]] :
        b \in {g \in [Steps -> Boxes] :
                  \A s \in Steps : g[s] \in InitBoxes[t][s] /\ FirstBox(p, t, s, g[s])}}

FilesInit ==
    /\ platform \in Platforms
    /\ file \in {f \in [Trajs -> UNION {FirstContents(platform, t) : t \in Trajs}] :
                    \A t \in Trajs : f[t] \in FirstContents(platform, t)}
    /\ sessions = 0
    /\ phase = "idle"

\* "fixed" and "regenerated": the last session came to its own end; "failed": it could
\* not start; "idle": it was killed, or there was none.
Ended == phase \in {"idle", "fixed", "regenerated", "failed"}

NewSession ==
    /\ Ended
    /\ sessions < MaxSessions
    /\ sessions' = sessions + 1
    /\ UNCHANGED platform
=============================================================================
