--------------------------- MODULE TrajectoryTools ---------------------------
(***************************************************************************)
(* The two scripts of a platform on the same files: regenerate_thought.py  *)
(* and fix_bbox.py or fix_grounding.py, one session after the other, in    *)
(* any order, each killed or interrupted at any moment and started again.  *)
(***************************************************************************)
EXTENDS FixGrounding, RegenerateThought

vars == << fileVars, fixVars, thoughtVars >>

Init == FilesInit /\ FixInit /\ RegenerateInit

Next ==
    \/ FixNext /\ UNCHANGED thoughtVars
    \/ RegenerateNext /\ UNCHANGED fixVars

Spec == Init /\ [][Next]_vars

\* The threads of a process run and every call of the model service returns, as each has
\* a timeout; nobody has to start, interrupt or kill a session.
Fairness ==
    /\ WF_vars(FixStep /\ UNCHANGED thoughtVars)
    /\ WF_vars(RegenerateStep /\ UNCHANGED fixVars)

FairSpec == Spec /\ Fairness

-----------------------------------------------------------------------------
(* Type invariant.                                                         *)

Phases == {"idle", "fixed", "regenerated", "failed", "generate", "saving", "saving progress",
           "interrupted", "closing progress", "missing", "retry",
           "thoughts", "flush", "rewrite"}

\* Every variable has its type.
TypeOK ==
    /\ platform \in Platforms
    /\ file \in [Trajs -> Content]
    /\ sessions \in 0 .. MaxSessions
    /\ phase \in Phases
    /\ progress \in [whole : BOOLEAN, ids : SUBSET Trajs]
    /\ done_ids \subseteq Trajs
    /\ done_count \in 0 .. SaveEvery - 1
    /\ all_errors \subseteq StepJobs
    /\ interrupted \in BOOLEAN
    /\ job \in [Jobs -> {"none", "queued", "asking", "answered", "loaded", "truncated",
                         "returned"}]
    /\ copy \in [Jobs -> Content]
    /\ asking \in [Jobs -> SUBSET Steps]
    /\ asked \subseteq StepJobs
    /\ all_tasks \in [Trajs -> Content]
    /\ traj_pending \in [Trajs -> SUBSET Steps]
    /\ unprinted \in 0 .. FlushEvery - 1
    /\ saved_trajs \subseteq Trajs
    /\ writing \subseteq Trajs
    /\ redoing \in BOOLEAN
    /\ redone \subseteq StepJobs

(* Safety.                                                                 *)

\* The steps without all the boxes they need: a swipe on mobile needs two.
Incomplete(t, c) == {s \in Steps : Kind[t][s] # "other" /\ c.box[s] # "full"}

\* Swipes with their first box only: they came with one, and fix_grounding.py takes a
\* first box for all there is to ask for, also one that it has converted from a dict.
CameWithOne(t, c) ==
    {s \in Steps : /\ Kind[t][s] = "swipe" /\ c.box[s] = "start"
                   /\ InitBoxes[t][s] \cap {"dict", "start"} # {}}

\* A session of fix_bbox.py or fix_grounding.py that ends without Ctrl-C has left out no
\* step that lacks a box, in a file that can be read, but swipes that came with one box:
\* each other one has been asked for, on the computer in this or an earlier session, whose
\* progress file may hide it now, and on mobile in this one.  Those swipes are an exception
\* to what the header says, that a swipe gets two boxes.
AskedBeforeFixed ==
    phase = "fixed" /\ ~interrupted =>
        \A t \in Trajs : file[t].whole =>
            {t} \X (Incomplete(t, file[t]) \ CameWithOne(t, file[t])) \subseteq asked

\* A trajectory whose id is in the progress file needs no look by --resume: the model has
\* been asked for each step that has no box, in this or an earlier session, and has
\* given none.  On mobile the name of a directory may stand for another one.
ProgressIsEarned ==
    platform = "computer" =>
        \A t \in progress.ids \cup done_ids :
            file[t].whole => {t} \X Incomplete(t, file[t]) \subseteq asked

\* What mobile has written early needs no second write: no answer for the trajectory
\* comes in afterwards.
FlushedIsFinal ==
    Regenerating => \A t \in saved_trajs : file[t] = all_tasks[t]

\* A step with a regenerated thought has the thought it came with as its raw_thought,
\* however often sessions are killed and resumed, unless it came without one, or a session
\* without --resume has taken it although it had a raw_thought.
RawIsOriginal ==
    \A t \in Trajs, s \in Steps :
        file[t].whole /\ file[t].thought[s] = "new" =>
            file[t].raw[s] = "original" \/ << t, s >> \in Bare \cup redone

\* "The original thought is preserved into the raw_thought field", in every session of
\* regenerate_thought.py: a second one without --resume preserves a regenerated thought.
OriginalIsPreserved ==
    \A t \in Trajs, s \in Steps :
        file[t].whole /\ file[t].thought[s] = "new" =>
            file[t].raw[s] = "original" \/ << t, s >> \in Bare

-----------------------------------------------------------------------------
(* Refinement.                                                             *)

Facts == Steps \X {"bbox", "bbox2", "raw_thought"}

FactsOf(t, c) ==
    {<< s, "bbox" >> : s \in {r \in Steps : c.box[r] \in {"start", "full"}}}
    \cup {<< s, "bbox2" >> : s \in {r \in Steps : Kind[t][r] = "swipe" /\ c.box[r] = "full"}}
    \cup {<< s, "raw_thought" >> : s \in {r \in Steps : c.raw[r] = "original"}}

\* The contents on their way to the file that somebody has opened for writing.
Underway(t) ==
    {copy[j] : j \in {i \in Jobs : i[1] = t /\ job[i] = "truncated"}}
    \cup {all_tasks[u] : u \in writing \cap {t}}

FactsNow(t) ==
    IF file[t].whole THEN FactsOf(t, file[t])
    ELSE UNION {FactsOf(t, c) : c \in Underway(t)}

\* A session of regenerate_thought.py without --resume replaces raw thoughts.
Session ==
    IF Ended THEN "none" ELSE IF Regenerating /\ redoing THEN "replacing" ELSE "adding"

Annotated == INSTANCE AnnotatedTrajectories WITH
    Replaceable <- Steps \X {"raw_thought"},
    facts <- [t \in Trajs |-> FactsNow(t)],
    ruined <- {t \in Trajs : ~file[t].whole /\ Underway(t) = {}},
    session <- Session

\* No box is lost by a rewrite, and no original thought but in a session of
\* regenerate_thought.py without --resume, whatever threads, files and sessions come
\* between the reading of a file and its writing; and only a kill leaves a file that
\* cannot be read.
ImplementsAnnotated == Annotated!Spec

(* Liveness.                                                               *)

\* Every session ends: no thread waits for a lock nobody gives up, and no main thread
\* for a result nobody delivers.
SessionsEnd == ~Ended ~> Ended
=============================================================================
