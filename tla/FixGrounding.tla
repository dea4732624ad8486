---------------------------- MODULE FixGrounding ----------------------------
(***************************************************************************)
(* Bounding boxes for the steps of trajectories (src/uni_gui:              *)
(* computer/fix_bbox.py and mobile/fix_grounding.py).                      *)
(*                                                                         *)
(* A session has two phases.  Phase A runs one job per trajectory, each in *)
(* a thread that asks the model for every missing box and rewrites the     *)
(* file; the main thread notes what has returned in a progress file.       *)
(* Phase B asks again for what is still missing: on the computer for the   *)
(* errors phase A has kept in memory, one after the other; on mobile for   *)
(* what a new scan of the files finds, with many threads and one lock per  *)
(* file.                                                                   *)
(*                                                                         *)
(* The model service is external: a call gives a box or, after its own     *)
(* retries, none.  The options --overwrite, --dry-run and --skip-retry     *)
(* are off.  A definition called a variant is a wrong version of the one   *)
(* after it: it shows which property would notice the fault.               *)
(***************************************************************************)
EXTENDS TaskFiles

CONSTANTS
    Basename,   \* the directory name of each trajectory, as the first that has it
    workers,
    SaveEvery   \* results between two saves of the progress file

ASSUME FixAssumption ==
    /\ Steps \subseteq Nat \ {0}
    /\ Basename \in [Trajs -> Trajs]
    /\ workers \in Nat \ {0}
    /\ SaveEvery \in Nat \ {0}

VARIABLES
    progress,      \* the progress file
    done_ids,
    done_count,    \* results since the last save
    all_errors,    \* on mobile it is only logged, and left out
    interrupted,   \* whether Ctrl-C has ended a phase of this session early
    job,           \* where each job is
    copy,          \* the task data a job has in memory
    asking,        \* the steps a job waits for the model for
    asked          \* auxiliary: the steps the model has answered for, in any session
                   \* on the computer, in this one on mobile

fixVars == << progress, done_ids, done_count, all_errors, interrupted, job, copy,
              asking, asked >>

TrajJob(t) == << t, 0 >>
StepJobs == Trajs \X Steps
TrajJobs == Trajs \X {0}
Jobs == TrajJobs \cup StepJobs

NoCopy == Torn

\* Paths are unique; two directories of one name are one to mobile's progress file.
traj_id(t) == IF platform = "computer" THEN t ELSE Basename[t]

FixInit ==
    /\ progress = [whole |-> TRUE, ids |-> {}]
    /\ done_ids = {}
    /\ done_count = 0
    /\ all_errors = {}
    /\ interrupted = FALSE
    /\ job = [j \in Jobs |-> "none"]
    /\ copy = [j \in Jobs |-> NoCopy]
    /\ asking = [j \in Jobs |-> {}]
    /\ asked = {}

-----------------------------------------------------------------------------
(* Which steps lack a box, by each of the three pieces of code that ask.   *)

\* The pre-scan, and the scan of mobile's phase B.
Missing(t, c) ==
    {s \in Steps : /\ Kind[t][s] # "other"
                   /\ c.box[s] = "none" \/ (platform = "mobile" /\ c.box[s] = "dict")}

\* process_one_trajectory converts a dict by itself and goes on to the next step, a swipe's
\* second box is then not asked for; on mobile it asks for the swipes that have no second box.
ToAsk(t, c) ==
    {s \in Steps : /\ Kind[t][s] # "other"
                   /\ c.box[s] = "none" \/ (platform = "mobile" /\ c.box[s] = "start")}

Converted(t, c) ==
    [c EXCEPT !.box = [s \in Steps |->
        IF platform = "mobile" /\ c.box[s] = "dict"
        THEN (IF Kind[t][s] = "swipe" THEN "start" ELSE "full") ELSE c.box[s]]]

Boxed(c, s) == [c EXCEPT !.box[s] = "full"]

-----------------------------------------------------------------------------
(* Phase A.                                                                *)

\* A torn progress file counts as none.
Known(resume) == IF resume /\ progress.whole THEN progress.ids ELSE {}

StartFix(resume) ==
    /\ NewSession
    /\ done_ids' = Known(resume)
    /\ LET todo == {t \in Trajs : /\ file[t].whole
                                  /\ traj_id(t) \notin Known(resume)
                                  /\ Missing(t, file[t]) # {}}
       IN  /\ job' = [j \in Jobs |-> IF j \in TrajJobs /\ j[1] \in todo
                                     THEN "queued" ELSE "none"]
           /\ phase' = IF todo # {} THEN "generate"
                       ELSE IF platform = "mobile" THEN "missing" ELSE "fixed"
    /\ done_count' = 0
    /\ all_errors' = {}
    /\ interrupted' = FALSE
    /\ asked' = IF platform = "mobile" THEN {} ELSE asked
    /\ UNCHANGED << file, progress, copy, asking >>

Active == {j \in Jobs : job[j] \notin {"none", "queued", "returned"}}
Generating == phase \in {"generate", "saving", "saving progress", "interrupted"}
MainUnchanged == UNCHANGED << platform, sessions, phase, progress, done_ids, done_count,
                              all_errors, interrupted >>

\* Where a job goes when the model has answered for its last step.
AfterAnswers(t, c) == IF c # file[t] THEN "loaded" ELSE "returned"

BeginJob(t) ==
    LET j == TrajJob(t)
        c == Converted(t, file[t])
        toAsk == ToAsk(t, file[t])
    IN
    /\ Generating
    /\ job[j] = "queued"
    /\ Cardinality(Active) < workers
    /\ copy' = [copy EXCEPT ![j] = c]
    /\ asking' = [asking EXCEPT ![j] = toAsk]
    /\ job' = [job EXCEPT ![j] = IF toAsk = {} THEN AfterAnswers(t, c) ELSE "asking"]
    /\ UNCHANGED << file, asked >>
    /\ MainUnchanged

StepAnswered(t, s) ==
    LET j == TrajJob(t) IN
    /\ Generating
    /\ job[j] = "asking"
    /\ s \in asking[j]
    /\ \E c \in {copy[j], Boxed(copy[j], s)} :
          /\ copy' = [copy EXCEPT ![j] = c]
          /\ job' = [job EXCEPT ![j] = IF asking[j] = {s} THEN AfterAnswers(t, c) ELSE @]
    /\ asking' = [asking EXCEPT ![j] = @ \ {s}]
    /\ asked' = asked \cup {<< t, s >>}
    /\ UNCHANGED file
    /\ MainUnchanged

\* open(task_json_path, "w"), in both phases
OpenTaskJson(j) ==
    /\ job[j] = "loaded"
    /\ file' = [file EXCEPT ![j[1]] = Torn]
    /\ job' = [job EXCEPT ![j] = "truncated"]
    /\ UNCHANGED << copy, asking, asked >>
    /\ MainUnchanged

\* json.dump and the end of the job, in both phases; on mobile it gives up the lock
DumpTaskJson(j) ==
    /\ job[j] = "truncated"
    /\ file' = [file EXCEPT ![j[1]] = copy[j]]
    /\ job' = [job EXCEPT ![j] = IF j \in TrajJobs THEN "returned" ELSE "none"]
    /\ copy' = [copy EXCEPT ![j] = IF j \in TrajJobs THEN @ ELSE NoCopy]
    /\ UNCHANGED << asking, asked >>
    /\ MainUnchanged

\* Variant: notes a trajectory when its job is taken up.
NoteEarly(t) ==
    LET j == TrajJob(t) IN
    /\ phase = "generate"
    /\ job[j] \in {"asking", "returned"}
    /\ traj_id(t) \notin done_ids
    /\ job' = [job EXCEPT ![j] = IF @ = "returned" THEN "none" ELSE @]
    /\ done_ids' = done_ids \cup {traj_id(t)}
    /\ all_errors' = IF platform = "computer"
                     THEN all_errors \cup ({t} \X Missing(t, copy[j])) ELSE {}
    /\ done_count' = (done_count + 1) % SaveEvery
    /\ phase' = IF done_count' = 0 THEN "saving" ELSE phase
    /\ UNCHANGED << platform, sessions, file, progress, interrupted, copy, asking, asked >>

\* The main thread takes a result: the id is done, whatever has failed.  A step whose
\* call has raised is recorded without its index, and not asked for again.
NoteResult(t) ==
    LET j == TrajJob(t) IN
    /\ phase = "generate"
    /\ job[j] = "returned"
    /\ job' = [job EXCEPT ![j] = "none"]
    /\ copy' = [copy EXCEPT ![j] = NoCopy]
    /\ done_ids' = done_ids \cup {traj_id(t)}
    /\ \E failed \in SUBSET ({t} \X Missing(t, copy[j])) :
          all_errors' = IF platform = "computer" THEN all_errors \cup failed ELSE {}
    /\ done_count' = (done_count + 1) % SaveEvery
    /\ phase' = IF done_count' = 0 THEN "saving" ELSE phase
    /\ UNCHANGED << platform, sessions, file, progress, interrupted, asking, asked >>

OpenProgress ==
    /\ phase = "saving"
    /\ progress' = [whole |-> FALSE, ids |-> {}]
    /\ phase' = "saving progress"
    /\ UNCHANGED << platform, sessions, file, done_ids, done_count, all_errors, interrupted,
                    job, copy, asking, asked >>

\* Ctrl-C: queued jobs are cancelled, running ones run on, and what they return is
\* not noted.
InterruptGenerate ==
    /\ phase \in {"generate", "saving", "saving progress"}
    /\ phase' = "interrupted"
    /\ interrupted' = TRUE
    /\ job' = [j \in Jobs |-> IF job[j] = "queued" THEN "none" ELSE job[j]]
    /\ UNCHANGED << platform, sessions, file, progress, done_ids, done_count, all_errors,
                    copy, asking, asked >>

\* Variant: waits until every result has been noted.
CloseWhenNoted ==
    /\ phase \in {"generate", "interrupted"}
    /\ \A j \in Jobs : job[j] = "none"
    /\ progress' = [whole |-> FALSE, ids |-> {}]
    /\ phase' = "closing progress"
    /\ UNCHANGED << platform, sessions, file, done_ids, done_count, all_errors, interrupted,
                    job, copy, asking, asked >>

\* The last save opens the progress file once no thread runs any more.
CloseGenerate ==
    /\ phase \in {"generate", "interrupted"}
    /\ \A j \in Jobs : job[j] = "none" \/ (phase = "interrupted" /\ job[j] = "returned")
    /\ progress' = [whole |-> FALSE, ids |-> {}]
    /\ phase' = "closing progress"
    /\ job' = [j \in Jobs |-> "none"]
    /\ copy' = [j \in Jobs |-> NoCopy]
    /\ UNCHANGED << platform, sessions, file, done_ids, done_count, all_errors, interrupted,
                    asking, asked >>

\* The end of a save, and with the last one of phase A.
DumpProgress ==
    /\ phase \in {"saving progress", "closing progress"}
    /\ progress' = [whole |-> TRUE, ids |-> done_ids]
    /\ phase' = IF phase = "saving progress" THEN "generate"
                ELSE IF platform = "computer" /\ all_errors = {} THEN "fixed"
                ELSE "missing"
    /\ UNCHANGED << platform, sessions, file, done_ids, done_count, all_errors, interrupted,
                    job, copy, asking, asked >>

-----------------------------------------------------------------------------
(* Phase B.                                                                *)

\* Variant: mobile leaves out the trajectories of the progress file.
ToRetryUndone ==
    IF platform = "computer" THEN all_errors
    ELSE {j \in StepJobs : /\ file[j[1]].whole
                           /\ j[2] \in Missing(j[1], file[j[1]])
                           /\ traj_id(j[1]) \notin done_ids}

ToRetry ==
    IF platform = "computer" THEN all_errors
    ELSE {j \in StepJobs : file[j[1]].whole /\ j[2] \in Missing(j[1], file[j[1]])}

StartRetry ==
    /\ phase = "missing"
    /\ job' = [j \in Jobs |-> IF j \in ToRetry THEN "queued" ELSE "none"]
    /\ phase' = IF ToRetry = {} THEN "fixed" ELSE "retry"
    /\ all_errors' = {}
    /\ UNCHANGED << platform, sessions, file, progress, done_ids, done_count, interrupted,
                    copy, asking, asked >>

\* The computer reads the file before it asks, mobile after it has been answered.
BeginRetry(j) ==
    /\ phase = "retry"
    /\ job[j] = "queued"
    /\ Cardinality(Active) < (IF platform = "computer" THEN 1 ELSE workers)
    /\ IF platform = "computer" /\ ~file[j[1]].whole
       THEN job' = [job EXCEPT ![j] = "none"] /\ UNCHANGED << copy, asking >>
       ELSE /\ job' = [job EXCEPT ![j] = "asking"]
            /\ asking' = [asking EXCEPT ![j] = {j[2]}]
            /\ copy' = IF platform = "computer" THEN [copy EXCEPT ![j] = file[j[1]]]
                       ELSE copy
    /\ UNCHANGED << file, asked >>
    /\ MainUnchanged

\* The first of several answers with a box, or none in max_rounds rounds.
RetryAnswered(j) ==
    /\ phase = "retry"
    /\ job[j] = "asking"
    /\ \/ /\ platform = "computer"
          /\ job' = [job EXCEPT ![j] = "loaded"]
          /\ copy' = [copy EXCEPT ![j] = Boxed(@, j[2])]
       \/ /\ platform = "mobile"
          /\ job' = [job EXCEPT ![j] = "answered"]
          /\ UNCHANGED copy
       \/ /\ job' = [job EXCEPT ![j] = "none"]
          /\ copy' = [copy EXCEPT ![j] = NoCopy]
    /\ asking' = [asking EXCEPT ![j] = {}]
    /\ asked' = asked \cup {j}
    /\ UNCHANGED file
    /\ MainUnchanged

\* apply_result reads the file; the job is over if it cannot be read.
ReadForResult(j) ==
    /\ IF file[j[1]].whole
       THEN /\ copy' = [copy EXCEPT ![j] = Boxed(file[j[1]], j[2])]
            /\ job' = [job EXCEPT ![j] = "loaded"]
       ELSE job' = [job EXCEPT ![j] = "none"] /\ UNCHANGED copy
    /\ UNCHANGED << file, asking, asked >>
    /\ MainUnchanged

\* Variant: without the lock.
ApplyUnlocked(j) ==
    /\ job[j] = "answered"
    /\ ReadForResult(j)

\* apply_result takes the lock of the file, and holds it until the file is written.
ApplyResult(j) ==
    /\ job[j] = "answered"
    /\ \A i \in StepJobs : i[1] = j[1] => job[i] \notin {"loaded", "truncated"}
    /\ ReadForResult(j)

\* Ctrl-C on mobile; on the computer it is as a kill.
InterruptRetry ==
    /\ phase = "retry"
    /\ platform = "mobile"
    /\ interrupted' = TRUE
    /\ job' = [j \in Jobs |-> IF job[j] = "queued" THEN "none" ELSE job[j]]
    /\ UNCHANGED << platform, sessions, phase, file, progress, done_ids, done_count,
                    all_errors, copy, asking, asked >>

FinishRetry ==
    /\ phase = "retry"
    /\ \A j \in Jobs : job[j] = "none"
    /\ phase' = "fixed"
    /\ UNCHANGED << platform, sessions, file, fixVars >>

-----------------------------------------------------------------------------

Fixing == Generating \/ phase \in {"closing progress", "missing", "retry"}

\* The process is killed; what is on disk stays as it is.
KillFix ==
    /\ Fixing
    /\ phase' = "idle"
    /\ done_ids' = {}
    /\ done_count' = 0
    /\ all_errors' = {}
    /\ interrupted' = FALSE
    /\ job' = [j \in Jobs |-> "none"]
    /\ copy' = [j \in Jobs |-> NoCopy]
    /\ asking' = [j \in Jobs |-> {}]
    /\ UNCHANGED << platform, sessions, file, progress, asked >>

\* The steps of the process, its threads and the model service.
FixStep ==
    \/ \E t \in Trajs : BeginJob(t)
    \/ \E t \in Trajs, s \in Steps : StepAnswered(t, s)
    \/ \E j \in Jobs : OpenTaskJson(j)
    \/ \E j \in Jobs : DumpTaskJson(j)
    \/ \E t \in Trajs : NoteResult(t)
    \/ OpenProgress
    \/ CloseGenerate
    \/ DumpProgress
    \/ StartRetry
    \/ \E j \in StepJobs : BeginRetry(j)
    \/ \E j \in StepJobs : RetryAnswered(j)
    \/ \E j \in StepJobs : ApplyResult(j)
    \/ FinishRetry

FixNext ==
    \/ \E resume \in BOOLEAN : StartFix(resume)
    \/ FixStep
    \/ InterruptGenerate
    \/ InterruptRetry
    \/ KillFix
=============================================================================
