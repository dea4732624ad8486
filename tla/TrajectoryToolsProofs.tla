------------------------ MODULE TrajectoryToolsProofs ------------------------
(***************************************************************************)
(* Proofs about the scripts that annotate trajectories, for any number of  *)
(* trajectories, steps, threads and sessions, on both platforms.           *)
(***************************************************************************)
EXTENDS TrajectoryTools, FiniteSetTheorems, TLAPS

-----------------------------------------------------------------------------
(* Facts about contents.                                                   *)

\* No box of c is missing in what comes of it.
BoxesKept(c, d) ==
    \A s \in Steps : /\ c.box[s] # "none" => d.box[s] # "none"
                     /\ c.box[s] \in {"start", "full"} => d.box[s] \in {"start", "full"}
                     /\ c.box[s] = "full" => d.box[s] = "full"

\* Neither is an original thought.
Kept(c, d) ==
    \A s \in Steps : /\ c.box[s] # "none" => d.box[s] # "none"
                     /\ c.box[s] \in {"start", "full"} => d.box[s] \in {"start", "full"}
                     /\ c.box[s] = "full" => d.box[s] = "full"
                     /\ c.raw[s] = "original" => d.raw[s] = "original"

LEMMA TornFacts == Torn \in Content /\ ~ Torn.whole
BY DEF Torn, Content, Boxes, Thoughts

LEMMA BoxedFacts ==
    ASSUME NEW c \in Content, NEW s \in Steps
    PROVE  /\ Boxed(c, s) \in Content
           /\ Boxed(c, s).whole = c.whole
           /\ Boxed(c, s).thought = c.thought /\ Boxed(c, s).raw = c.raw
           /\ Kept(c, Boxed(c, s))
BY DEF Boxed, Content, Boxes, Kept

LEMMA ConvertedFacts ==
    ASSUME NEW t \in Trajs, NEW c \in Content
    PROVE  /\ Converted(t, c) \in Content
           /\ Converted(t, c).whole = c.whole
           /\ Converted(t, c).thought = c.thought /\ Converted(t, c).raw = c.raw
           /\ Kept(c, Converted(t, c))
<1> DEFINE box == [s \in Steps |->
                     IF platform = "mobile" /\ c.box[s] = "dict"
                     THEN (IF Kind[t][s] = "swipe" THEN "start" ELSE "full") ELSE c.box[s]]
<1>1. box \in [Steps -> Boxes]
  BY DEF Content, Boxes
<1>2. \A s \in Steps : /\ c.box[s] \in {"start", "full"} => box[s] = c.box[s]
                       /\ c.box[s] # "none" => box[s] # "none"
  OBVIOUS
<1>3. Converted(t, c) = [c EXCEPT !.box = box]
  BY DEF Converted
<1> HIDE DEF box
<1> QED BY <1>1, <1>2, <1>3 DEF Content, Kept

LEMMA WithThoughtFacts ==
    ASSUME NEW c \in Content, NEW s \in Steps
    PROVE  /\ WithThought(c, s) \in Content
           /\ WithThought(c, s).whole = c.whole /\ WithThought(c, s).box = c.box
           /\ WithThought(c, s).raw[s] = c.thought[s] /\ WithThought(c, s).thought[s] = "new"
           /\ \A r \in Steps : r # s => /\ WithThought(c, s).raw[r] = c.raw[r]
                                        /\ WithThought(c, s).thought[r] = c.thought[r]
BY DEF WithThought, Content, Thoughts

LEMMA KeptReflexive == \A c : Kept(c, c)
BY DEF Kept

LEMMA KeptTransitive == \A c, d, e : Kept(c, d) /\ Kept(d, e) => Kept(c, e)
BY DEF Kept

LEMMA KeptBoxes == \A c, d : Kept(c, d) => BoxesKept(c, d)
BY DEF Kept, BoxesKept

LEMMA BoxesKeptTransitive ==
    \A c, d, e : BoxesKept(c, d) /\ BoxesKept(d, e) => BoxesKept(c, e)
BY DEF BoxesKept

RawFacts == Steps \X {"raw_thought"}

\* What is kept are the annotations.
LEMMA FactsGrow ==
    ASSUME NEW t \in Trajs, NEW c, NEW d, Kept(c, d)
    PROVE  FactsOf(t, c) \subseteq FactsOf(t, d)
BY DEF Kept, FactsOf

LEMMA BoxFactsGrow ==
    ASSUME NEW t \in Trajs, NEW c, NEW d, BoxesKept(c, d)
    PROVE  FactsOf(t, c) \ RawFacts \subseteq FactsOf(t, d)
BY DEF BoxesKept, FactsOf, RawFacts

LEMMA FactsType == \A t \in Trajs : \A c : FactsOf(t, c) \subseteq Facts
BY DEF FactsOf, Facts

-----------------------------------------------------------------------------
(* Type correctness.                                                       *)

LEMMA JobsFacts ==
    /\ \A t \in Trajs : TrajJob(t) \in Jobs /\ TrajJob(t) \in TrajJobs /\ TrajJob(t)[1] = t
    /\ \A j \in Jobs : j[1] \in Trajs
    /\ \A j \in StepJobs : j \in Jobs /\ j \notin TrajJobs /\ j[2] \in Steps
    /\ \A j \in TrajJobs : j = TrajJob(j[1])
    /\ \A j \in Jobs : j \in TrajJobs \/ j \in StepJobs
    /\ IsFiniteSet(Jobs)
<1>1. \A s \in Steps : s # 0
  BY FixAssumption
<1>2. IsFiniteSet(Jobs)
  <2>1. IsFiniteSet({0}) /\ IsFiniteSet(Trajs) /\ IsFiniteSet(Steps)
    BY FS_Singleton, TaskFilesAssumption
  <2>2. IsFiniteSet(TrajJobs) /\ IsFiniteSet(StepJobs)
    BY <2>1, FS_Product DEF TrajJobs, StepJobs
  <2> QED BY <2>2, FS_Union DEF Jobs
<1> QED BY <1>1, <1>2 DEF TrajJob, Jobs, TrajJobs, StepJobs

LEMMA TrajIds == \A t \in Trajs : traj_id(t) \in Trajs
BY FixAssumption DEF traj_id

LEMMA MissingType ==
    \A t \in Trajs : \A c : Missing(t, c) \subseteq Steps /\ ToAsk(t, c) \subseteq Steps
BY DEF Missing, ToAsk

LEMMA TypeInit == Init => TypeOK
<1> SUFFICES ASSUME Init PROVE TypeOK
  OBVIOUS
<1> USE DEF Init, FilesInit, FixInit, RegenerateInit
<1>1. file \in [Trajs -> Content]
  <2>1. \A t \in Trajs : FirstContents(platform, t) \subseteq Content
    <3> SUFFICES ASSUME NEW t \in Trajs, NEW c \in FirstContents(platform, t)
                 PROVE  c \in Content
      OBVIOUS
    <3> DEFINE thought == [s \in Steps |-> IF << t, s >> \in Bare THEN "none" ELSE "original"]
               raw == [s \in Steps |-> "none"]
    <3>1. PICK b \in [Steps -> Boxes] :
             c = [whole |-> TRUE, box |-> b, thought |-> thought, raw |-> raw]
      BY DEF FirstContents
    <3>2. thought \in [Steps -> Thoughts] /\ raw \in [Steps -> Thoughts]
      BY DEF Thoughts
    <3> HIDE DEF thought, raw
    <3> QED BY <3>1, <3>2 DEF Content
  <2>2. \A t \in Trajs : file[t] \in FirstContents(platform, t)
    OBVIOUS
  <2>3. file = [t \in Trajs |-> file[t]]
    OBVIOUS
  <2> QED BY <2>1, <2>2, <2>3
<1>2. /\ platform \in Platforms /\ sessions \in 0 .. MaxSessions /\ phase \in Phases
  BY TaskFilesAssumption DEF Phases
<1>3. /\ progress \in [whole : BOOLEAN, ids : SUBSET Trajs] /\ done_ids \subseteq Trajs
      /\ done_count \in 0 .. SaveEvery - 1 /\ all_errors \subseteq StepJobs
      /\ interrupted \in BOOLEAN
  <2>1. progress \in [whole : BOOLEAN, ids : SUBSET Trajs]
    OBVIOUS
  <2>2. done_count \in 0 .. SaveEvery - 1
    BY FixAssumption
  <2> QED BY <2>1, <2>2
<1>4. /\ job \in [Jobs -> {"none", "queued", "asking", "answered", "loaded", "truncated",
                           "returned"}]
      /\ copy \in [Jobs -> Content] /\ asking \in [Jobs -> SUBSET Steps]
      /\ asked \subseteq StepJobs
  BY TornFacts DEF NoCopy
<1>5. /\ all_tasks \in [Trajs -> Content] /\ traj_pending \in [Trajs -> SUBSET Steps]
      /\ unprinted \in 0 .. FlushEvery - 1 /\ saved_trajs \subseteq Trajs
      /\ writing \subseteq Trajs
  BY TornFacts, RegenerateAssumption
<1>6. redoing \in BOOLEAN /\ redone \subseteq StepJobs
  OBVIOUS
<1> QED BY <1>1, <1>2, <1>3, <1>4, <1>5, <1>6 DEF TypeOK

States == {"none", "queued", "asking", "answered", "loaded", "truncated", "returned"}

\* The type invariant in three parts: of the main thread, of its workers, and of the
\* other script.
MainTypes ==
    /\ platform \in Platforms
    /\ sessions \in 0 .. MaxSessions
    /\ phase \in Phases
    /\ progress \in [whole : BOOLEAN, ids : SUBSET Trajs]
    /\ done_ids \subseteq Trajs
    /\ done_count \in 0 .. SaveEvery - 1
    /\ all_errors \subseteq StepJobs
    /\ interrupted \in BOOLEAN

WorkTypes ==
    /\ file \in [Trajs -> Content]
    /\ job \in [Jobs -> States]
    /\ copy \in [Jobs -> Content]
    /\ asking \in [Jobs -> SUBSET Steps]
    /\ asked \subseteq StepJobs

ThoughtTypes ==
    /\ all_tasks \in [Trajs -> Content]
    /\ traj_pending \in [Trajs -> SUBSET Steps]
    /\ unprinted \in 0 .. FlushEvery - 1
    /\ saved_trajs \subseteq Trajs
    /\ writing \subseteq Trajs
    /\ redoing \in BOOLEAN
    /\ redone \subseteq StepJobs

LEMMA TypeParts == TypeOK <=> MainTypes /\ WorkTypes /\ ThoughtTypes
BY DEF TypeOK, MainTypes, WorkTypes, ThoughtTypes, States

LEMMA ThoughtTypesKept == ThoughtTypes /\ UNCHANGED thoughtVars => ThoughtTypes'
BY DEF ThoughtTypes, thoughtVars

LEMMA WorkTypesKept ==
    WorkTypes /\ UNCHANGED << file, job, copy, asking, asked >> => WorkTypes'
BY DEF WorkTypes

LEMMA MainTypesKept == MainTypes /\ MainUnchanged => MainTypes'
BY DEF MainTypes, MainUnchanged

\* A remainder is less than what it is a remainder of.
LEMMA Remainder == ASSUME NEW n \in Nat, NEW k \in Nat \ {0} PROVE n % k \in 0 .. k - 1
OBVIOUS

\* A session counts, and leaves the platform alone.
LEMMA NewSessionFacts ==
    ASSUME MainTypes, NewSession
    PROVE  sessions' \in 0 .. MaxSessions /\ platform' \in Platforms
BY TaskFilesAssumption DEF MainTypes, NewSession

\* The steps of a job.
LEMMA JobTypes ==
    ASSUME MainTypes, WorkTypes,
           \/ \E t \in Trajs : BeginJob(t)
           \/ \E t \in Trajs, s \in Steps : StepAnswered(t, s)
           \/ \E j \in Jobs : OpenTaskJson(j) \/ DumpTaskJson(j)
           \/ \E j \in StepJobs : BeginRetry(j) \/ RetryAnswered(j) \/ ApplyResult(j)
    PROVE  MainTypes' /\ WorkTypes'
<1>1. ASSUME NEW t \in Trajs, BeginJob(t) PROVE WorkTypes' /\ MainUnchanged
  <2>1. /\ TrajJob(t) \in Jobs /\ file[t] \in Content /\ Converted(t, file[t]) \in Content
        /\ ToAsk(t, file[t]) \in SUBSET Steps
    BY JobsFacts, ConvertedFacts, MissingType DEF WorkTypes
  <2>2. copy' \in [Jobs -> Content] /\ asking' \in [Jobs -> SUBSET Steps]
    BY <1>1, <2>1 DEF BeginJob, WorkTypes
  <2>3. job' \in [Jobs -> States]
    BY <1>1, <2>1 DEF BeginJob, WorkTypes, AfterAnswers, States
  <2> QED BY <1>1, <2>2, <2>3 DEF BeginJob, WorkTypes
<1>2. ASSUME NEW t \in Trajs, NEW s \in Steps, StepAnswered(t, s)
      PROVE  WorkTypes' /\ MainUnchanged
  <2>1. /\ TrajJob(t) \in Jobs /\ copy[TrajJob(t)] \in Content
        /\ Boxed(copy[TrajJob(t)], s) \in Content /\ << t, s >> \in StepJobs
    BY JobsFacts, BoxedFacts DEF WorkTypes, StepJobs
  <2>2. PICK c \in {copy[TrajJob(t)], Boxed(copy[TrajJob(t)], s)} :
           /\ copy' = [copy EXCEPT ![TrajJob(t)] = c]
           /\ job' = [job EXCEPT ![TrajJob(t)] =
                        IF asking[TrajJob(t)] = {s} THEN AfterAnswers(t, c) ELSE @]
    BY <1>2 DEF StepAnswered
  <2>3. copy' \in [Jobs -> Content] /\ job' \in [Jobs -> States]
    BY <2>1, <2>2 DEF WorkTypes, AfterAnswers, States
  <2>4. asking' \in [Jobs -> SUBSET Steps] /\ asked' \subseteq StepJobs
    BY <1>2, <2>1 DEF StepAnswered, WorkTypes
  <2> QED BY <1>2, <2>3, <2>4 DEF StepAnswered, WorkTypes
<1>3. ASSUME NEW j \in Jobs, OpenTaskJson(j) PROVE WorkTypes' /\ MainUnchanged
  <2>1. j[1] \in Trajs
    BY JobsFacts
  <2>2. file' \in [Trajs -> Content]
    BY <1>3, <2>1, TornFacts DEF OpenTaskJson, WorkTypes
  <2>3. job' \in [Jobs -> States]
    BY <1>3 DEF OpenTaskJson, WorkTypes, States
  <2> QED BY <1>3, <2>2, <2>3 DEF OpenTaskJson, WorkTypes
<1>4. ASSUME NEW j \in Jobs, DumpTaskJson(j) PROVE WorkTypes' /\ MainUnchanged
  <2>1. j[1] \in Trajs
    BY JobsFacts
  <2>2. file' \in [Trajs -> Content]
    BY <1>4, <2>1 DEF DumpTaskJson, WorkTypes
  <2>3. job' \in [Jobs -> States]
    BY <1>4 DEF DumpTaskJson, WorkTypes, States
  <2>4. copy' \in [Jobs -> Content]
    BY <1>4, TornFacts DEF DumpTaskJson, WorkTypes, NoCopy
  <2> QED BY <1>4, <2>2, <2>3, <2>4 DEF DumpTaskJson, WorkTypes
<1>5. ASSUME NEW j \in StepJobs, BeginRetry(j) PROVE WorkTypes' /\ MainUnchanged
  <2>1. j \in Jobs /\ j[1] \in Trajs /\ j[2] \in Steps
    BY JobsFacts
  <2>2. job' \in [Jobs -> States]
    BY <1>5, <2>1 DEF BeginRetry, WorkTypes, States
  <2>3. copy' \in [Jobs -> Content] /\ asking' \in [Jobs -> SUBSET Steps]
    BY <1>5, <2>1 DEF BeginRetry, WorkTypes
  <2> QED BY <1>5, <2>2, <2>3 DEF BeginRetry, WorkTypes
<1>6. ASSUME NEW j \in StepJobs, RetryAnswered(j) PROVE WorkTypes' /\ MainUnchanged
  <2>1. j \in Jobs /\ j[2] \in Steps /\ Boxed(copy[j], j[2]) \in Content
    BY JobsFacts, BoxedFacts DEF WorkTypes
  <2>2. job' \in [Jobs -> States]
    BY <1>6, <2>1 DEF RetryAnswered, WorkTypes, States
  <2>3. copy' \in [Jobs -> Content]
    BY <1>6, <2>1, TornFacts DEF RetryAnswered, WorkTypes, NoCopy
  <2>4. asking' \in [Jobs -> SUBSET Steps] /\ asked' \subseteq StepJobs
    BY <1>6 DEF RetryAnswered, WorkTypes
  <2> QED BY <1>6, <2>2, <2>3, <2>4 DEF RetryAnswered, WorkTypes
<1>7. ASSUME NEW j \in StepJobs, ApplyResult(j) PROVE WorkTypes' /\ MainUnchanged
  <2>1. j \in Jobs /\ j[2] \in Steps /\ Boxed(file[j[1]], j[2]) \in Content
    BY JobsFacts, BoxedFacts DEF WorkTypes
  <2>2. job' \in [Jobs -> States]
    BY <1>7, <2>1 DEF ApplyResult, ReadForResult, WorkTypes, States
  <2>3. copy' \in [Jobs -> Content]
    BY <1>7, <2>1 DEF ApplyResult, ReadForResult, WorkTypes
  <2> QED BY <1>7, <2>2, <2>3 DEF ApplyResult, ReadForResult, WorkTypes
<1> QED BY <1>1, <1>2, <1>3, <1>4, <1>5, <1>6, <1>7, MainTypesKept

\* The steps of the main thread, and what the operator does to it.
LEMMA MainThreadTypes ==
    ASSUME MainTypes, WorkTypes,
           \/ \E resume \in BOOLEAN : StartFix(resume)
           \/ \E t \in Trajs : NoteResult(t)
           \/ OpenProgress \/ CloseGenerate \/ DumpProgress \/ StartRetry \/ FinishRetry
           \/ InterruptGenerate \/ InterruptRetry \/ KillFix
    PROVE  MainTypes' /\ WorkTypes'
<1>1. ASSUME NEW resume \in BOOLEAN, StartFix(resume) PROVE MainTypes' /\ WorkTypes'
  <2>1. phase' \in Phases /\ job' \in [Jobs -> States]
    BY <1>1 DEF StartFix, Phases, States
  <2>2. done_ids' \subseteq Trajs
    BY <1>1 DEF StartFix, Known, MainTypes
  <2>3. sessions' \in 0 .. MaxSessions /\ platform' \in Platforms
    BY <1>1, NewSessionFacts DEF StartFix
  <2>4. done_count' \in 0 .. SaveEvery - 1
    BY <1>1, FixAssumption DEF StartFix
  <2>5. all_errors' \subseteq StepJobs /\ interrupted' \in BOOLEAN /\ asked' \subseteq StepJobs
    BY <1>1 DEF StartFix, WorkTypes
  <2> QED BY <1>1, <2>1, <2>2, <2>3, <2>4, <2>5 DEF StartFix, MainTypes, WorkTypes
<1>2. ASSUME NEW t \in Trajs, NoteResult(t) PROVE MainTypes' /\ WorkTypes'
  <2>1. TrajJob(t) \in Jobs /\ traj_id(t) \in Trajs
    BY JobsFacts, TrajIds
  <2>2. job' \in [Jobs -> States] /\ copy' \in [Jobs -> Content]
    BY <1>2, <2>1, TornFacts DEF NoteResult, WorkTypes, States, NoCopy
  <2>3. done_count' \in 0 .. SaveEvery - 1
    <3>1. done_count + 1 \in Nat /\ SaveEvery \in Nat \ {0}
      BY FixAssumption DEF MainTypes
    <3> QED BY <1>2, <3>1, Remainder DEF NoteResult
  <2>4. all_errors' \subseteq StepJobs /\ done_ids' \subseteq Trajs
    <3>1. {t} \X Missing(t, copy[TrajJob(t)]) \subseteq StepJobs
      BY MissingType DEF StepJobs
    <3>2. PICK failed \in SUBSET ({t} \X Missing(t, copy[TrajJob(t)])) :
             all_errors' = IF platform = "computer" THEN all_errors \cup failed ELSE {}
      BY <1>2 DEF NoteResult
    <3> QED BY <1>2, <2>1, <3>1, <3>2 DEF NoteResult, MainTypes
  <2>5. phase' \in Phases
    BY <1>2 DEF NoteResult, MainTypes, Phases
  <2> QED BY <1>2, <2>2, <2>3, <2>4, <2>5 DEF NoteResult, MainTypes, WorkTypes
<1>3. CASE OpenProgress
  <2>1. progress' \in [whole : BOOLEAN, ids : SUBSET Trajs] /\ phase' \in Phases
    BY <1>3 DEF OpenProgress, Phases
  <2> QED BY <1>3, <2>1, WorkTypesKept DEF OpenProgress, MainTypes
<1>4. CASE CloseGenerate
  <2>1. progress' \in [whole : BOOLEAN, ids : SUBSET Trajs] /\ phase' \in Phases
    BY <1>4 DEF CloseGenerate, Phases
  <2>2. job' \in [Jobs -> States] /\ copy' \in [Jobs -> Content]
    BY <1>4, TornFacts DEF CloseGenerate, States, NoCopy
  <2> QED BY <1>4, <2>1, <2>2 DEF CloseGenerate, MainTypes, WorkTypes
<1>5. CASE DumpProgress
  <2>1. progress' \in [whole : BOOLEAN, ids : SUBSET Trajs] /\ phase' \in Phases
    BY <1>5 DEF DumpProgress, Phases, MainTypes
  <2> QED BY <1>5, <2>1, WorkTypesKept DEF DumpProgress, MainTypes
<1>6. CASE StartRetry
  <2>1. phase' \in Phases /\ job' \in [Jobs -> States]
    BY <1>6 DEF StartRetry, Phases, States
  <2> QED BY <1>6, <2>1 DEF StartRetry, MainTypes, WorkTypes
<1>7. CASE FinishRetry
  <2>1. phase' \in Phases
    BY <1>7 DEF FinishRetry, Phases
  <2> QED BY <1>7, <2>1, WorkTypesKept DEF FinishRetry, MainTypes, fixVars
<1>8. CASE InterruptGenerate
  <2>1. phase' \in Phases /\ job' \in [Jobs -> States]
    BY <1>8 DEF InterruptGenerate, Phases, WorkTypes, States
  <2> QED BY <1>8, <2>1 DEF InterruptGenerate, MainTypes, WorkTypes
<1>9. CASE InterruptRetry
  <2>1. job' \in [Jobs -> States]
    BY <1>9 DEF InterruptRetry, WorkTypes, States
  <2> QED BY <1>9, <2>1 DEF InterruptRetry, MainTypes, WorkTypes
<1>10. CASE KillFix
  <2>1. phase' \in Phases /\ job' \in [Jobs -> States] /\ copy' \in [Jobs -> Content]
    BY <1>10, TornFacts DEF KillFix, Phases, States, NoCopy
  <2>2. done_count' \in 0 .. SaveEvery - 1
    BY <1>10, FixAssumption DEF KillFix
  <2> QED BY <1>10, <2>1, <2>2 DEF KillFix, MainTypes, WorkTypes
<1> QED BY <1>1, <1>2, <1>3, <1>4, <1>5, <1>6, <1>7, <1>8, <1>9, <1>10

\* The other script.
LEMMA RegenerateTypes ==
    ASSUME MainTypes, WorkTypes, ThoughtTypes, RegenerateNext, UNCHANGED fixVars
    PROVE  MainTypes' /\ WorkTypes' /\ ThoughtTypes'
<1>1. ASSUME platform' \in Platforms, sessions' \in 0 .. MaxSessions, phase' \in Phases
      PROVE  MainTypes'
  BY <1>1 DEF MainTypes, fixVars
<1>2. ASSUME file' \in [Trajs -> Content] PROVE WorkTypes'
  BY <1>2 DEF WorkTypes, fixVars
<1>3. ASSUME NEW resume \in BOOLEAN, StartRegenerate(resume)
      PROVE  MainTypes' /\ WorkTypes' /\ ThoughtTypes'
  <2>1. phase' \in Phases
    BY <1>3 DEF StartRegenerate, Phases
  <2>2. all_tasks' \in [Trajs -> Content] /\ traj_pending' \in [Trajs -> SUBSET Steps]
    BY <1>3 DEF StartRegenerate, StepJobsOf, WorkTypes, ThoughtTypes
  <2>3. unprinted' \in 0 .. FlushEvery - 1
    BY <1>3, RegenerateAssumption DEF StartRegenerate
  <2>4. redoing' \in BOOLEAN /\ redone' \subseteq StepJobs
    BY <1>3 DEF StartRegenerate, ThoughtTypes, Regenerated, StepJobs
  <2> QED BY <1>1, <1>2, <1>3, <2>1, <2>2, <2>3, <2>4, NewSessionFacts
          DEF StartRegenerate, ThoughtTypes, WorkTypes
<1>4. ASSUME NEW t \in Trajs, NEW s \in Steps, ThoughtAnswered(t, s)
      PROVE  MainTypes' /\ WorkTypes' /\ ThoughtTypes'
  <2>1. all_tasks' \in [Trajs -> Content]
    <3>1. {all_tasks[t], WithThought(all_tasks[t], s)} \subseteq Content
      BY WithThoughtFacts DEF ThoughtTypes
    <3> QED BY <1>4, <3>1 DEF ThoughtAnswered, ThoughtTypes
  <2>2. traj_pending' \in [Trajs -> SUBSET Steps]
    BY <1>4 DEF ThoughtAnswered, ThoughtTypes
  <2>3. unprinted' \in 0 .. FlushEvery - 1
    <3> DEFINE done == unprinted + (IF traj_pending[t] = {s} THEN 1 ELSE 0)
               print == done >= FlushEvery \/ NoneAsked'
    <3>1. unprinted' = IF print THEN 0 ELSE done
      BY <1>4 DEF ThoughtAnswered
    <3>2. done \in Nat /\ FlushEvery \in Nat \ {0}
      BY RegenerateAssumption DEF ThoughtTypes
    <3>3. ~ print => done < FlushEvery
      BY <3>2
    <3> HIDE DEF done, print
    <3> QED BY <3>1, <3>2, <3>3
  <2>4. phase' \in Phases
    BY <1>4 DEF ThoughtAnswered, MainTypes, Phases
  <2> QED BY <1>1, <1>2, <1>4, <2>1, <2>2, <2>3, <2>4
          DEF ThoughtAnswered, MainTypes, WorkTypes, ThoughtTypes
<1>5. ASSUME NEW t \in Trajs, OpenTask(t) PROVE MainTypes' /\ WorkTypes' /\ ThoughtTypes'
  <2>1. file' \in [Trajs -> Content]
    BY <1>5, TornFacts DEF OpenTask, WorkTypes
  <2> QED BY <1>1, <1>2, <1>5, <2>1 DEF OpenTask, MainTypes, ThoughtTypes
<1>6. ASSUME NEW t \in Trajs, DumpTask(t) PROVE MainTypes' /\ WorkTypes' /\ ThoughtTypes'
  <2>1. file' \in [Trajs -> Content]
    BY <1>6 DEF DumpTask, WorkTypes, ThoughtTypes
  <2> QED BY <1>1, <1>2, <1>6, <2>1 DEF DumpTask, MainTypes, ThoughtTypes
<1>7. CASE EndFlush \/ EndRewrite
  <2>1. phase' \in Phases
    BY <1>7 DEF EndFlush, EndRewrite, Phases
  <2> QED BY <1>1, <1>2, <1>7, <2>1, ThoughtTypesKept
          DEF EndFlush, EndRewrite, MainTypes, WorkTypes
<1>8. CASE KillRegenerate
  <2>1. phase' \in Phases
    BY <1>8 DEF KillRegenerate, Phases
  <2>2. ThoughtTypes'
    <3>1. all_tasks' \in [Trajs -> Content] /\ traj_pending' \in [Trajs -> SUBSET Steps]
      BY <1>8, TornFacts DEF KillRegenerate
    <3>2. unprinted' \in 0 .. FlushEvery - 1 /\ saved_trajs' \subseteq Trajs
      BY <1>8, RegenerateAssumption DEF KillRegenerate
    <3>3. writing' \subseteq Trajs /\ redoing' \in BOOLEAN /\ redone' \subseteq StepJobs
      BY <1>8 DEF KillRegenerate, ThoughtTypes
    <3> QED BY <3>1, <3>2, <3>3 DEF ThoughtTypes
  <2> QED BY <1>1, <1>2, <1>8, <2>1, <2>2 DEF KillRegenerate, MainTypes, WorkTypes
<1> QED BY <1>3, <1>4, <1>5, <1>6, <1>7, <1>8 DEF RegenerateNext, RegenerateStep

\* A step is one of a job, of the main thread, or of the other script.
LEMMA Steps3 ==
    ASSUME Next
    PROVE  \/ /\ UNCHANGED thoughtVars
              /\ \/ \E t \in Trajs : BeginJob(t)
                 \/ \E t \in Trajs, s \in Steps : StepAnswered(t, s)
                 \/ \E j \in Jobs : OpenTaskJson(j) \/ DumpTaskJson(j)
                 \/ \E j \in StepJobs : BeginRetry(j) \/ RetryAnswered(j) \/ ApplyResult(j)
           \/ /\ UNCHANGED thoughtVars
              /\ \/ \E resume \in BOOLEAN : StartFix(resume)
                 \/ \E t \in Trajs : NoteResult(t)
                 \/ OpenProgress \/ CloseGenerate \/ DumpProgress \/ StartRetry \/ FinishRetry
                 \/ InterruptGenerate \/ InterruptRetry \/ KillFix
           \/ RegenerateNext /\ UNCHANGED fixVars
BY DEF Next, FixNext, FixStep

LEMMA TypeStep == TypeOK /\ [Next]_vars => TypeOK'
<1> SUFFICES ASSUME MainTypes, WorkTypes, ThoughtTypes, [Next]_vars
             PROVE  MainTypes' /\ WorkTypes' /\ ThoughtTypes'
  BY DEF TypeOK, MainTypes, WorkTypes, ThoughtTypes, States
<1>1. CASE Next
  BY <1>1, Steps3, JobTypes, MainThreadTypes, RegenerateTypes, ThoughtTypesKept
<1>2. CASE UNCHANGED vars
  BY <1>2 DEF vars, fileVars, fixVars, thoughtVars, MainTypes, WorkTypes, ThoughtTypes
<1> QED BY <1>1, <1>2

\* Every variable has its type, for any number of trajectories, steps and threads.
THEOREM TypeCorrect == Spec => []TypeOK
BY TypeInit, TypeStep, PTL DEF Spec
-----------------------------------------------------------------------------
(* Who has a copy of a file in memory, and what is in it.                  *)

\* The jobs that will write their copy: on mobile a retry has none before its answer.
Held(j) ==
    \/ job[j] \in {"loaded", "truncated"}
    \/ job[j] = "asking" /\ (j \in TrajJobs \/ platform = "computer")

\* Phase A has jobs on trajectories, phase B on steps, and nothing else has any.
PhaseInv ==
    \A j \in Jobs :
        /\ job[j] # "none" => \/ j \in TrajJobs /\ Generating
                              \/ j \in StepJobs /\ phase = "retry"
        /\ job[j] = "answered" => platform = "mobile"

\* No two jobs will write the same file.
LockInv == \A i, j \in Jobs : i[1] = j[1] /\ Held(i) /\ Held(j) => i = j

\* On the computer phase B has one job at a time.
LoneInv == platform = "computer" /\ phase = "retry" => \A i, j \in Active : i = j

\* A copy that will be written lacks nothing that is in the file.
CopyInv ==
    \A j \in Jobs :
        /\ Held(j) /\ job[j] # "truncated" =>
              /\ file[j[1]].whole /\ copy[j].whole
              /\ Kept(file[j[1]], copy[j])
        /\ job[j] = "truncated" => ~ file[j[1]].whole /\ copy[j].whole
        /\ job[j] = "queued" /\ j \in TrajJobs => file[j[1]].whole

JobsInv == PhaseInv /\ LockInv /\ LoneInv /\ CopyInv

\* What a session of regenerate_thought.py keeps of c: without --resume the boxes.
KeptBySession(c, d) == IF redoing THEN BoxesKept(c, d) ELSE Kept(c, d)

\* The same for the script that has all files in memory at once.
ThoughtInv ==
    /\ ~ Regenerating => writing = {}
    /\ \A t, u \in writing : t = u
    /\ Regenerating => \A t \in Trajs :
          /\ all_tasks[t].whole
          /\ \A s \in traj_pending[t] :
                all_tasks[t].raw[s] = "none" \/ (redoing /\ << t, s >> \in redone)
          /\ IF t \in writing THEN ~ file[t].whole
             ELSE file[t].whole /\ KeptBySession(file[t], all_tasks[t])

LEMMA NoJobs == ASSUME \A j \in Jobs : job[j] = "none" PROVE JobsInv
BY DEF JobsInv, PhaseInv, LockInv, LoneInv, CopyInv, Held, Active

\* Outside its phases nobody has a job.
LEMMA Quiet ==
    ASSUME PhaseInv, Ended \/ Regenerating \/ phase \in {"closing progress", "missing"}
    PROVE  \A j \in Jobs : job[j] = "none"
BY DEF PhaseInv, Ended, Regenerating, Generating

\* The jobs of phase A have a trajectory each.
LEMMA OwnTrajectory ==
    ASSUME PhaseInv, NEW i \in Jobs, NEW j \in TrajJobs, Generating, job[i] # "none",
           i[1] = j[1]
    PROVE  i = j
BY JobsFacts DEF PhaseInv, Generating

\* One job moves, and no file.
LEMMA OneJob ==
    ASSUME WorkTypes, JobsInv, MainUnchanged, NEW j \in Jobs, file' = file,
           \A i \in Jobs : i # j => job'[i] = job[i] /\ copy'[i] = copy[i],
           job[j] # "none", job'[j] \notin {"queued", "truncated"},
           job'[j] = "answered" => platform = "mobile",
           Held(j)' => /\ \A i \in Jobs : i[1] = j[1] /\ Held(i) => i = j
                       /\ file[j[1]].whole /\ copy'[j].whole /\ Kept(file[j[1]], copy'[j]),
           platform = "computer" /\ phase = "retry" /\ j \in Active' => Active \subseteq {j}
    PROVE  JobsInv'
<1>1. platform' = platform /\ phase' = phase
  BY DEF MainUnchanged
<1>2. \A i \in Jobs : i # j => (Held(i)' <=> Held(i))
  BY <1>1 DEF Held
<1>3. PhaseInv'
  BY <1>1 DEF JobsInv, PhaseInv, Generating
<1>4. LockInv'
  BY <1>2 DEF JobsInv, LockInv
<1>5. LoneInv'
  <2> SUFFICES ASSUME platform = "computer", phase = "retry", NEW i \in Active', NEW k \in Active'
               PROVE  i = k
    BY <1>1 DEF LoneInv
  <2>1. Active' \subseteq Active \cup {j} /\ (j \notin Active' => Active' \subseteq Active)
    BY DEF Active
  <2>2. CASE j \in Active'
    BY <2>1, <2>2
  <2>3. CASE j \notin Active'
    BY <2>1, <2>3 DEF JobsInv, LoneInv
  <2> QED BY <2>2, <2>3
<1>6. CopyInv'
  <2> SUFFICES ASSUME NEW i \in Jobs
               PROVE  /\ Held(i)' /\ job'[i] # "truncated" =>
                            /\ file[i[1]].whole /\ copy'[i].whole
                            /\ Kept(file[i[1]], copy'[i])
                      /\ job'[i] = "truncated" => ~ file[i[1]].whole /\ copy'[i].whole
                      /\ job'[i] = "queued" /\ i \in TrajJobs => file[i[1]].whole
    BY DEF CopyInv, Kept
  <2>1. CASE i = j
    BY <2>1
  <2>2. CASE i # j
    BY <1>2, <2>2 DEF JobsInv, CopyInv
  <2> QED BY <2>1, <2>2
<1> QED BY <1>3, <1>4, <1>5, <1>6 DEF JobsInv

\* Nobody is at work where Active is empty.
LEMMA NobodyActive ==
    ASSUME Cardinality(Active) < 1
    PROVE  Active = {}
<1>1. IsFiniteSet(Jobs) /\ Active \in SUBSET Jobs
  BY JobsFacts DEF Active
<1>2. IsFiniteSet(Active)
  BY <1>1, FS_Subset
<1>3. Cardinality(Active) \in Nat /\ (Cardinality(Active) = 0 <=> Active = {})
  BY <1>2, FS_CardinalityType, FS_EmptySet
<1> QED BY <1>3

\* The steps of a job keep the files and the copies in order.
LEMMA JobSteps ==
    ASSUME MainTypes, WorkTypes, JobsInv,
           \/ \E t \in Trajs : BeginJob(t)
           \/ \E t \in Trajs, s \in Steps : StepAnswered(t, s)
           \/ \E j \in Jobs : OpenTaskJson(j) \/ DumpTaskJson(j)
           \/ \E j \in StepJobs : BeginRetry(j) \/ RetryAnswered(j) \/ ApplyResult(j)
    PROVE  JobsInv'
<1> USE JobsFacts
<1>1. ASSUME NEW t \in Trajs, BeginJob(t) PROVE JobsInv'
  <2>. PICK j : j = TrajJob(t)
    OBVIOUS
  <2>. PICK c : c = Converted(t, file[t])
    OBVIOUS
  <2>1. /\ j \in Jobs /\ j \in TrajJobs /\ j \notin StepJobs /\ j[1] = t
        /\ Generating /\ job[j] = "queued" /\ phase # "retry"
    BY <1>1 DEF BeginJob, Generating
  <2>2. file[t].whole /\ c.whole /\ Kept(file[t], c)
    <3>1. file[t].whole /\ file[t] \in Content
      BY <2>1 DEF JobsInv, CopyInv, WorkTypes
    <3> QED BY <3>1, ConvertedFacts
  <2>3. /\ copy' = [copy EXCEPT ![j] = c] /\ file' = file /\ MainUnchanged
        /\ job'[j] \in {"asking", "loaded", "returned"}
        /\ \A i \in Jobs : i # j => job'[i] = job[i]
    BY <1>1, <2>1 DEF BeginJob, AfterAnswers, WorkTypes
  <2>4. /\ copy'[j] = c /\ \A i \in Jobs : i # j => copy'[i] = copy[i]
    BY <2>1, <2>3 DEF WorkTypes
  <2>5. \A i \in Jobs : i[1] = j[1] /\ Held(i) => i = j
    BY <2>1, OwnTrajectory DEF JobsInv, Held
  <2>6. file[j[1]].whole /\ copy'[j].whole /\ Kept(file[j[1]], copy'[j])
    BY <2>1, <2>2, <2>4
  <2>8. /\ j \in Jobs /\ MainUnchanged /\ file' = file
        /\ \A i \in Jobs : i # j => job'[i] = job[i] /\ copy'[i] = copy[i]
        /\ job[j] # "none" /\ job'[j] \notin {"queued", "truncated"} /\ job'[j] # "answered"
        /\ phase # "retry"
    BY <2>1, <2>3, <2>4
  <2> QED BY <2>8, <2>5, <2>6, OneJob
<1>2. ASSUME NEW t \in Trajs, NEW s \in Steps, StepAnswered(t, s) PROVE JobsInv'
  <2>. PICK j : j = TrajJob(t)
    OBVIOUS
  <2>1. /\ j \in Jobs /\ j \in TrajJobs /\ j \notin StepJobs /\ j[1] = t
        /\ Generating /\ job[j] = "asking" /\ phase # "retry"
    BY <1>2 DEF StepAnswered, Generating
  <2>2. PICK c \in {copy[j], Boxed(copy[j], s)} :
           /\ copy' = [copy EXCEPT ![j] = c]
           /\ job' = [job EXCEPT ![j] = IF asking[j] = {s} THEN AfterAnswers(t, c) ELSE @]
    BY <1>2 DEF StepAnswered
  <2>3. file[t].whole /\ c.whole /\ Kept(file[t], c)
    <3>1. /\ file[t].whole /\ copy[j].whole /\ Kept(file[t], copy[j])
          /\ copy[j] \in Content
      BY <2>1 DEF JobsInv, CopyInv, Held, WorkTypes
    <3>2. Boxed(copy[j], s).whole = copy[j].whole /\ Kept(copy[j], Boxed(copy[j], s))
      BY <3>1, BoxedFacts
    <3> QED BY <2>2, <3>1, <3>2, KeptTransitive
  <2>4. /\ file' = file /\ MainUnchanged
        /\ job'[j] \in {"asking", "loaded", "returned"}
        /\ \A i \in Jobs : i # j => job'[i] = job[i]
    BY <1>2, <2>1, <2>2 DEF StepAnswered, AfterAnswers, WorkTypes
  <2>5. /\ copy'[j] = c /\ \A i \in Jobs : i # j => copy'[i] = copy[i]
    BY <2>1, <2>2 DEF WorkTypes
  <2>6. \A i \in Jobs : i[1] = j[1] /\ Held(i) => i = j
    BY <2>1, OwnTrajectory DEF JobsInv, Held
  <2>7. file[j[1]].whole /\ copy'[j].whole /\ Kept(file[j[1]], copy'[j])
    BY <2>1, <2>3, <2>5
  <2>8. /\ j \in Jobs /\ MainUnchanged /\ file' = file
        /\ \A i \in Jobs : i # j => job'[i] = job[i] /\ copy'[i] = copy[i]
        /\ job[j] # "none" /\ job'[j] \notin {"queued", "truncated"} /\ job'[j] # "answered"
        /\ phase # "retry"
    BY <2>1, <2>4, <2>5
  <2> QED BY <2>8, <2>6, <2>7, OneJob
<1>3. ASSUME NEW j \in Jobs, OpenTaskJson(j) PROVE JobsInv'
  <2>1. /\ job[j] = "loaded" /\ job' = [job EXCEPT ![j] = "truncated"] /\ copy' = copy
        /\ file' = [file EXCEPT ![j[1]] = Torn] /\ platform' = platform /\ phase' = phase
    BY <1>3 DEF OpenTaskJson, MainUnchanged
  <2>2. /\ \A i \in Jobs : Held(i)' <=> Held(i)
        /\ \A i \in Jobs : job'[i] = IF i = j THEN "truncated" ELSE job[i]
        /\ \A t \in Trajs : file'[t] = IF t = j[1] THEN Torn ELSE file[t]
    BY <2>1 DEF Held, WorkTypes
  <2>3. PhaseInv' /\ LockInv'
    <3>1. Generating' = Generating
      BY <2>1 DEF Generating
    <3>2. \A i \in Jobs : /\ job'[i] # "none" => job[i] # "none"
                         /\ job'[i] = "answered" => job[i] = "answered"
      BY <2>1, <2>2
    <3>3. PhaseInv'
      BY <2>1, <3>1, <3>2 DEF JobsInv, PhaseInv
    <3>4. LockInv'
      BY <2>2 DEF JobsInv, LockInv
    <3> QED BY <3>3, <3>4
  <2>4. LoneInv'
    <3>1. Active' = Active
      BY <2>1, <2>2 DEF Active
    <3> QED BY <2>1, <3>1 DEF JobsInv, LoneInv
  <2>5. CopyInv'
    <3> SUFFICES ASSUME NEW i \in Jobs
                 PROVE  /\ Held(i)' /\ job'[i] # "truncated" =>
                              /\ file'[i[1]].whole /\ copy'[i].whole
                              /\ Kept(file'[i[1]], copy'[i])
                        /\ job'[i] = "truncated" => ~ file'[i[1]].whole /\ copy'[i].whole
                        /\ job'[i] = "queued" /\ i \in TrajJobs => file'[i[1]].whole
      BY DEF CopyInv, Kept
    <3>1. CASE i = j
      BY <2>1, <2>2, <3>1, TornFacts DEF JobsInv, CopyInv, Held
    <3>2. CASE i # j /\ i[1] # j[1]
      BY <2>1, <2>2, <3>2 DEF JobsInv, CopyInv
    <3>3. CASE i # j /\ i[1] = j[1]
      <4>1. ~ Held(i) /\ job[i] # "truncated"
        BY <2>1, <3>3 DEF JobsInv, LockInv, Held
      <4>2. ~ (job[i] = "queued" /\ i \in TrajJobs)
        <5>1. SUFFICES ASSUME job[i] = "queued", i \in TrajJobs PROVE FALSE
          OBVIOUS
        <5>2. Generating /\ j \in TrajJobs
          BY <2>1, <5>1 DEF JobsInv, PhaseInv, Generating
        <5> QED BY <2>1, <3>3, <5>1, <5>2, OwnTrajectory DEF JobsInv
      <4> QED BY <2>2, <3>3, <4>1, <4>2
    <3> QED BY <3>1, <3>2, <3>3
  <2> QED BY <2>3, <2>4, <2>5 DEF JobsInv
<1>4. ASSUME NEW j \in Jobs, DumpTaskJson(j) PROVE JobsInv'
  <2>1. /\ job[j] = "truncated" /\ copy[j].whole
        /\ job' = [job EXCEPT ![j] = IF j \in TrajJobs THEN "returned" ELSE "none"]
        /\ \A i \in Jobs : i # j => copy'[i] = copy[i]
        /\ file' = [file EXCEPT ![j[1]] = copy[j]] /\ platform' = platform /\ phase' = phase
    BY <1>4 DEF DumpTaskJson, MainUnchanged, JobsInv, CopyInv, WorkTypes
  <2>2. /\ \A i \in Jobs : Held(i)' => Held(i) /\ i # j
        /\ \A i \in Jobs : job'[i] = IF i # j THEN job[i]
                                     ELSE IF j \in TrajJobs THEN "returned" ELSE "none"
        /\ \A t \in Trajs : file'[t] = IF t = j[1] THEN copy[j] ELSE file[t]
    BY <2>1 DEF Held, WorkTypes
  <2>3. PhaseInv' /\ LockInv'
    <3>1. Generating' = Generating
      BY <2>1 DEF Generating
    <3>2. \A i \in Jobs : /\ job'[i] # "none" => job[i] # "none"
                         /\ job'[i] = "answered" => job[i] = "answered"
      BY <2>1, <2>2
    <3>3. PhaseInv'
      BY <2>1, <3>1, <3>2 DEF JobsInv, PhaseInv
    <3>4. LockInv'
      BY <2>2 DEF JobsInv, LockInv
    <3> QED BY <3>3, <3>4
  <2>4. LoneInv'
    <3>1. Active' \subseteq Active
      BY <2>1, <2>2 DEF Active
    <3> QED BY <2>1, <3>1 DEF JobsInv, LoneInv
  <2>5. CopyInv'
    <3> SUFFICES ASSUME NEW i \in Jobs
                 PROVE  /\ Held(i)' /\ job'[i] # "truncated" =>
                              /\ file'[i[1]].whole /\ copy'[i].whole
                              /\ Kept(file'[i[1]], copy'[i])
                        /\ job'[i] = "truncated" => ~ file'[i[1]].whole /\ copy'[i].whole
                        /\ job'[i] = "queued" /\ i \in TrajJobs => file'[i[1]].whole
      BY DEF CopyInv, Kept
    <3>1. CASE i = j
      BY <2>1, <2>2, <3>1
    <3>2. CASE i # j /\ i[1] # j[1]
      BY <2>1, <2>2, <3>2 DEF JobsInv, CopyInv
    <3>3. CASE i # j /\ i[1] = j[1]
      <4>1. ~ Held(i) /\ job[i] # "truncated"
        BY <2>1, <3>3 DEF JobsInv, LockInv, Held
      <4> QED BY <2>1, <2>2, <3>3, <4>1
    <3> QED BY <3>1, <3>2, <3>3
  <2> QED BY <2>3, <2>4, <2>5 DEF JobsInv
<1>5. ASSUME NEW j \in StepJobs, BeginRetry(j) PROVE JobsInv'
  <2>1. /\ j \in Jobs /\ j \notin TrajJobs /\ phase = "retry" /\ job[j] = "queued"
        /\ file' = file /\ MainUnchanged
        /\ \A i \in Jobs : i # j => job'[i] = job[i] /\ copy'[i] = copy[i]
        /\ job'[j] \in {"none", "asking"}
    BY <1>5 DEF BeginRetry, WorkTypes
  <2>2. platform' = platform
    BY <2>1 DEF MainUnchanged
  <2>3. CASE platform = "computer"
    <3>1. Active = {}
      BY <1>5, <2>3, NobodyActive DEF BeginRetry
    <3>2. \A i \in Jobs : ~ Held(i)
      BY <3>1 DEF Held, Active
    <3>3. Held(j)' => /\ file[j[1]].whole /\ copy'[j].whole
                      /\ Kept(file[j[1]], copy'[j])
      <4>1. CASE file[j[1]].whole
        <5>1. copy'[j] = file[j[1]]
          BY <1>5, <2>1, <2>3, <4>1 DEF BeginRetry, WorkTypes
        <5> QED BY <4>1, <5>1, KeptReflexive
      <4>2. CASE ~ file[j[1]].whole
        <5>1. job'[j] = "none"
          BY <1>5, <2>1, <2>3, <4>2 DEF BeginRetry, WorkTypes
        <5> QED BY <5>1 DEF Held
      <4> QED BY <4>1, <4>2
    <3> QED BY <2>1, <3>1, <3>2, <3>3, OneJob
  <2>4. CASE platform # "computer"
    <3>1. ~ Held(j)'
      BY <2>1, <2>2, <2>4 DEF Held
    <3> QED BY <2>1, <2>4, <3>1, OneJob
  <2> QED BY <2>3, <2>4
<1>6. ASSUME NEW j \in StepJobs, RetryAnswered(j) PROVE JobsInv'
  <2>1. /\ j \in Jobs /\ j \notin TrajJobs /\ phase = "retry" /\ job[j] = "asking"
        /\ file' = file /\ MainUnchanged /\ j[2] \in Steps
        /\ \A i \in Jobs : i # j => job'[i] = job[i] /\ copy'[i] = copy[i]
        /\ job'[j] \in {"none", "answered", "loaded"}
        /\ job'[j] = "answered" => platform = "mobile"
    BY <1>6 DEF RetryAnswered, WorkTypes
  <2>2. Held(j)' => /\ platform = "computer" /\ Held(j)
                    /\ copy'[j] = Boxed(copy[j], j[2])
    BY <1>6, <2>1 DEF RetryAnswered, WorkTypes, Held
  <2>3. Held(j)' => /\ \A i \in Jobs : i[1] = j[1] /\ Held(i) => i = j
                    /\ file[j[1]].whole /\ copy'[j].whole /\ Kept(file[j[1]], copy'[j])
    <3> SUFFICES ASSUME Held(j)'
                 PROVE  /\ \A i \in Jobs : i[1] = j[1] /\ Held(i) => i = j
                        /\ file[j[1]].whole /\ copy'[j].whole /\ Kept(file[j[1]], copy'[j])
      OBVIOUS
    <3>1. /\ file[j[1]].whole /\ copy[j].whole /\ Kept(file[j[1]], copy[j])
          /\ copy[j] \in Content
      BY <2>1, <2>2 DEF JobsInv, CopyInv, WorkTypes
    <3>2. copy'[j].whole /\ Kept(copy[j], copy'[j])
      BY <2>1, <2>2, <3>1, BoxedFacts
    <3>3. Kept(file[j[1]], copy'[j])
      BY <3>1, <3>2, KeptTransitive
    <3> QED BY <2>1, <2>2, <3>1, <3>2, <3>3 DEF JobsInv, LockInv
  <2>4. platform = "computer" => Active \subseteq {j}
    BY <2>1 DEF JobsInv, LoneInv, Active
  <2> QED BY <2>1, <2>3, <2>4, OneJob
<1>7. ASSUME NEW j \in StepJobs, ApplyResult(j) PROVE JobsInv'
  <2>1. /\ j \in Jobs /\ j \notin TrajJobs /\ job[j] = "answered" /\ platform = "mobile"
        /\ phase = "retry" /\ file' = file /\ MainUnchanged /\ j[2] \in Steps
        /\ \A i \in Jobs : i # j => job'[i] = job[i] /\ copy'[i] = copy[i]
        /\ job'[j] \in {"none", "loaded"}
    BY <1>7 DEF ApplyResult, ReadForResult, WorkTypes, JobsInv, PhaseInv
  <2>2. \A i \in Jobs : i[1] = j[1] => ~ Held(i)
    BY <1>7, <2>1 DEF ApplyResult, Held, JobsInv, PhaseInv, Generating
  <2>3. Held(j)' => /\ file[j[1]].whole /\ copy'[j].whole
                    /\ Kept(file[j[1]], copy'[j])
    <3>1. CASE file[j[1]].whole
      <4>1. copy'[j] = Boxed(file[j[1]], j[2]) /\ file[j[1]] \in Content
        BY <1>7, <2>1, <3>1 DEF ApplyResult, ReadForResult, WorkTypes
      <4> QED BY <2>1, <3>1, <4>1, BoxedFacts
    <3>2. CASE ~ file[j[1]].whole
      <4>1. job'[j] = "none"
        BY <1>7, <2>1, <3>2 DEF ApplyResult, ReadForResult, WorkTypes
      <4> QED BY <4>1 DEF Held
    <3> QED BY <3>1, <3>2
  <2> QED BY <2>1, <2>2, <2>3, OneJob
<1> QED BY <1>1, <1>2, <1>3, <1>4, <1>5, <1>6, <1>7

\* Jobs are queued or over, and the rest is as it was.
LEMMA OnlyQueued ==
    ASSUME PhaseInv', \A j \in Jobs : job'[j] \in {"none", "queued"},
           \A j \in TrajJobs : job'[j] = "queued" => file'[j[1]].whole
    PROVE  JobsInv'
<1>1. \A j \in Jobs : ~ Held(j)' /\ j \notin Active'
  BY DEF Held, Active
<1>2. LockInv' /\ LoneInv'
  BY <1>1 DEF LockInv, LoneInv, Active
<1>3. CopyInv'
  BY <1>1 DEF CopyInv
<1> QED BY <1>2, <1>3 DEF JobsInv

LEMMA FewerJobs ==
    ASSUME JobsInv, PhaseInv', platform' = platform, file' = file,
           phase' = "retry" => phase = "retry",
           \A j \in Jobs : (job'[j] = job[j] /\ copy'[j] = copy[j]) \/ job'[j] = "none"
    PROVE  JobsInv'
<1>1. \A j \in Jobs : Held(j)' => Held(j) /\ job'[j] = job[j] /\ copy'[j] = copy[j]
  BY DEF Held
<1>2. LockInv'
  BY <1>1 DEF JobsInv, LockInv
<1>3. LoneInv'
  <2>1. Active' \subseteq Active
    BY DEF Active
  <2> QED BY <2>1 DEF JobsInv, LoneInv
<1>4. CopyInv'
  BY <1>1 DEF JobsInv, CopyInv, Kept
<1> QED BY <1>2, <1>3, <1>4 DEF JobsInv

\* The steps of the main thread keep the files and the copies in order.
LEMMA MainThreadSteps ==
    ASSUME MainTypes, WorkTypes, JobsInv,
           \/ \E resume \in BOOLEAN : StartFix(resume)
           \/ \E t \in Trajs : NoteResult(t)
           \/ OpenProgress \/ CloseGenerate \/ DumpProgress \/ StartRetry \/ FinishRetry
           \/ InterruptGenerate \/ InterruptRetry \/ KillFix
    PROVE  JobsInv'
<1>1. ASSUME NEW resume \in BOOLEAN, StartFix(resume) PROVE JobsInv'
  <2>. DEFINE todo == {t \in Trajs : /\ file[t].whole
                                     /\ traj_id(t) \notin Known(resume)
                                     /\ Missing(t, file[t]) # {}}
  <2>1. /\ \A j \in Jobs : job'[j] = IF j \in TrajJobs /\ j[1] \in todo THEN "queued"
                                     ELSE "none"
        /\ todo # {} => phase' = "generate"
        /\ file' = file /\ \A t \in todo : file[t].whole
    BY <1>1 DEF StartFix
  <2> HIDE DEF todo
  <2>2. PhaseInv'
    BY <2>1 DEF PhaseInv, Generating
  <2>3. \A j \in TrajJobs : job'[j] = "queued" => file'[j[1]].whole
    BY <2>1 DEF Jobs
  <2> QED BY <2>1, <2>2, <2>3, OnlyQueued
<1>2. ASSUME NEW t \in Trajs, NoteResult(t) PROVE JobsInv'
  <2>1. /\ platform' = platform /\ file' = file /\ phase' \in {"generate", "saving"}
        /\ phase = "generate"
        /\ \A j \in Jobs : (job'[j] = job[j] /\ copy'[j] = copy[j]) \/ job'[j] = "none"
    BY <1>2 DEF NoteResult, WorkTypes
  <2>2. PhaseInv'
    BY <2>1 DEF JobsInv, PhaseInv, Generating
  <2> QED BY <2>1, <2>2, FewerJobs
<1>3. CASE OpenProgress
  <2>1. /\ platform' = platform /\ file' = file /\ phase = "saving"
        /\ phase' = "saving progress" /\ job' = job /\ copy' = copy
    BY <1>3 DEF OpenProgress
  <2>2. PhaseInv'
    BY <2>1 DEF JobsInv, PhaseInv, Generating
  <2> QED BY <2>1, <2>2, FewerJobs
<1>4. CASE CloseGenerate
  <2>1. \A j \in Jobs : job'[j] = "none"
    BY <1>4 DEF CloseGenerate
  <2>2. PhaseInv'
    BY <2>1 DEF PhaseInv
  <2>3. \A j \in TrajJobs : job'[j] = "none"
    BY <2>1 DEF Jobs
  <2> QED BY <2>1, <2>2, <2>3, OnlyQueued
<1>5. CASE DumpProgress
  <2>1. /\ platform' = platform /\ file' = file /\ job' = job /\ copy' = copy
        /\ phase' # "retry"
        /\ (phase = "saving progress" /\ phase' = "generate") \/ phase = "closing progress"
    BY <1>5 DEF DumpProgress
  <2>2. PhaseInv'
    BY <2>1 DEF JobsInv, PhaseInv, Generating
  <2> QED BY <2>1, <2>2, FewerJobs
<1>6. CASE StartRetry
  <2>1. ToRetry \subseteq StepJobs
    BY DEF ToRetry, MainTypes
  <2>2. /\ \A j \in Jobs : job'[j] = IF j \in ToRetry THEN "queued" ELSE "none"
        /\ ToRetry # {} => phase' = "retry"
    BY <1>6 DEF StartRetry
  <2>3. PhaseInv'
    BY <2>1, <2>2 DEF PhaseInv
  <2>4. \A j \in TrajJobs : job'[j] = "none"
    BY <2>1, <2>2, JobsFacts DEF Jobs
  <2> QED BY <2>2, <2>3, <2>4, OnlyQueued
<1>7. CASE FinishRetry
  <2>1. \A j \in Jobs : job'[j] = "none"
    BY <1>7 DEF FinishRetry, fixVars
  <2>2. PhaseInv'
    BY <2>1 DEF PhaseInv
  <2>3. \A j \in TrajJobs : job'[j] = "none"
    BY <2>1 DEF Jobs
  <2> QED BY <2>1, <2>2, <2>3, OnlyQueued
<1>8. CASE InterruptGenerate
  <2>1. /\ platform' = platform /\ file' = file /\ phase' = "interrupted"
        /\ phase \in {"generate", "saving", "saving progress"} /\ copy' = copy
        /\ \A j \in Jobs : job'[j] = job[j] \/ job'[j] = "none"
    BY <1>8 DEF InterruptGenerate
  <2>2. PhaseInv'
    BY <2>1 DEF JobsInv, PhaseInv, Generating
  <2> QED BY <2>1, <2>2, FewerJobs
<1>9. CASE InterruptRetry
  <2>1. /\ platform' = platform /\ file' = file /\ phase' = phase /\ copy' = copy
        /\ \A j \in Jobs : job'[j] = job[j] \/ job'[j] = "none"
    BY <1>9 DEF InterruptRetry
  <2>2. PhaseInv'
    BY <2>1 DEF JobsInv, PhaseInv, Generating
  <2> QED BY <2>1, <2>2, FewerJobs
<1>10. CASE KillFix
  <2>1. \A j \in Jobs : job'[j] = "none"
    BY <1>10 DEF KillFix
  <2>2. PhaseInv'
    BY <2>1 DEF PhaseInv
  <2>3. \A j \in TrajJobs : job'[j] = "none"
    BY <2>1 DEF Jobs
  <2> QED BY <2>1, <2>2, <2>3, OnlyQueued
<1> QED BY <1>1, <1>2, <1>3, <1>4, <1>5, <1>6, <1>7, <1>8, <1>9, <1>10

\* While one script runs, the other keeps what it has.
LEMMA FixPhases ==
    ASSUME PhaseInv, UNCHANGED thoughtVars,
           \/ \E t \in Trajs : BeginJob(t)
           \/ \E t \in Trajs, s \in Steps : StepAnswered(t, s)
           \/ \E j \in Jobs : OpenTaskJson(j) \/ DumpTaskJson(j)
           \/ \E j \in StepJobs : BeginRetry(j) \/ RetryAnswered(j) \/ ApplyResult(j)
           \/ \E resume \in BOOLEAN : StartFix(resume)
           \/ \E t \in Trajs : NoteResult(t)
           \/ OpenProgress \/ CloseGenerate \/ DumpProgress \/ StartRetry \/ FinishRetry
           \/ InterruptGenerate \/ InterruptRetry \/ KillFix
    PROVE  ~ Regenerating /\ ~ Regenerating'
<1>1. ASSUME NEW j \in Jobs, job[j] # "none" PROVE Generating \/ phase = "retry"
  BY <1>1 DEF PhaseInv
<1>2. Generating \/ phase = "retry" => ~ Regenerating
  BY DEF Generating, Regenerating
<1>3. ASSUME NEW t \in Trajs, BeginJob(t) PROVE ~ Regenerating /\ phase' = phase
  BY <1>2, <1>3 DEF BeginJob, MainUnchanged
<1>4. ASSUME NEW t \in Trajs, NEW s \in Steps, StepAnswered(t, s)
      PROVE  ~ Regenerating /\ phase' = phase
  BY <1>2, <1>4 DEF StepAnswered, MainUnchanged
<1>5. ASSUME NEW j \in Jobs, OpenTaskJson(j) \/ DumpTaskJson(j)
      PROVE  ~ Regenerating /\ phase' = phase
  <2>1. job[j] # "none" /\ phase' = phase
    BY <1>5 DEF OpenTaskJson, DumpTaskJson, MainUnchanged
  <2> QED BY <1>1, <1>2, <2>1
<1>6. ASSUME NEW j \in StepJobs, BeginRetry(j) \/ RetryAnswered(j) \/ ApplyResult(j)
      PROVE  ~ Regenerating /\ phase' = phase
  <2>1. j \in Jobs /\ job[j] # "none" /\ phase' = phase
    BY <1>6, JobsFacts
       DEF BeginRetry, RetryAnswered, ApplyResult, ReadForResult, MainUnchanged
  <2> QED BY <1>1, <1>2, <2>1
<1>7. ASSUME NEW resume \in BOOLEAN, StartFix(resume)
      PROVE  ~ Regenerating /\ ~ Regenerating'
  BY <1>7 DEF StartFix, NewSession, Ended, Regenerating
<1>8. ASSUME NEW t \in Trajs, NoteResult(t) PROVE ~ Regenerating /\ ~ Regenerating'
  BY <1>8 DEF NoteResult, Regenerating
<1>9. CASE OpenProgress \/ CloseGenerate \/ DumpProgress
  BY <1>9 DEF OpenProgress, CloseGenerate, DumpProgress, Regenerating
<1>10. CASE StartRetry \/ FinishRetry \/ InterruptGenerate \/ InterruptRetry
  BY <1>10 DEF StartRetry, FinishRetry, InterruptGenerate, InterruptRetry, Regenerating
<1>11. CASE KillFix
  BY <1>11 DEF KillFix, Fixing, Generating, Regenerating
<1>12. phase' = phase => (Regenerating' <=> Regenerating)
  BY DEF Regenerating
<1> QED BY <1>3, <1>4, <1>5, <1>6, <1>7, <1>8, <1>9, <1>10, <1>11, <1>12

\* What mobile has written early is complete, and nothing is asked for at the end.
FlushInv ==
    Regenerating =>
        /\ \A t \in saved_trajs : file[t] = all_tasks[t] /\ traj_pending[t] = {}
        /\ saved_trajs \cap writing = {}
        /\ phase = "rewrite" => NoneAsked
        /\ \A t \in writing : traj_pending[t] = {}

\* A thought that a step came with is its thought until it is its raw_thought.
CleanThoughts(t, c) ==
    \A s \in Steps : << t, s >> \notin Bare \cup redone =>
        /\ c.raw[s] # "new"
        /\ c.whole /\ c.raw[s] = "none" => c.thought[s] = "original"

\* A dict, or the first box of a swipe alone, comes of what the step came with.
WellBoxed(t, c) ==
    \A s \in Steps :
        /\ platform = "computer" => c.box[s] \in {"none", "full"}
        /\ c.box[s] = "start" => Kind[t][s] = "swipe"
        /\ c.box[s] \in {"dict", "start"} => InitBoxes[t][s] \cap {"dict", "start"} # {}

Clean(t, c) == CleanThoughts(t, c) /\ WellBoxed(t, c)

RawInv ==
    /\ \A t \in Trajs : Clean(t, file[t]) /\ Clean(t, all_tasks[t])
    /\ \A j \in Jobs : Clean(j[1], copy[j])

LEMMA ThoughtsAlone ==
    ASSUME ThoughtInv, ~ Regenerating, ~ Regenerating', UNCHANGED thoughtVars
    PROVE  ThoughtInv' /\ FlushInv'
BY DEF ThoughtInv, FlushInv, thoughtVars, Regenerating

\* The steps of regenerate_thought.py.
LEMMA RegenerateSteps ==
    ASSUME MainTypes, WorkTypes, ThoughtTypes, PhaseInv, ThoughtInv, FlushInv,
           RegenerateNext, UNCHANGED fixVars
    PROVE  JobsInv' /\ ThoughtInv' /\ FlushInv'
<1>1. \A j \in Jobs : job'[j] = "none"
  <2>1. Ended \/ Regenerating
    BY DEF RegenerateNext, RegenerateStep, StartRegenerate, NewSession, ThoughtAnswered,
           OpenTask, DumpTask, EndFlush, EndRewrite, KillRegenerate, Regenerating
  <2> QED BY <2>1, Quiet DEF fixVars
<1>2. JobsInv'
  <2>1. PhaseInv'
    BY <1>1 DEF PhaseInv
  <2>2. \A j \in TrajJobs : job'[j] = "none"
    BY <1>1 DEF Jobs
  <2> QED BY <1>1, <2>1, <2>2, OnlyQueued
<1>3. ASSUME NEW resume \in BOOLEAN, StartRegenerate(resume) PROVE ThoughtInv' /\ FlushInv'
  <2>1. writing = {}
    BY <1>3 DEF StartRegenerate, NewSession, Ended, ThoughtInv, Regenerating
  <2>2. Regenerating' => /\ all_tasks' = file /\ \A t \in Trajs : file[t].whole
                         /\ traj_pending' = [t \in Trajs |-> StepJobsOf(file[t], resume)]
                         /\ redone' = IF resume THEN redone ELSE redone \cup Regenerated
                         /\ phase' = "thoughts"
    BY <1>3 DEF StartRegenerate, Regenerating
  <2>3. /\ file' = file /\ saved_trajs' = {} /\ writing' = {} /\ redoing' = ~ resume
    BY <1>3, <2>1 DEF StartRegenerate
  <2>6. ASSUME Regenerating', NEW t \in Trajs, NEW s \in traj_pending'[t]
        PROVE  all_tasks'[t].raw[s] = "none" \/ (redoing' /\ << t, s >> \in redone')
    <3>1. s \in Steps /\ (~ resume \/ file[t].raw[s] = "none") /\ all_tasks'[t] = file[t]
      BY <2>2, <2>6 DEF StepJobsOf
    <3>2. file[t].raw[s] # "none" => << t, s >> \in Regenerated
      BY <3>1 DEF Regenerated
    <3> QED BY <2>2, <2>3, <2>6, <3>1, <3>2
  <2>7. Regenerating' => \A t \in Trajs :
           all_tasks'[t].whole /\ file'[t].whole /\ KeptBySession(file[t], all_tasks[t])'
    BY <2>2, <2>3, KeptReflexive, KeptBoxes DEF KeptBySession
  <2>4. ThoughtInv'
    BY <2>3, <2>6, <2>7 DEF ThoughtInv
  <2>5. FlushInv'
    BY <2>2, <2>3 DEF FlushInv
  <2> QED BY <1>2, <2>4, <2>5
<1>4. ASSUME NEW t \in Trajs, NEW s \in Steps, ThoughtAnswered(t, s)
      PROVE  ThoughtInv' /\ FlushInv'
  <2>1. /\ Regenerating /\ s \in traj_pending[t] /\ file' = file /\ writing' = writing
        /\ saved_trajs' = saved_trajs /\ phase = "thoughts"
        /\ traj_pending' = [traj_pending EXCEPT ![t] = @ \ {s}]
        /\ phase' = "rewrite" => NoneAsked'
    BY <1>4 DEF ThoughtAnswered, Regenerating
  <2>2. PICK c \in {all_tasks[t], WithThought(all_tasks[t], s)} :
           all_tasks' = [all_tasks EXCEPT ![t] = c]
    BY <1>4 DEF ThoughtAnswered
  <2>3. /\ all_tasks[t] \in Content /\ (all_tasks[t].raw[s] = "none" \/ redoing)
        /\ all_tasks[t].whole /\ t \notin saved_trajs /\ t \notin writing
        /\ file[t].whole /\ KeptBySession(file[t], all_tasks[t])
    BY <2>1 DEF ThoughtTypes, ThoughtInv, FlushInv
  <2>4. /\ c.whole /\ KeptBySession(file[t], c)
        /\ \A r \in Steps : r # s => c.raw[r] = all_tasks[t].raw[r]
    <3>1. WithThought(all_tasks[t], s).whole = all_tasks[t].whole
      BY <2>3, WithThoughtFacts
    <3>2. /\ BoxesKept(all_tasks[t], WithThought(all_tasks[t], s))
          /\ ~ redoing => Kept(all_tasks[t], WithThought(all_tasks[t], s))
      BY <2>3, WithThoughtFacts DEF Kept, BoxesKept
    <3>3. \A r \in Steps : r # s =>
             WithThought(all_tasks[t], s).raw[r] = all_tasks[t].raw[r]
      BY <2>3, WithThoughtFacts
    <3>4. KeptBySession(file[t], WithThought(all_tasks[t], s))
      BY <2>3, <3>2, KeptTransitive, BoxesKeptTransitive DEF KeptBySession
    <3> QED BY <2>2, <2>3, <3>1, <3>3, <3>4
  <2>5. /\ \A u \in Trajs : all_tasks'[u] = IF u = t THEN c ELSE all_tasks[u]
        /\ \A u \in Trajs : traj_pending'[u] = IF u = t THEN traj_pending[t] \ {s}
                                               ELSE traj_pending[u]
    BY <2>1, <2>2 DEF ThoughtTypes
  <2>8. redoing' = redoing /\ redone' = redone
    BY <1>4 DEF ThoughtAnswered
  <2>6. ThoughtInv'
    <3>1. ASSUME NEW u \in Trajs
          PROVE  /\ all_tasks'[u].whole
                 /\ \A r \in traj_pending'[u] :
                       all_tasks'[u].raw[r] = "none" \/ (redoing /\ << u, r >> \in redone)
                 /\ IF u \in writing THEN ~ file[u].whole
                    ELSE file[u].whole /\ KeptBySession(file[u], all_tasks'[u])
      <4>1. CASE u = t
        <5>1. \A r \in traj_pending'[t] : r \in Steps /\ r # s /\ r \in traj_pending[t]
          BY <2>5 DEF ThoughtTypes
        <5>2. \A r \in traj_pending[t] :
                 all_tasks[t].raw[r] = "none" \/ (redoing /\ << t, r >> \in redone)
          BY <2>1 DEF ThoughtInv
        <5> QED BY <2>3, <2>4, <2>5, <4>1, <5>1, <5>2
      <4>2. CASE u # t
        BY <2>1, <2>5, <4>2 DEF ThoughtInv
      <4> QED BY <4>1, <4>2
    <3>2. \A u, v \in writing : u = v
      BY DEF ThoughtInv
    <3>3. ~ Regenerating' => writing = {}
      <4>1. phase' \in {"thoughts", "flush", "rewrite"}
        BY <1>4 DEF ThoughtAnswered
      <4> QED BY <4>1 DEF Regenerating
    <3> QED BY <2>1, <2>8, <3>1, <3>2, <3>3 DEF ThoughtInv, KeptBySession, Kept, BoxesKept
  <2>7. FlushInv'
    <3>1. \A u \in saved_trajs : /\ u \in Trajs /\ u # t /\ file[u] = all_tasks[u]
                                 /\ traj_pending[u] = {}
      BY <2>1, <2>3 DEF FlushInv, ThoughtTypes
    <3>2. \A u \in writing : u \in Trajs /\ u # t /\ traj_pending[u] = {}
      BY <2>1, <2>3 DEF FlushInv, ThoughtTypes
    <3>3. saved_trajs \cap writing = {}
      BY <2>1 DEF FlushInv
    <3> QED BY <2>1, <2>5, <3>1, <3>2, <3>3 DEF FlushInv
  <2> QED BY <2>6, <2>7
<1>5. ASSUME NEW t \in Trajs, OpenTask(t) PROVE ThoughtInv' /\ FlushInv'
  <2>1. /\ Regenerating /\ phase' = phase /\ writing = {} /\ writing' = {t}
        /\ t \notin saved_trajs
        /\ UNCHANGED << all_tasks, traj_pending, saved_trajs, redoing, redone >>
        /\ \A u \in Trajs : file'[u] = IF u = t THEN Torn ELSE file[u]
    BY <1>5 DEF OpenTask, Regenerating, WorkTypes
  <2>2. traj_pending[t] = {}
    BY <1>5, <2>1 DEF OpenTask, Complete, FlushInv, NoneAsked
  <2>3. ThoughtInv'
    BY <2>1, TornFacts DEF ThoughtInv, KeptBySession, Kept, BoxesKept, Regenerating
  <2>4. FlushInv'
    BY <2>1, <2>2 DEF FlushInv, NoneAsked, Regenerating, ThoughtTypes
  <2> QED BY <2>3, <2>4
<1>6. ASSUME NEW t \in Trajs, DumpTask(t) PROVE ThoughtInv' /\ FlushInv'
  <2>1. /\ Regenerating /\ phase' = phase /\ t \in writing /\ writing' = {}
        /\ saved_trajs' = saved_trajs \cup {t}
        /\ UNCHANGED << all_tasks, traj_pending, redoing, redone >>
        /\ \A u \in Trajs : file'[u] = IF u = t THEN all_tasks[t] ELSE file[u]
    BY <1>6 DEF DumpTask, Regenerating, WorkTypes
  <2>2. \A u \in writing : u = t
    BY <2>1 DEF ThoughtInv
  <2>3. ThoughtInv'
    BY <2>1, <2>2, KeptReflexive
       DEF ThoughtInv, KeptBySession, Kept, BoxesKept, Regenerating
  <2>4. FlushInv'
    BY <2>1, <2>2 DEF FlushInv, NoneAsked, Regenerating, ThoughtTypes
  <2> QED BY <2>3, <2>4
<1>7. ASSUME EndFlush \/ EndRewrite PROVE ThoughtInv' /\ FlushInv'
  <2>1. /\ writing = {} /\ file' = file /\ UNCHANGED thoughtVars /\ Regenerating
        /\ phase' = "rewrite" => NoneAsked
    BY <1>7 DEF EndFlush, EndRewrite, Regenerating
  <2>2. ThoughtInv'
    BY <2>1 DEF ThoughtInv, thoughtVars, KeptBySession, Kept, BoxesKept
  <2>3. FlushInv'
    BY <2>1 DEF FlushInv, thoughtVars, NoneAsked
  <2> QED BY <2>2, <2>3
<1>8. ASSUME KillRegenerate PROVE ThoughtInv' /\ FlushInv'
  BY <1>8 DEF KillRegenerate, ThoughtInv, FlushInv, Regenerating
<1> QED BY <1>2, <1>3, <1>4, <1>5, <1>6, <1>7, <1>8 DEF RegenerateNext, RegenerateStep

-----------------------------------------------------------------------------
(* The thought a step came with.                                           *)

LEMMA CleanTorn == \A t : Clean(t, Torn)
BY DEF Clean, CleanThoughts, WellBoxed, Torn

\* No box changes a thought, and a box is put where one has been asked for.
LEMMA CleanBoxed ==
    ASSUME NEW t \in Trajs, NEW c \in Content, NEW s \in Steps, Clean(t, c)
    PROVE  Clean(t, Boxed(c, s))
<1>1. CleanThoughts(t, Boxed(c, s))
  BY BoxedFacts DEF Clean, CleanThoughts
<1>2. WellBoxed(t, Boxed(c, s))
  BY DEF Clean, WellBoxed, Boxed, Content
<1> QED BY <1>1, <1>2 DEF Clean

LEMMA CleanConverted ==
    ASSUME NEW t \in Trajs, NEW c \in Content, Clean(t, c)
    PROVE  Clean(t, Converted(t, c))
<1>1. CleanThoughts(t, Converted(t, c))
  BY ConvertedFacts DEF Clean, CleanThoughts
<1>2. WellBoxed(t, Converted(t, c))
  <2>1. \A s \in Steps : Converted(t, c).box[s] =
           IF platform = "mobile" /\ c.box[s] = "dict"
           THEN (IF Kind[t][s] = "swipe" THEN "start" ELSE "full") ELSE c.box[s]
    BY DEF Converted, Content
  <2> QED BY <2>1 DEF Clean, WellBoxed
<1> QED BY <1>1, <1>2 DEF Clean

LEMMA CleanWithThought ==
    ASSUME NEW t \in Trajs, NEW c \in Content, NEW s \in Steps, Clean(t, c), c.whole,
           c.raw[s] = "none" \/ << t, s >> \in redone
    PROVE  Clean(t, WithThought(c, s))
<1>1. WellBoxed(t, WithThought(c, s))
  BY WithThoughtFacts DEF Clean, WellBoxed
<1>2. ASSUME NEW r \in Steps, << t, r >> \notin Bare \cup redone
      PROVE  /\ WithThought(c, s).raw[r] # "new"
             /\ WithThought(c, s).whole /\ WithThought(c, s).raw[r] = "none" =>
                   WithThought(c, s).thought[r] = "original"
  <2>1. c.raw[r] # "new" /\ (c.raw[r] = "none" => c.thought[r] = "original")
    BY <1>2 DEF Clean, CleanThoughts
  <2>2. CASE r = s
    BY <1>2, <2>1, <2>2, WithThoughtFacts
  <2>3. CASE r # s
    BY <2>1, <2>3, WithThoughtFacts
  <2> QED BY <2>2, <2>3
<1> QED BY <1>1, <1>2 DEF Clean, CleanThoughts

\* No box changes a thought.
LEMMA RawJobs ==
    ASSUME WorkTypes, RawInv, UNCHANGED thoughtVars, platform' = platform,
           \/ \E t \in Trajs : BeginJob(t)
           \/ \E t \in Trajs, s \in Steps : StepAnswered(t, s)
           \/ \E j \in Jobs : OpenTaskJson(j) \/ DumpTaskJson(j)
           \/ \E j \in StepJobs : BeginRetry(j) \/ RetryAnswered(j) \/ ApplyResult(j)
    PROVE  RawInv'
<1>1. \A t \in Trajs : Clean(t, all_tasks'[t])
  BY DEF RawInv, thoughtVars
<1>2. ASSUME \A t \in Trajs : Clean(t, file'[t]), \A j \in Jobs : Clean(j[1], copy'[j])
      PROVE  RawInv'
  BY <1>1, <1>2 DEF RawInv, Clean, CleanThoughts, WellBoxed, thoughtVars
<1>3. ASSUME NEW t \in Trajs, BeginJob(t) PROVE RawInv'
  <2>1. /\ TrajJob(t) \in Jobs /\ TrajJob(t)[1] = t /\ file' = file
        /\ copy' = [copy EXCEPT ![TrajJob(t)] = Converted(t, file[t])]
        /\ file[t] \in Content /\ Clean(t, file[t])
    BY <1>3, JobsFacts DEF BeginJob, WorkTypes, RawInv
  <2>2. Clean(t, Converted(t, file[t]))
    BY <2>1, CleanConverted
  <2> QED BY <1>2, <2>1, <2>2 DEF RawInv, WorkTypes
<1>4. ASSUME NEW t \in Trajs, NEW s \in Steps, StepAnswered(t, s) PROVE RawInv'
  <2>. PICK j : j = TrajJob(t)
    OBVIOUS
  <2>1. /\ j \in Jobs /\ j[1] = t /\ file' = file
        /\ copy[j] \in Content /\ Clean(t, copy[j])
    BY <1>4, JobsFacts DEF StepAnswered, WorkTypes, RawInv
  <2>2. PICK c \in {copy[j], Boxed(copy[j], s)} : copy' = [copy EXCEPT ![j] = c]
    BY <1>4 DEF StepAnswered
  <2>3. Clean(t, Boxed(copy[j], s))
    BY <2>1, CleanBoxed
  <2> QED BY <1>2, <2>1, <2>2, <2>3 DEF RawInv, WorkTypes
<1>5. ASSUME NEW j \in Jobs, OpenTaskJson(j) \/ DumpTaskJson(j) PROVE RawInv'
  <2>1. j[1] \in Trajs /\ Clean(j[1], Torn) /\ Clean(j[1], copy[j])
    BY JobsFacts, CleanTorn DEF RawInv
  <2>2. \A t \in Trajs : Clean(t, file'[t])
    <3>1. file' = [file EXCEPT ![j[1]] = Torn] \/ file' = [file EXCEPT ![j[1]] = copy[j]]
      BY <1>5 DEF OpenTaskJson, DumpTaskJson
    <3> QED BY <2>1, <3>1 DEF RawInv, WorkTypes
  <2>3. \A i \in Jobs : Clean(i[1], copy'[i])
    <3>1. \/ copy' = copy
          \/ copy' = [copy EXCEPT ![j] = IF j \in TrajJobs THEN @ ELSE Torn]
      BY <1>5 DEF OpenTaskJson, DumpTaskJson, NoCopy
    <3> QED BY <2>1, <3>1 DEF RawInv, WorkTypes
  <2> QED BY <1>2, <2>2, <2>3
<1>6. ASSUME NEW j \in StepJobs, BeginRetry(j) \/ RetryAnswered(j) \/ ApplyResult(j)
      PROVE  RawInv'
  <2>1. /\ j \in Jobs /\ j[1] \in Trajs /\ j[2] \in Steps /\ file' = file
        /\ copy[j] \in Content /\ file[j[1]] \in Content
        /\ Clean(j[1], copy[j]) /\ Clean(j[1], file[j[1]]) /\ Clean(j[1], Torn)
    BY <1>6, JobsFacts, CleanTorn
       DEF BeginRetry, RetryAnswered, ApplyResult, ReadForResult, WorkTypes, RawInv
  <2>2. Clean(j[1], Boxed(copy[j], j[2])) /\ Clean(j[1], Boxed(file[j[1]], j[2]))
    BY <2>1, CleanBoxed
  <2>3. \/ copy' = copy
        \/ \E c \in {file[j[1]], Torn, Boxed(copy[j], j[2]), Boxed(file[j[1]], j[2])} :
              copy' = [copy EXCEPT ![j] = c]
    BY <1>6, <2>1
       DEF BeginRetry, RetryAnswered, ApplyResult, ReadForResult, WorkTypes, NoCopy
  <2> QED BY <1>2, <2>1, <2>2, <2>3 DEF RawInv, WorkTypes
<1> QED BY <1>3, <1>4, <1>5, <1>6

LEMMA RawMainThread ==
    ASSUME WorkTypes, RawInv, UNCHANGED thoughtVars, platform' = platform,
           \/ \E resume \in BOOLEAN : StartFix(resume)
           \/ \E t \in Trajs : NoteResult(t)
           \/ OpenProgress \/ CloseGenerate \/ DumpProgress \/ StartRetry \/ FinishRetry
           \/ InterruptGenerate \/ InterruptRetry \/ KillFix
    PROVE  RawInv'
<1>1. file' = file /\ all_tasks' = all_tasks
  BY DEF StartFix, NoteResult, OpenProgress, CloseGenerate, DumpProgress, StartRetry,
         FinishRetry, InterruptGenerate, InterruptRetry, KillFix, thoughtVars
<1>2. \A j \in Jobs : copy'[j] = copy[j] \/ copy'[j] = Torn
  BY DEF StartFix, NoteResult, OpenProgress, CloseGenerate, DumpProgress, StartRetry,
         FinishRetry, fixVars, InterruptGenerate, InterruptRetry, KillFix, NoCopy, WorkTypes
<1>3. \A j \in Jobs : Clean(j[1], copy'[j])
  BY <1>2, CleanTorn DEF RawInv
<1> QED BY <1>1, <1>3 DEF RawInv, Clean, CleanThoughts, WellBoxed, thoughtVars

\* No step changes the platform, and redone only grows.
LEMMA PlatformStays == [Next]_vars => platform' = platform /\ redone \subseteq redone'
<1> SUFFICES ASSUME Next \/ UNCHANGED vars PROVE platform' = platform /\ redone \subseteq redone'
  OBVIOUS
<1>1. CASE RegenerateNext
  BY <1>1 DEF RegenerateNext, RegenerateStep, StartRegenerate, NewSession, ThoughtAnswered,
              OpenTask, DumpTask, EndFlush, EndRewrite, thoughtVars, KillRegenerate
<1>2. ASSUME UNCHANGED thoughtVars,
             \/ \E t \in Trajs : BeginJob(t)
             \/ \E t \in Trajs, s \in Steps : StepAnswered(t, s)
             \/ \E j \in Jobs : OpenTaskJson(j) \/ DumpTaskJson(j)
             \/ \E j \in StepJobs : BeginRetry(j) \/ RetryAnswered(j) \/ ApplyResult(j)
      PROVE  platform' = platform /\ redone \subseteq redone'
  BY <1>2 DEF BeginJob, StepAnswered, OpenTaskJson, DumpTaskJson, BeginRetry, RetryAnswered,
              ApplyResult, ReadForResult, MainUnchanged, thoughtVars
<1>3. ASSUME UNCHANGED thoughtVars,
             \/ \E resume \in BOOLEAN : StartFix(resume)
             \/ \E t \in Trajs : NoteResult(t)
             \/ OpenProgress \/ CloseGenerate \/ DumpProgress \/ StartRetry \/ FinishRetry
             \/ InterruptGenerate \/ InterruptRetry \/ KillFix
      PROVE  platform' = platform /\ redone \subseteq redone'
  BY <1>3 DEF StartFix, NewSession, NoteResult, OpenProgress, CloseGenerate, DumpProgress,
              StartRetry, FinishRetry, InterruptGenerate, InterruptRetry, KillFix, thoughtVars
<1>4. CASE UNCHANGED vars
  BY <1>4 DEF vars, fileVars, thoughtVars
<1> QED BY <1>1, <1>2, <1>3, <1>4, Steps3

\* The only step that writes a thought keeps the one it replaces.
LEMMA RawRegenerate ==
    ASSUME WorkTypes, ThoughtTypes, RawInv, ThoughtInv, RegenerateNext, UNCHANGED fixVars,
           platform' = platform, redone \subseteq redone'
    PROVE  RawInv'
<1>1. ASSUME \A t \in Trajs : Clean(t, file'[t]) /\ Clean(t, all_tasks'[t]) PROVE RawInv'
  <2>1. \A j \in Jobs : Clean(j[1], copy'[j])
    BY DEF RawInv, fixVars
  <2> QED BY <1>1, <2>1 DEF RawInv, Clean, CleanThoughts, WellBoxed
<1>2. \A t \in Trajs : Clean(t, file[t]) /\ Clean(t, all_tasks[t]) /\ Clean(t, Torn)
  BY CleanTorn DEF RawInv
<1>3. ASSUME NEW resume \in BOOLEAN, StartRegenerate(resume) PROVE RawInv'
  BY <1>1, <1>2, <1>3 DEF StartRegenerate
<1>4. ASSUME NEW t \in Trajs, NEW s \in Steps, ThoughtAnswered(t, s) PROVE RawInv'
  <2>. PICK c : c = all_tasks[t]
    OBVIOUS
  <2>1. /\ file' = file /\ c \in Content /\ c.whole
        /\ c.raw[s] = "none" \/ << t, s >> \in redone
    BY <1>4 DEF ThoughtAnswered, ThoughtTypes, ThoughtInv, Regenerating
  <2>2. PICK d \in {c, WithThought(c, s)} : all_tasks' = [all_tasks EXCEPT ![t] = d]
    BY <1>4 DEF ThoughtAnswered
  <2>3. Clean(t, WithThought(c, s))
    BY <1>2, <2>1, CleanWithThought
  <2>4. \A u \in Trajs : Clean(u, all_tasks'[u])
    BY <1>2, <2>2, <2>3 DEF ThoughtTypes
  <2> QED BY <1>1, <1>2, <2>1, <2>4
<1>5. ASSUME NEW t \in Trajs, OpenTask(t) PROVE RawInv'
  BY <1>1, <1>2, <1>5 DEF OpenTask, WorkTypes
<1>6. ASSUME NEW t \in Trajs, DumpTask(t) PROVE RawInv'
  BY <1>1, <1>2, <1>6 DEF DumpTask, WorkTypes
<1>7. CASE EndFlush \/ EndRewrite
  BY <1>1, <1>2, <1>7 DEF EndFlush, EndRewrite, thoughtVars
<1>8. CASE KillRegenerate
  BY <1>1, <1>2, <1>8 DEF KillRegenerate
<1> QED BY <1>3, <1>4, <1>5, <1>6, <1>7, <1>8 DEF RegenerateNext, RegenerateStep

-----------------------------------------------------------------------------
(* The invariant of both scripts.                                          *)

IInv == TypeOK /\ JobsInv /\ ThoughtInv /\ FlushInv /\ RawInv

LEMMA IInit == Init => IInv
<1> SUFFICES ASSUME Init PROVE IInv
  OBVIOUS
<1> USE DEF Init, FilesInit, FixInit, RegenerateInit
<1>1. TypeOK
  BY TypeInit
<1>2. JobsInv
  BY NoJobs
<1>3. ThoughtInv /\ FlushInv
  BY DEF ThoughtInv, FlushInv, Regenerating
<1>4. RawInv
  <2>1. ASSUME NEW t \in Trajs PROVE Clean(t, file[t])
    <3>1. file[t] \in FirstContents(platform, t)
      OBVIOUS
    <3>2. /\ \A s \in Steps : file[t].raw[s] = "none"
          /\ \A s \in Steps : << t, s >> \notin Bare => file[t].thought[s] = "original"
          /\ \A s \in Steps : /\ file[t].box[s] \in InitBoxes[t][s]
                              /\ FirstBox(platform, t, s, file[t].box[s])
      BY <3>1 DEF FirstContents
    <3>3. CleanThoughts(t, file[t])
      BY <3>2 DEF CleanThoughts
    <3>4. WellBoxed(t, file[t])
      <4>1. \A s \in Steps : Kind[t][s] \in {"click", "swipe", "other"}
        BY TaskFilesAssumption
      <4> QED BY <3>2, <4>1 DEF WellBoxed, FirstBox
    <3> QED BY <3>3, <3>4 DEF Clean
  <2>2. \A j \in Jobs : copy[j] = Torn
    BY DEF NoCopy
  <2> QED BY <2>1, <2>2, CleanTorn DEF RawInv
<1> QED BY <1>1, <1>2, <1>3, <1>4 DEF IInv

LEMMA IStep == IInv /\ [Next]_vars => IInv'
<1> SUFFICES ASSUME TypeOK, JobsInv, ThoughtInv, FlushInv, RawInv, [Next]_vars
             PROVE  TypeOK' /\ JobsInv' /\ ThoughtInv' /\ FlushInv' /\ RawInv'
  BY DEF IInv
<1>1. TypeOK'
  BY TypeStep
<1>2. /\ MainTypes /\ WorkTypes /\ ThoughtTypes /\ PhaseInv
      /\ platform' = platform /\ redone \subseteq redone'
  BY TypeParts, PlatformStays DEF JobsInv
<1>3. CASE RegenerateNext /\ UNCHANGED fixVars
  BY <1>1, <1>2, <1>3, RegenerateSteps, RawRegenerate
<1>4. ASSUME UNCHANGED thoughtVars,
             \/ \E t \in Trajs : BeginJob(t)
             \/ \E t \in Trajs, s \in Steps : StepAnswered(t, s)
             \/ \E j \in Jobs : OpenTaskJson(j) \/ DumpTaskJson(j)
             \/ \E j \in StepJobs : BeginRetry(j) \/ RetryAnswered(j) \/ ApplyResult(j)
      PROVE  JobsInv' /\ ThoughtInv' /\ FlushInv' /\ RawInv'
  <2>1. JobsInv' /\ RawInv'
    BY <1>2, <1>4, JobSteps, RawJobs
  <2>2. ~ Regenerating /\ ~ Regenerating'
    BY <1>2, <1>4, FixPhases
  <2> QED BY <1>4, <2>1, <2>2, ThoughtsAlone
<1>5. ASSUME UNCHANGED thoughtVars,
             \/ \E resume \in BOOLEAN : StartFix(resume)
             \/ \E t \in Trajs : NoteResult(t)
             \/ OpenProgress \/ CloseGenerate \/ DumpProgress \/ StartRetry \/ FinishRetry
             \/ InterruptGenerate \/ InterruptRetry \/ KillFix
      PROVE  JobsInv' /\ ThoughtInv' /\ FlushInv' /\ RawInv'
  <2>1. JobsInv' /\ RawInv'
    BY <1>2, <1>5, MainThreadSteps, RawMainThread
  <2>2. ~ Regenerating /\ ~ Regenerating'
    BY <1>2, <1>5, FixPhases
  <2> QED BY <1>5, <2>1, <2>2, ThoughtsAlone
<1>6. CASE UNCHANGED vars
  <2>1. JobsInv'
    <3>1. /\ platform' = platform /\ file' = file /\ phase' = phase /\ job' = job
          /\ copy' = copy
      BY <1>6 DEF vars, fileVars, fixVars
    <3>2. PhaseInv'
      BY <3>1 DEF JobsInv, PhaseInv, Generating
    <3> QED BY <3>1, <3>2, FewerJobs
  <2>2. ThoughtInv' /\ FlushInv'
    BY <1>6 DEF vars, fileVars, thoughtVars, ThoughtInv, FlushInv, Regenerating, NoneAsked,
                KeptBySession, Kept, BoxesKept
  <2>3. RawInv'
    BY <1>6 DEF vars, fileVars, fixVars, thoughtVars, RawInv, Clean, CleanThoughts, WellBoxed
  <2> QED BY <1>1, <2>1, <2>2, <2>3
<1> QED BY <1>1, <1>3, <1>4, <1>5, <1>6, Steps3

LEMMA Invariant == Spec => []IInv
BY IInit, IStep, PTL DEF Spec

\* However often sessions are killed and started again, the raw_thought of a step that
\* came with a thought is that thought, unless a session without --resume has taken the
\* step although it had a raw_thought.
THEOREM RawThoughtIsOriginal == Spec => []RawIsOriginal
<1>1. IInv => RawIsOriginal
  <2> SUFFICES ASSUME IInv, NEW t \in Trajs, NEW s \in Steps, file[t].whole,
                      file[t].thought[s] = "new", << t, s >> \notin Bare \cup redone
               PROVE  file[t].raw[s] = "original"
    BY DEF RawIsOriginal
  <2>1. CleanThoughts(t, file[t]) /\ file[t] \in Content
    BY DEF IInv, RawInv, Clean, TypeOK
  <2> QED BY <2>1 DEF CleanThoughts, Content, Thoughts
<1> QED BY <1>1, Invariant, PTL

\* What mobile has written early needs no second write.
THEOREM FlushIsFinal == Spec => []FlushedIsFinal
<1>1. IInv => FlushedIsFinal
  BY DEF IInv, FlushInv, FlushedIsFinal
<1> QED BY <1>1, Invariant, PTL

-----------------------------------------------------------------------------
(* The scripts implement AnnotatedTrajectories.                            *)

FactsMap == [t \in Trajs |-> FactsNow(t)]
Ruined == {t \in Trajs : ~ file[t].whole /\ Underway(t) = {}}

\* The contents of a file, or what will be written to it.
Latest(t) == IF file[t].whole THEN {file[t]} ELSE Underway(t)

\* Every step only adds boxes to what there is.
Grows == \A t \in Trajs : \A d \in Latest(t)' : \E c \in Latest(t) : BoxesKept(c, d)

LEMMA BoxesKeptReflexive == \A c : BoxesKept(c, c)
BY DEF BoxesKept

\* A session is of one sort from its start to its end.
OneSort == ~ Ended /\ ~ Ended' => Session' = Session

LEMMA FixOneSort == ~ Regenerating /\ ~ Regenerating' => OneSort
BY DEF OneSort, Session

LEMMA RegenerateOneSort ==
    ASSUME RegenerateNext
    PROVE  OneSort /\ (Regenerating \/ Ended) /\ (Regenerating' \/ Ended')
<1>1. \/ Ended
      \/ Ended' /\ Regenerating
      \/ Regenerating /\ Regenerating' /\ redoing' = redoing
  BY DEF RegenerateNext, RegenerateStep, StartRegenerate, NewSession, ThoughtAnswered, OpenTask,
         DumpTask, EndFlush, EndRewrite, KillRegenerate, Regenerating, Ended, thoughtVars
<1>2. Ended => Regenerating' \/ Ended'
  BY DEF RegenerateNext, RegenerateStep, StartRegenerate, NewSession, ThoughtAnswered, OpenTask,
         DumpTask, EndFlush, EndRewrite, KillRegenerate, Regenerating, Ended, thoughtVars
<1> QED BY <1>1, <1>2 DEF OneSort, Session

Refines == [Annotated!Next]_(Annotated!vars) /\ Grows

\* A step that changes neither is the start or the end of a session, or none at all.
LEMMA AbstractQuiet ==
    ASSUME FactsMap' = FactsMap, Ruined' = Ruined, OneSort
    PROVE  [Annotated!Next]_(Annotated!vars)
<1>1. CASE Session' = Session
  BY <1>1 DEF Annotated!vars, FactsMap, Ruined
<1>2. CASE Ended /\ ~ Ended'
  <2>1. Session = "none" /\ Session' \in {"adding", "replacing"}
    BY <1>2 DEF Session
  <2> QED BY <2>1 DEF Annotated!Next, Annotated!Start, Annotated!Running, FactsMap, Ruined
<1>3. CASE ~ Ended /\ Ended'
  <2>1. Session \in {"adding", "replacing"} /\ Session' = "none"
    BY <1>3 DEF Session
  <2> QED BY <2>1 DEF Annotated!Next, Annotated!End, Annotated!Running, FactsMap, Ruined
<1>4. Ended /\ Ended' => Session' = Session
  BY DEF Session
<1> QED BY <1>1, <1>2, <1>3, <1>4 DEF OneSort

LEMMA AbstractAnnotate ==
    ASSUME NEW t \in Trajs, ~ Ended, ~ Ended', OneSort, t \notin Ruined, Ruined' = Ruined,
           IF Session = "replacing" THEN FactsMap[t] \ RawFacts \subseteq FactsMap'[t]
           ELSE FactsMap[t] \subseteq FactsMap'[t],
           FactsMap'[t] \subseteq Facts,
           \A u \in Trajs : u # t => FactsMap'[u] = FactsMap[u]
    PROVE  [Annotated!Next]_(Annotated!vars)
<1>1. FactsMap' = [FactsMap EXCEPT ![t] = FactsMap'[t]]
  BY DEF FactsMap
<1>3. Session' = Session /\ Session \in {"adding", "replacing"}
  BY DEF OneSort, Session
<1>4. Annotated!Kept(FactsMap[t]) \subseteq FactsMap'[t]
  BY DEF Annotated!Kept, RawFacts
<1>2. Annotated!Annotate(t)
  BY <1>1, <1>3, <1>4 DEF Annotated!Annotate, Annotated!Running, FactsMap, Ruined
<1> QED BY <1>2 DEF Annotated!Next

LEMMA AbstractKill ==
    ASSUME ~ Ended, Ended', file' = file, \A t \in Trajs : Underway(t)' = {}
    PROVE  Refines
<1>. PICK R \in SUBSET Trajs : R = {t \in Trajs : ~ file[t].whole}
  OBVIOUS
<1>1. Ruined' = Ruined \cup R
  BY DEF Ruined
<1>2. FactsMap' = [t \in Trajs |-> IF t \in R THEN {} ELSE FactsMap[t]]
  <2>1. ASSUME NEW t \in Trajs, t \in R PROVE FactsNow(t)' = {}
    BY <2>1 DEF FactsNow
  <2>2. ASSUME NEW t \in Trajs, t \notin R PROVE FactsNow(t)' = FactsNow(t)
    BY <2>2 DEF FactsNow
  <2> QED BY <2>1, <2>2 DEF FactsMap
<1>5. Session \in {"adding", "replacing"} /\ Session' = "none"
  BY DEF Session
<1>3. Annotated!Kill(R)
  BY <1>1, <1>2, <1>5 DEF Annotated!Kill, Annotated!Running, FactsMap, Ruined
<1>4. Grows
  BY BoxesKeptReflexive DEF Grows, Latest
<1> QED BY <1>3, <1>4 DEF Annotated!Next, Refines

\* What is in no file yet changes with the jobs that have opened one.
LEMMA SameUnderway ==
    ASSUME NEW t \in Trajs,
           \A j \in Jobs : j[1] = t => (job'[j] = "truncated" <=> job[j] = "truncated"),
           \A j \in Jobs : j[1] = t /\ job[j] = "truncated" => copy'[j] = copy[j],
           t \in writing <=> t \in writing',
           t \in writing => all_tasks'[t] = all_tasks[t]
    PROVE  Underway(t)' = Underway(t)
<1>1. {i \in Jobs : i[1] = t /\ job'[i] = "truncated"} =
      {i \in Jobs : i[1] = t /\ job[i] = "truncated"}
  OBVIOUS
<1>2. {copy'[j] : j \in {i \in Jobs : i[1] = t /\ job'[i] = "truncated"}} =
      {copy[j] : j \in {i \in Jobs : i[1] = t /\ job[i] = "truncated"}}
  BY <1>1
<1>3. {all_tasks'[u] : u \in writing' \cap {t}} = {all_tasks[u] : u \in writing \cap {t}}
  OBVIOUS
<1> QED BY <1>2, <1>3 DEF Underway

LEMMA SameFacts ==
    ASSUME file' = file, OneSort,
           \A j \in Jobs : job'[j] = "truncated" <=> job[j] = "truncated",
           \A j \in Jobs : job[j] = "truncated" => copy'[j] = copy[j],
           writing' = writing, \A t \in writing : all_tasks'[t] = all_tasks[t]
    PROVE  Refines
<1>1. \A t \in Trajs : Underway(t)' = Underway(t)
  BY SameUnderway
<1>2. Ruined' = Ruined /\ FactsMap' = FactsMap
  BY <1>1 DEF Ruined, FactsMap, FactsNow
<1>3. Grows
  BY <1>1, BoxesKeptReflexive DEF Grows, Latest
<1> QED BY <1>2, <1>3, AbstractQuiet DEF Refines

\* What the session under way keeps of c.
SortKept(c, d) == IF Session = "replacing" THEN BoxesKept(c, d) ELSE Kept(c, d)

\* One file is opened, or written and closed.
LEMMA OneFile ==
    ASSUME file \in [Trajs -> Content], NEW t \in Trajs, NEW c, ~ Ended, ~ Ended', OneSort,
           \A u \in Trajs : u # t => file'[u] = file[u] /\ Underway(u)' = Underway(u),
           \/ /\ file[t].whole /\ SortKept(file[t], c)
              /\ ~ file'[t].whole /\ Underway(t)' = {c}
           \/ /\ ~ file[t].whole /\ Underway(t) = {c}
              /\ file'[t] = c /\ c.whole
    PROVE  Refines
<1>1. \A u \in Trajs : u # t => FactsMap'[u] = FactsMap[u]
  BY DEF FactsMap, FactsNow
<1>2. Ruined' = Ruined /\ t \notin Ruined
  BY DEF Ruined
<1>3. /\ FactsMap'[t] = FactsOf(t, c)
      /\ IF Session = "replacing" THEN FactsMap[t] \ RawFacts \subseteq FactsOf(t, c)
         ELSE FactsMap[t] \subseteq FactsOf(t, c)
  <2>1. UNION {FactsOf(t, d) : d \in {c}} = FactsOf(t, c)
    OBVIOUS
  <2>2. CASE /\ file[t].whole /\ SortKept(file[t], c)
             /\ ~ file'[t].whole /\ Underway(t)' = {c}
    <3>1. FactsMap[t] = FactsOf(t, file[t])
      BY <2>2 DEF FactsMap, FactsNow
    <3>2. FactsMap'[t] = FactsOf(t, c)
      BY <2>1, <2>2 DEF FactsMap, FactsNow
    <3>3. CASE Session = "replacing"
      BY <2>2, <3>1, <3>2, <3>3, BoxFactsGrow DEF SortKept
    <3>4. CASE Session # "replacing"
      BY <2>2, <3>1, <3>2, <3>4, FactsGrow DEF SortKept
    <3> QED BY <3>3, <3>4
  <2>3. CASE /\ ~ file[t].whole /\ Underway(t) = {c}
             /\ file'[t] = c /\ c.whole
    BY <2>1, <2>3 DEF FactsMap, FactsNow
  <2> QED BY <2>2, <2>3
<1>4. Grows
  <2>1. SortKept(file[t], c) => BoxesKept(file[t], c)
    BY KeptBoxes DEF SortKept
  <2> QED BY <2>1, BoxesKeptReflexive DEF Grows, Latest
<1>5. FactsMap'[t] \subseteq Facts
  BY <1>3, FactsType
<1> QED BY <1>1, <1>2, <1>3, <1>4, <1>5, AbstractAnnotate DEF Refines

\* The jobs of phase A and B.
LEMMA JobRefines ==
    ASSUME TypeOK, JobsInv, ThoughtInv, ~ Regenerating, OneSort, UNCHANGED thoughtVars,
           \/ \E t \in Trajs : BeginJob(t)
           \/ \E t \in Trajs, s \in Steps : StepAnswered(t, s)
           \/ \E j \in Jobs : OpenTaskJson(j) \/ DumpTaskJson(j)
           \/ \E j \in StepJobs : BeginRetry(j) \/ RetryAnswered(j) \/ ApplyResult(j)
    PROVE  Refines
<1> USE JobsFacts
<1>1. WorkTypes /\ writing = {} /\ writing' = {}
  BY TypeParts DEF ThoughtInv, thoughtVars
<1>2. ASSUME file' = file, NEW j \in Jobs, job[j] # "truncated", job'[j] # "truncated",
             \A i \in Jobs : i # j => job'[i] = job[i] /\ copy'[i] = copy[i]
      PROVE  Refines
  <2>1. \A i \in Jobs : /\ job'[i] = "truncated" <=> job[i] = "truncated"
                        /\ job[i] = "truncated" => copy'[i] = copy[i]
    BY <1>2
  <2> QED BY <1>1, <1>2, <2>1, SameFacts
<1>3. ASSUME NEW t \in Trajs, BeginJob(t) PROVE Refines
  <2>1. /\ file' = file /\ job[TrajJob(t)] = "queued" /\ job'[TrajJob(t)] # "truncated"
        /\ \A i \in Jobs : i # TrajJob(t) => job'[i] = job[i] /\ copy'[i] = copy[i]
    BY <1>1, <1>3 DEF BeginJob, AfterAnswers, WorkTypes
  <2> QED BY <1>2, <2>1
<1>4. ASSUME NEW t \in Trajs, NEW s \in Steps, StepAnswered(t, s)
      PROVE  Refines
  <2>1. /\ file' = file /\ job[TrajJob(t)] = "asking" /\ job'[TrajJob(t)] # "truncated"
        /\ \A i \in Jobs : i # TrajJob(t) => job'[i] = job[i] /\ copy'[i] = copy[i]
    BY <1>1, <1>4 DEF StepAnswered, AfterAnswers, WorkTypes
  <2> QED BY <1>2, <2>1
<1>5. ASSUME NEW j \in StepJobs, BeginRetry(j) \/ RetryAnswered(j) \/ ApplyResult(j)
      PROVE  Refines
  <2>1. /\ file' = file /\ job[j] \in {"queued", "asking", "answered"}
        /\ job'[j] # "truncated"
        /\ \A i \in Jobs : i # j => job'[i] = job[i] /\ copy'[i] = copy[i]
    BY <1>1, <1>5 DEF BeginRetry, RetryAnswered, ApplyResult, ReadForResult, WorkTypes
  <2> QED BY <1>2, <2>1
<1>6. ASSUME NEW j \in Jobs, job[j] # "none", phase' = phase PROVE ~ Ended /\ ~ Ended'
  BY <1>6 DEF JobsInv, PhaseInv, Generating, Ended
<1>7. ASSUME NEW j \in Jobs, OpenTaskJson(j) PROVE Refines
  <2>. PICK t \in Trajs : t = j[1]
    OBVIOUS
  <2>. PICK c : c = copy[j]
    OBVIOUS
  <2>1. /\ job[j] = "loaded" /\ copy' = copy /\ phase' = phase
        /\ \A u \in Trajs : file'[u] = IF u = t THEN Torn ELSE file[u]
        /\ \A i \in Jobs : job'[i] = IF i = j THEN "truncated" ELSE job[i]
    BY <1>1, <1>7 DEF OpenTaskJson, MainUnchanged, WorkTypes
  <2>2. file[t].whole /\ SortKept(file[t], c)
    BY <2>1 DEF JobsInv, CopyInv, Held, SortKept, Session
  <2>3. \A i \in Jobs : i[1] = t /\ job'[i] = "truncated" <=> i = j
    BY <2>1 DEF JobsInv, LockInv, Held
  <2>4. Underway(t)' = {c}
    BY <1>1, <2>1, <2>3 DEF Underway
  <2>5. \A u \in Trajs : u # t => file'[u] = file[u] /\ Underway(u)' = Underway(u)
    BY <1>1, <2>1, SameUnderway
  <2>6. ~ file'[t].whole
    BY <2>1, TornFacts
  <2>7. ~ Ended /\ ~ Ended'
    BY <1>6, <2>1
  <2> QED BY <1>1, <2>2, <2>4, <2>5, <2>6, <2>7, OneFile DEF WorkTypes
<1>8. ASSUME NEW j \in Jobs, DumpTaskJson(j) PROVE Refines
  <2>. PICK t \in Trajs : t = j[1]
    OBVIOUS
  <2>. PICK c : c = copy[j]
    OBVIOUS
  <2>1. /\ job[j] = "truncated" /\ phase' = phase
        /\ \A i \in Jobs : i # j => job'[i] = job[i] /\ copy'[i] = copy[i]
        /\ job'[j] # "truncated"
        /\ \A u \in Trajs : file'[u] = IF u = t THEN c ELSE file[u]
    BY <1>1, <1>8 DEF DumpTaskJson, MainUnchanged, WorkTypes
  <2>2. ~ file[t].whole /\ c.whole
    BY <2>1 DEF JobsInv, CopyInv
  <2>3. \A i \in Jobs : i[1] = t /\ job[i] = "truncated" <=> i = j
    BY <2>1 DEF JobsInv, LockInv, Held
  <2>4. Underway(t) = {c}
    BY <1>1, <2>3 DEF Underway
  <2>5. \A u \in Trajs : u # t => file'[u] = file[u] /\ Underway(u)' = Underway(u)
    BY <1>1, <2>1, SameUnderway
  <2>6. ~ Ended /\ ~ Ended'
    BY <1>6, <2>1
  <2> QED BY <1>1, <2>1, <2>2, <2>4, <2>5, <2>6, OneFile DEF WorkTypes
<1> QED BY <1>3, <1>4, <1>5, <1>7, <1>8

\* The main thread opens no file; a kill is a kill.
LEMMA MainThreadRefines ==
    ASSUME TypeOK, JobsInv, ThoughtInv, ~ Regenerating, OneSort, UNCHANGED thoughtVars,
           \/ \E resume \in BOOLEAN : StartFix(resume)
           \/ \E t \in Trajs : NoteResult(t)
           \/ OpenProgress \/ CloseGenerate \/ DumpProgress \/ StartRetry \/ FinishRetry
           \/ InterruptGenerate \/ InterruptRetry \/ KillFix
    PROVE  Refines
<1>1. WorkTypes /\ writing = {} /\ writing' = {}
  BY TypeParts DEF ThoughtInv, thoughtVars
<1>2. ASSUME file' = file, \A j \in Jobs : job'[j] = "truncated" <=> job[j] = "truncated",
             \A j \in Jobs : job[j] = "truncated" => copy'[j] = copy[j]
      PROVE  Refines
  BY <1>1, <1>2, SameFacts
<1>3. ASSUME NEW resume \in BOOLEAN, StartFix(resume)
      PROVE  Refines
  <2>1. \A j \in Jobs : job[j] = "none"
    BY <1>3, Quiet DEF StartFix, NewSession, JobsInv
  <2> QED BY <1>2, <1>3, <2>1 DEF StartFix
<1>4. ASSUME NEW t \in Trajs, NoteResult(t) PROVE Refines
  <2>1. /\ file' = file /\ job[TrajJob(t)] = "returned" /\ job'[TrajJob(t)] = "none"
        /\ \A i \in Jobs : i # TrajJob(t) => job'[i] = job[i] /\ copy'[i] = copy[i]
    BY <1>1, <1>4, JobsFacts DEF NoteResult, WorkTypes
  <2> QED BY <1>2, <2>1
<1>5. CASE OpenProgress \/ CloseGenerate \/ DumpProgress
  BY <1>2, <1>5 DEF OpenProgress, CloseGenerate, DumpProgress
<1>6. CASE StartRetry
  <2>1. \A j \in Jobs : job[j] = "none"
    BY <1>6, Quiet DEF StartRetry, JobsInv
  <2> QED BY <1>2, <1>6, <2>1 DEF StartRetry
<1>7. CASE FinishRetry \/ InterruptGenerate \/ InterruptRetry
  BY <1>2, <1>7 DEF FinishRetry, InterruptGenerate, InterruptRetry, fixVars
<1>8. CASE KillFix
  <2>1. /\ ~ Ended /\ Ended' /\ file' = file /\ \A j \in Jobs : job'[j] = "none"
    BY <1>8 DEF KillFix, Fixing, Generating, Ended
  <2>2. \A t \in Trajs : Underway(t)' = {}
    BY <1>1, <2>1 DEF Underway
  <2> QED BY <2>1, <2>2, AbstractKill
<1> QED BY <1>3, <1>4, <1>5, <1>6, <1>7, <1>8

LEMMA RegenerateRefines ==
    ASSUME TypeOK, JobsInv, ThoughtInv, FlushInv, RegenerateNext, UNCHANGED fixVars
    PROVE  Refines
<1>1. WorkTypes /\ ThoughtTypes /\ job' = job
  BY TypeParts DEF fixVars
<1>2. \A j \in Jobs : job[j] = "none"
  <2>1. Ended \/ Regenerating
    BY DEF RegenerateNext, RegenerateStep, StartRegenerate, NewSession, ThoughtAnswered,
           OpenTask, DumpTask, EndFlush, EndRewrite, KillRegenerate, Regenerating
  <2> QED BY <2>1, Quiet DEF JobsInv
<1>3. \A t \in Trajs : /\ Underway(t) = {all_tasks[u] : u \in writing \cap {t}}
                       /\ Underway(t)' = {all_tasks'[u] : u \in writing' \cap {t}}
  BY <1>1, <1>2 DEF Underway
<1>4. ASSUME file' = file, writing' = writing, \A t \in writing : all_tasks'[t] = all_tasks[t]
      PROVE  Refines
  BY <1>1, <1>2, <1>4, RegenerateOneSort, SameFacts
<1>5. ASSUME NEW resume \in BOOLEAN, StartRegenerate(resume) PROVE Refines
  <2>1. writing = {} /\ writing' = {} /\ file' = file
    BY <1>5 DEF StartRegenerate, NewSession, Ended, ThoughtInv, Regenerating
  <2> QED BY <1>4, <2>1
<1>6. ASSUME NEW t \in Trajs, NEW s \in Steps, ThoughtAnswered(t, s)
      PROVE  Refines
  <2>1. /\ Regenerating /\ s \in traj_pending[t] /\ file' = file /\ writing' = writing
        /\ \E c : all_tasks' = [all_tasks EXCEPT ![t] = c]
    BY <1>6 DEF ThoughtAnswered, Regenerating
  <2>2. \A u \in writing : u \in Trajs /\ u # t
    BY <1>1, <1>6, <2>1 DEF FlushInv, ThoughtTypes
  <2>3. \A u \in writing : all_tasks'[u] = all_tasks[u]
    BY <1>1, <2>1, <2>2 DEF ThoughtTypes
  <2> QED BY <1>4, <2>1, <2>3
<1>7. ASSUME NEW t \in Trajs, OpenTask(t) PROVE Refines
  <2>. PICK c : c = all_tasks[t]
    OBVIOUS
  <2>1. /\ ~ Ended /\ ~ Ended' /\ Regenerating /\ writing = {} /\ writing' = {t}
        /\ all_tasks' = all_tasks
        /\ \A u \in Trajs : file'[u] = IF u = t THEN Torn ELSE file[u]
    BY <1>1, <1>7 DEF OpenTask, Regenerating, Ended, WorkTypes
  <2>2. file[t].whole /\ SortKept(file[t], c) /\ ~ file'[t].whole
    BY <2>1, TornFacts DEF ThoughtInv, KeptBySession, SortKept, Session
  <2>3. Underway(t)' = {c}
    BY <1>3, <2>1
  <2>4. \A u \in Trajs : u # t => file'[u] = file[u] /\ Underway(u)' = Underway(u)
    BY <1>3, <2>1
  <2> QED BY <1>1, <2>1, <2>2, <2>3, <2>4, RegenerateOneSort, OneFile DEF WorkTypes
<1>8. ASSUME NEW t \in Trajs, DumpTask(t) PROVE Refines
  <2>. PICK c : c = all_tasks[t]
    OBVIOUS
  <2>1. /\ ~ Ended /\ ~ Ended' /\ Regenerating /\ t \in writing /\ writing' = {}
        /\ all_tasks' = all_tasks
        /\ \A u \in Trajs : file'[u] = IF u = t THEN c ELSE file[u]
    BY <1>1, <1>8 DEF DumpTask, Regenerating, Ended, WorkTypes
  <2>2. ~ file[t].whole /\ c.whole /\ \A u \in writing : u = t
    BY <2>1 DEF ThoughtInv
  <2>3. Underway(t) = {c}
    BY <1>3, <2>1
  <2>4. \A u \in Trajs : u # t => file'[u] = file[u] /\ Underway(u)' = Underway(u)
    BY <1>3, <2>1, <2>2
  <2> QED BY <1>1, <2>1, <2>2, <2>3, <2>4, RegenerateOneSort, OneFile DEF WorkTypes
<1>9. CASE EndFlush \/ EndRewrite
  BY <1>4, <1>9 DEF EndFlush, EndRewrite, thoughtVars
<1>10. CASE KillRegenerate
  <2>1. ~ Ended /\ Ended' /\ file' = file /\ writing' = {}
    BY <1>10 DEF KillRegenerate, Regenerating, Ended
  <2>2. \A t \in Trajs : Underway(t)' = {}
    BY <1>3, <2>1
  <2> QED BY <2>1, <2>2, AbstractKill
<1> QED BY <1>5, <1>6, <1>7, <1>8, <1>9, <1>10 DEF RegenerateNext, RegenerateStep

LEMMA StepRefines == IInv /\ [Next]_vars => Refines
<1> SUFFICES ASSUME TypeOK, JobsInv, ThoughtInv, FlushInv, [Next]_vars
             PROVE  Refines
  BY DEF IInv
<1>1. CASE RegenerateNext /\ UNCHANGED fixVars
  BY <1>1, RegenerateRefines
<1>2. ASSUME UNCHANGED thoughtVars,
             \/ \E t \in Trajs : BeginJob(t)
             \/ \E t \in Trajs, s \in Steps : StepAnswered(t, s)
             \/ \E j \in Jobs : OpenTaskJson(j) \/ DumpTaskJson(j)
             \/ \E j \in StepJobs : BeginRetry(j) \/ RetryAnswered(j) \/ ApplyResult(j)
      PROVE  Refines
  <2>1. ~ Regenerating /\ OneSort
    BY <1>2, FixPhases, FixOneSort DEF JobsInv
  <2> QED BY <1>2, <2>1, JobRefines
<1>3. ASSUME UNCHANGED thoughtVars,
             \/ \E resume \in BOOLEAN : StartFix(resume)
             \/ \E t \in Trajs : NoteResult(t)
             \/ OpenProgress \/ CloseGenerate \/ DumpProgress \/ StartRetry \/ FinishRetry
             \/ InterruptGenerate \/ InterruptRetry \/ KillFix
      PROVE  Refines
  <2>1. ~ Regenerating /\ OneSort
    BY <1>3, FixPhases, FixOneSort DEF JobsInv
  <2> QED BY <1>3, <2>1, MainThreadRefines
<1>4. CASE UNCHANGED vars
  BY <1>4, SameFacts
     DEF vars, fileVars, fixVars, thoughtVars, OneSort, Session, Ended, Regenerating
<1> QED BY <1>1, <1>2, <1>3, <1>4, Steps3

\* No box is lost by a rewrite, and no original thought but in a session of
\* regenerate_thought.py without --resume, for any number of trajectories, steps, threads
\* and sessions; only a kill leaves a file that cannot be read.
THEOREM TrajectoriesAnnotated == Spec => ImplementsAnnotated
<1>1. Init => Annotated!Init
  <2> SUFFICES ASSUME Init PROVE Annotated!Init
    OBVIOUS
  <2>1. \A t \in Trajs : file[t] \in FirstContents(platform, t)
    BY DEF Init, FilesInit
  <2>2. \A t \in Trajs : file[t].whole
    BY <2>1 DEF FirstContents
  <2>3. Ruined = {} /\ FactsMap \in [Trajs -> SUBSET Facts]
    BY <2>2, FactsType DEF Ruined, FactsMap, FactsNow
  <2>4. Ended
    BY DEF Init, FilesInit, Ended
  <2> QED BY <2>3, <2>4 DEF Annotated!Init, Ruined, FactsMap, Session
<1>2. IInv /\ [Next]_vars => [Annotated!Next]_(Annotated!vars)
  BY StepRefines DEF Refines
<1> QED BY <1>1, <1>2, Invariant, PTL DEF Spec, ImplementsAnnotated, Annotated!Spec

-----------------------------------------------------------------------------
(* What the progress file and the end of a session stand for.              *)

Unasked(t, c) == {s \in Missing(t, c) : << t, s >> \notin asked}
Earned(t) == \A c \in Latest(t) : Unasked(t, c) = {}

\* What a job of phase A on the computer has still to ask for, is being asked for.
AskingInv(t) ==
    /\ job[TrajJob(t)] = "returned" => Earned(t)
    /\ job[TrajJob(t)] = "asking" =>
          Unasked(t, copy[TrajJob(t)]) \subseteq asking[TrajJob(t)]
    /\ job[TrajJob(t)] \in {"loaded", "truncated"} => Unasked(t, copy[TrajJob(t)]) = {}

EarnedInv ==
    platform = "computer" =>
        /\ \A t \in progress.ids \cup done_ids : Earned(t)
        /\ \A t \in Trajs : AskingInv(t)

Waiting == {"queued", "asking"}

\* What a session has not asked for yet has a job: on the computer one of phase A, on
\* mobile one of phase B.
LeftInv ==
    /\ phase = "interrupted" => interrupted
    /\ ~ interrupted /\ platform = "computer" /\ (Fixing \/ phase = "fixed") =>
          \A t \in Trajs : Earned(t) \/ job[TrajJob(t)] # "none"
    /\ ~ interrupted /\ platform = "mobile" /\ phase \in {"retry", "fixed"} =>
          \A t \in Trajs : \A c \in Latest(t) : \A s \in Unasked(t, c) :
             job[<< t, s >>] \in Waiting
    /\ \A j \in StepJobs :
          platform = "mobile" /\ job[j] \in {"answered", "loaded", "truncated"} => j \in asked

\* What is added to a file is not missing afterwards.
LEMMA MissingShrinks ==
    ASSUME NEW t \in Trajs, NEW c \in Content, NEW d, BoxesKept(c, d), platform' = platform
    PROVE  Missing(t, d)' \subseteq Missing(t, c)
BY DEF Missing, BoxesKept, Content, Boxes

LEMMA LatestType == TypeOK => \A t \in Trajs : Latest(t) \subseteq Content
BY DEF TypeOK, Latest, Underway

LEMMA UnaskedShrinks ==
    ASSUME TypeOK, Grows, platform' = platform, asked \subseteq asked',
           NEW t \in Trajs, NEW d \in Latest(t)'
    PROVE  \E c \in Latest(t) : Unasked(t, d)' \subseteq Unasked(t, c)
<1>1. PICK c \in Latest(t) : BoxesKept(c, d)
  BY DEF Grows
<1>2. Missing(t, d)' \subseteq Missing(t, c)
  BY <1>1, LatestType, MissingShrinks
<1> QED BY <1>1, <1>2 DEF Unasked

LEMMA EarnedStays ==
    ASSUME TypeOK, Grows, platform' = platform, asked \subseteq asked',
           NEW t \in Trajs, Earned(t)
    PROVE  Earned(t)'
<1> SUFFICES ASSUME NEW d \in Latest(t)' PROVE Unasked(t, d)' = {}
  BY DEF Earned
<1>1. PICK c \in Latest(t) : Unasked(t, d)' \subseteq Unasked(t, c)
  BY UnaskedShrinks
<1> QED BY <1>1 DEF Earned

\* On mobile what is asked for goes on being asked for, or is answered.
LEMMA LeftStays ==
    ASSUME TypeOK, Grows, platform' = platform, asked \subseteq asked',
           \A t \in Trajs : \A c \in Latest(t) : \A s \in Unasked(t, c) :
              job[<< t, s >>] \in Waiting,
           \A j \in StepJobs : job[j] \in Waiting => job'[j] \in Waiting \/ j \in asked'
    PROVE  \A t \in Trajs : \A c \in Latest(t)' : \A s \in Unasked(t, c)' :
              job'[<< t, s >>] \in Waiting
<1> SUFFICES ASSUME NEW t \in Trajs, NEW d \in Latest(t)', NEW s \in Unasked(t, d)'
             PROVE  job'[<< t, s >>] \in Waiting
  OBVIOUS
<1>1. PICK c \in Latest(t) : Unasked(t, d)' \subseteq Unasked(t, c)
  BY UnaskedShrinks
<1>2. << t, s >> \in StepJobs /\ job[<< t, s >>] \in Waiting /\ << t, s >> \notin asked'
  BY <1>1 DEF Unasked, Missing, StepJobs
<1> QED BY <1>2

\* What is known about the progress file goes on being true of it.
LEMMA EarnedStep ==
    ASSUME TypeOK, Grows, EarnedInv, platform' = platform,
           platform = "computer", asked \subseteq asked',
           \A t \in progress'.ids \cup done_ids' :
              \/ t \in progress.ids \cup done_ids
              \/ t \in Trajs /\ job[TrajJob(t)] = "returned",
           \A t \in Trajs :
              \/ /\ job'[TrajJob(t)] = job[TrajJob(t)]
                 /\ copy'[TrajJob(t)] = copy[TrajJob(t)]
                 /\ asking'[TrajJob(t)] = asking[TrajJob(t)]
              \/ job'[TrajJob(t)] \in {"none", "queued"}
              \/ AskingInv(t)'
    PROVE  EarnedInv'
<1>1. ASSUME NEW t \in progress'.ids \cup done_ids' PROVE Earned(t)'
  <2>1. t \in Trajs /\ Earned(t)
    BY <1>1 DEF EarnedInv, AskingInv, TypeOK
  <2> QED BY <2>1, EarnedStays
<1>2. ASSUME NEW t \in Trajs PROVE AskingInv(t)'
  <2>1. CASE /\ job'[TrajJob(t)] = job[TrajJob(t)]
             /\ copy'[TrajJob(t)] = copy[TrajJob(t)]
             /\ asking'[TrajJob(t)] = asking[TrajJob(t)]
    <3>1. AskingInv(t)
      BY DEF EarnedInv
    <3>2. Unasked(t, copy[TrajJob(t)])' \subseteq Unasked(t, copy[TrajJob(t)])
      BY <2>1 DEF Unasked, Missing
    <3>3. Earned(t) => Earned(t)'
      BY EarnedStays
    <3> QED BY <2>1, <3>1, <3>2, <3>3 DEF AskingInv
  <2>2. CASE job'[TrajJob(t)] \in {"none", "queued"}
    BY <2>2 DEF AskingInv
  <2> QED BY <1>2, <2>1, <2>2
<1> QED BY <1>1, <1>2 DEF EarnedInv

\* One job moves.
LEMMA OneAsks ==
    ASSUME TypeOK, JobsInv, Grows, EarnedInv, LeftInv, MainUnchanged, asked \subseteq asked',
           NEW j \in Jobs, job[j] # "none",
           \A i \in Jobs : i # j => /\ job'[i] = job[i] /\ copy'[i] = copy[i]
                                    /\ asking'[i] = asking[i],
           j \in TrajJobs => /\ job'[j] # "none"
                             /\ platform = "computer" => AskingInv(j[1])',
           j \in StepJobs /\ platform = "mobile" =>
              /\ job[j] \in Waiting => job'[j] \in Waiting \/ j \in asked'
              /\ job'[j] \in {"answered", "loaded", "truncated"} => j \in asked'
    PROVE  EarnedInv' /\ LeftInv'
<1> USE JobsFacts
<1>1. /\ platform' = platform /\ phase' = phase /\ interrupted' = interrupted
      /\ progress' = progress /\ done_ids' = done_ids
  BY DEF MainUnchanged
<1>2. EarnedInv'
  <2> SUFFICES ASSUME platform = "computer" PROVE EarnedInv'
    BY <1>1 DEF EarnedInv
  <2>1. \A t \in Trajs :
           \/ /\ job'[TrajJob(t)] = job[TrajJob(t)]
              /\ copy'[TrajJob(t)] = copy[TrajJob(t)]
              /\ asking'[TrajJob(t)] = asking[TrajJob(t)]
           \/ job'[TrajJob(t)] \in {"none", "queued"}
           \/ AskingInv(t)'
    <3> SUFFICES ASSUME NEW t \in Trajs, j # TrajJob(t) \/ j = TrajJob(t)
                 PROVE  \/ /\ job'[TrajJob(t)] = job[TrajJob(t)]
                           /\ copy'[TrajJob(t)] = copy[TrajJob(t)]
                           /\ asking'[TrajJob(t)] = asking[TrajJob(t)]
                        \/ AskingInv(t)'
      OBVIOUS
    <3>1. CASE j # TrajJob(t)
      BY <3>1
    <3>2. CASE j = TrajJob(t)
      BY <3>2
    <3> QED BY <3>1, <3>2
  <2>2. \A t \in progress'.ids \cup done_ids' :
           \/ t \in progress.ids \cup done_ids
           \/ t \in Trajs /\ job[TrajJob(t)] = "returned"
    BY <1>1
  <2>3. platform' = platform
    BY <1>1
  <2> QED BY <2>1, <2>2, <2>3, EarnedStep
<1>3. ASSUME ~ interrupted, platform = "computer", Fixing \/ phase = "fixed"
      PROVE  \A t \in Trajs : Earned(t)' \/ job'[TrajJob(t)] # "none"
  <2>1. \A t \in Trajs : Earned(t) \/ job[TrajJob(t)] # "none"
    BY <1>3 DEF LeftInv
  <2>2. \A t \in Trajs : Earned(t) => Earned(t)'
    BY <1>1, EarnedStays
  <2>3. \A t \in Trajs : job[TrajJob(t)] # "none" => job'[TrajJob(t)] # "none"
    OBVIOUS
  <2> QED BY <2>1, <2>2, <2>3
<1>4. ASSUME ~ interrupted, platform = "mobile", phase \in {"retry", "fixed"}
      PROVE  \A t \in Trajs : \A c \in Latest(t)' : \A s \in Unasked(t, c)' :
                job'[<< t, s >>] \in Waiting
  <2>1. \A i \in StepJobs : job[i] \in Waiting => job'[i] \in Waiting \/ i \in asked'
    BY <1>4
  <2>2. \A t \in Trajs : \A c \in Latest(t) : \A s \in Unasked(t, c) :
           job[<< t, s >>] \in Waiting
    BY <1>4 DEF LeftInv
  <2> QED BY <1>1, <2>1, <2>2, LeftStays
<1>5. \A i \in StepJobs :
         platform = "mobile" /\ job'[i] \in {"answered", "loaded", "truncated"} => i \in asked'
  BY DEF LeftInv
<1>6. (Fixing \/ phase = "fixed") <=> (Fixing \/ phase = "fixed")'
  BY <1>1 DEF Fixing, Generating
<1> QED BY <1>1, <1>2, <1>3, <1>4, <1>5, <1>6 DEF LeftInv

LEMMA AskedJobs ==
    ASSUME TypeOK, JobsInv, Grows, EarnedInv, LeftInv,
           \/ \E t \in Trajs : BeginJob(t)
           \/ \E t \in Trajs, s \in Steps : StepAnswered(t, s)
           \/ \E j \in Jobs : OpenTaskJson(j) \/ DumpTaskJson(j)
           \/ \E j \in StepJobs : BeginRetry(j) \/ RetryAnswered(j) \/ ApplyResult(j)
    PROVE  EarnedInv' /\ LeftInv'
<1> USE JobsFacts
<1>1. WorkTypes
  BY TypeParts
<1>2. ASSUME NEW t \in Trajs, BeginJob(t) PROVE EarnedInv' /\ LeftInv'
  <2>. PICK j \in TrajJobs : j = TrajJob(t)
    OBVIOUS
  <2>. PICK c : c = Converted(t, file[t])
    OBVIOUS
  <2>1. /\ MainUnchanged /\ asked' = asked /\ file' = file /\ job[j] = "queued"
        /\ j \in Jobs /\ j \notin StepJobs /\ j[1] = t /\ platform' = platform
        /\ \A i \in Jobs : i # j => /\ job'[i] = job[i] /\ copy'[i] = copy[i]
                                    /\ asking'[i] = asking[i]
        /\ copy'[j] = c /\ asking'[j] = ToAsk(t, file[t])
        /\ job'[j] = IF ToAsk(t, file[t]) = {} THEN AfterAnswers(t, c) ELSE "asking"
    BY <1>1, <1>2 DEF BeginJob, WorkTypes, MainUnchanged
  <2>2. file[t].whole /\ file[t] \in Content
    BY <1>1, <2>1 DEF JobsInv, CopyInv, WorkTypes
  <2>3. job'[j] \in {"asking", "loaded", "returned"}
    BY <2>1 DEF AfterAnswers
  <2>4. platform = "computer" => AskingInv(t)'
    <3> SUFFICES ASSUME platform = "computer" PROVE AskingInv(t)'
      OBVIOUS
    <3>1. Missing(t, c)' \subseteq ToAsk(t, file[t])
      BY <2>1, <2>2 DEF Missing, ToAsk, Converted, Content
    <3>2. Unasked(t, c)' \subseteq ToAsk(t, file[t])
      BY <3>1 DEF Unasked
    <3>3. job'[j] = "returned" => Latest(t)' = {c} /\ Unasked(t, c)' = {}
      BY <2>1, <2>2, <3>2 DEF Latest, AfterAnswers
    <3>4. job'[j] \in {"loaded", "truncated"} => Unasked(t, c)' = {}
      BY <2>1, <2>3, <3>2
    <3>5. job'[j] = "returned" => Earned(t)'
      BY <3>3 DEF Earned
    <3>6. Unasked(t, copy[TrajJob(t)])' = Unasked(t, c)'
      BY <2>1 DEF Unasked, Missing
    <3> QED BY <2>1, <3>2, <3>4, <3>5, <3>6 DEF AskingInv
  <2> QED BY <2>1, <2>3, <2>4, OneAsks
<1>3. ASSUME NEW t \in Trajs, NEW s \in Steps, StepAnswered(t, s) PROVE EarnedInv' /\ LeftInv'
  <2>. PICK j \in TrajJobs : j = TrajJob(t)
    OBVIOUS
  <2>1. PICK c \in {copy[j], Boxed(copy[j], s)} :
           /\ copy' = [copy EXCEPT ![j] = c]
           /\ job' = [job EXCEPT ![j] = IF asking[j] = {s} THEN AfterAnswers(t, c) ELSE @]
    BY <1>3 DEF StepAnswered
  <2>2. /\ MainUnchanged /\ file' = file /\ job[j] = "asking" /\ s \in asking[j]
        /\ j \in Jobs /\ j \notin StepJobs /\ j[1] = t /\ platform' = platform
        /\ asked' = asked \cup {<< t, s >>}
        /\ \A i \in Jobs : i # j => /\ job'[i] = job[i] /\ copy'[i] = copy[i]
                                    /\ asking'[i] = asking[i]
        /\ copy'[j] = c /\ asking'[j] = asking[j] \ {s}
        /\ job'[j] = IF asking[j] = {s} THEN AfterAnswers(t, c) ELSE "asking"
    BY <1>1, <1>3, <2>1 DEF StepAnswered, WorkTypes, MainUnchanged
  <2>3. file[t].whole /\ copy[j] \in Content
    BY <1>1, <2>2 DEF JobsInv, CopyInv, Held, WorkTypes
  <2>4. job'[j] \in {"asking", "loaded", "returned"}
    BY <2>2 DEF AfterAnswers
  <2>5. platform = "computer" => AskingInv(t)'
    <3> SUFFICES ASSUME platform = "computer" PROVE AskingInv(t)'
      OBVIOUS
    <3>1. Unasked(t, copy[j]) \subseteq asking[j]
      BY <2>2 DEF EarnedInv, AskingInv
    <3>2. Missing(t, c)' \subseteq Missing(t, copy[j])
      <4>1. BoxesKept(copy[j], c)
        BY <2>3, BoxedFacts, KeptReflexive, KeptBoxes
      <4> QED BY <2>2, <2>3, <4>1, MissingShrinks
    <3>3. Unasked(t, c)' \subseteq asking[j] \ {s}
      BY <2>2, <3>1, <3>2 DEF Unasked
    <3>4. job'[j] # "asking" => Unasked(t, c)' = {}
      BY <2>2, <3>3
    <3>5. job'[j] = "returned" => Latest(t)' = {c}
      BY <2>2, <2>3 DEF Latest, AfterAnswers
    <3>6. job'[j] = "returned" => Earned(t)'
      BY <3>4, <3>5 DEF Earned
    <3>7. Unasked(t, copy[TrajJob(t)])' = Unasked(t, c)'
      BY <2>2 DEF Unasked, Missing
    <3> QED BY <2>2, <3>3, <3>4, <3>6, <3>7 DEF AskingInv
  <2> QED BY <2>2, <2>4, <2>5, OneAsks
<1>4. ASSUME NEW j \in Jobs, OpenTaskJson(j) PROVE EarnedInv' /\ LeftInv'
  <2>1. /\ MainUnchanged /\ asked' = asked /\ platform' = platform /\ job[j] = "loaded"
        /\ \A i \in Jobs : i # j => job'[i] = job[i]
        /\ copy' = copy /\ asking' = asking /\ job'[j] = "truncated"
    BY <1>1, <1>4 DEF OpenTaskJson, WorkTypes, MainUnchanged
  <2>2. j \in TrajJobs /\ platform = "computer" => AskingInv(j[1])'
    <3> SUFFICES ASSUME j \in TrajJobs, platform = "computer" PROVE AskingInv(j[1])'
      OBVIOUS
    <3>1. j = TrajJob(j[1]) /\ j[1] \in Trajs
      OBVIOUS
    <3>2. Unasked(j[1], copy[j]) = {}
      BY <2>1, <3>1 DEF EarnedInv, AskingInv
    <3>3. Unasked(j[1], copy[j])' = {}
      BY <2>1, <3>2 DEF Unasked, Missing
    <3> QED BY <2>1, <3>1, <3>3 DEF AskingInv
  <2>3. j \in StepJobs /\ platform = "mobile" => j \in asked'
    BY <2>1 DEF LeftInv
  <2>4. job[j] \notin Waiting
    BY <2>1 DEF Waiting
  <2> QED BY <2>1, <2>2, <2>3, <2>4, OneAsks
<1>5. ASSUME NEW j \in Jobs, DumpTaskJson(j) PROVE EarnedInv' /\ LeftInv'
  <2>1. /\ MainUnchanged /\ asked' = asked /\ platform' = platform /\ job[j] = "truncated"
        /\ \A i \in Jobs : i # j => job'[i] = job[i] /\ copy'[i] = copy[i]
        /\ asking' = asking /\ job'[j] = IF j \in TrajJobs THEN "returned" ELSE "none"
        /\ copy[j].whole /\ file'[j[1]] = copy[j]
    BY <1>1, <1>5 DEF DumpTaskJson, WorkTypes, MainUnchanged, JobsInv, CopyInv
  <2>2. j \in TrajJobs /\ platform = "computer" => AskingInv(j[1])'
    <3> SUFFICES ASSUME j \in TrajJobs, platform = "computer" PROVE AskingInv(j[1])'
      OBVIOUS
    <3>1. j = TrajJob(j[1]) /\ j[1] \in Trajs /\ job'[j] = "returned"
      BY <2>1
    <3>. PICK c : c = copy[j]
      OBVIOUS
    <3>2. Unasked(j[1], c) = {}
      BY <2>1, <3>1 DEF EarnedInv, AskingInv
    <3>3. Unasked(j[1], c)' = {}
      BY <2>1, <3>2 DEF Unasked, Missing
    <3>4. Latest(j[1])' = {c}
      BY <2>1 DEF Latest
    <3>5. Earned(j[1])'
      BY <3>3, <3>4 DEF Earned
    <3> QED BY <3>1, <3>5 DEF AskingInv
  <2>4. job[j] \notin Waiting
    BY <2>1 DEF Waiting
  <2> QED BY <2>1, <2>2, <2>4, OneAsks
<1>6. ASSUME NEW j \in StepJobs, BeginRetry(j) PROVE EarnedInv' /\ LeftInv'
  <2>1. /\ MainUnchanged /\ asked' = asked /\ job[j] = "queued"
        /\ j \in Jobs /\ j \notin TrajJobs
        /\ \A i \in Jobs : i # j => /\ job'[i] = job[i] /\ copy'[i] = copy[i]
                                    /\ asking'[i] = asking[i]
        /\ platform = "mobile" => job'[j] = "asking"
    BY <1>1, <1>6 DEF BeginRetry, WorkTypes
  <2>2. platform = "mobile" => job'[j] \in Waiting
    BY <2>1 DEF Waiting
  <2> QED BY <2>1, <2>2, OneAsks
<1>7. ASSUME NEW j \in StepJobs, RetryAnswered(j) PROVE EarnedInv' /\ LeftInv'
  <2>1. /\ MainUnchanged /\ asked' = asked \cup {j} /\ job[j] = "asking"
        /\ j \in Jobs /\ j \notin TrajJobs
        /\ \A i \in Jobs : i # j => /\ job'[i] = job[i] /\ copy'[i] = copy[i]
                                    /\ asking'[i] = asking[i]
    BY <1>1, <1>7 DEF RetryAnswered, WorkTypes
  <2> QED BY <2>1, OneAsks
<1>8. ASSUME NEW j \in StepJobs, ApplyResult(j) PROVE EarnedInv' /\ LeftInv'
  <2>1. /\ MainUnchanged /\ asked' = asked /\ job[j] = "answered"
        /\ j \in Jobs /\ j \notin TrajJobs
        /\ \A i \in Jobs : i # j => /\ job'[i] = job[i] /\ copy'[i] = copy[i]
                                    /\ asking'[i] = asking[i]
    BY <1>1, <1>8 DEF ApplyResult, ReadForResult, WorkTypes
  <2>2. platform = "mobile" => j \in asked'
    BY <2>1 DEF LeftInv
  <2>3. job[j] \notin Waiting
    BY <2>1 DEF Waiting
  <2> QED BY <2>1, <2>2, <2>3, OneAsks
<1> QED BY <1>2, <1>3, <1>4, <1>5, <1>6, <1>7, <1>8

\* What has to be known of a step of the main thread.
LEMMA MainAsks ==
    ASSUME TypeOK, Grows, EarnedInv, LeftInv, platform' = platform,
           platform = "computer" => asked' = asked,
           platform = "computer" =>
              \A t \in progress'.ids \cup done_ids' :
                 \/ t \in progress.ids \cup done_ids
                 \/ t \in Trajs /\ job[TrajJob(t)] = "returned",
           \A t \in Trajs :
              \/ /\ job'[TrajJob(t)] = job[TrajJob(t)]
                 /\ copy'[TrajJob(t)] = copy[TrajJob(t)]
                 /\ asking'[TrajJob(t)] = asking[TrajJob(t)]
              \/ job'[TrajJob(t)] \in {"none", "queued"},
           \A j \in StepJobs : \/ job'[j] = job[j] /\ asked' = asked
                               \/ job'[j] \in {"none", "queued"},
           phase' = "interrupted" => interrupted',
           ~ interrupted' /\ platform = "computer" /\ (Fixing' \/ phase' = "fixed") =>
              \A t \in Trajs : Earned(t) \/ job'[TrajJob(t)] # "none",
           ~ interrupted' /\ platform = "mobile" /\ phase' \in {"retry", "fixed"} =>
              \A t \in Trajs : \A c \in Latest(t)' : \A s \in Unasked(t, c)' :
                 job'[<< t, s >>] \in Waiting
    PROVE  EarnedInv' /\ LeftInv'
<1>1. EarnedInv'
  <2>1. CASE platform = "computer"
    <3>1. asked \subseteq asked'
      BY <2>1
    <3>2. \A t \in progress'.ids \cup done_ids' :
             \/ t \in progress.ids \cup done_ids
             \/ t \in Trajs /\ job[TrajJob(t)] = "returned"
      BY <2>1
    <3>3. \A t \in Trajs :
             \/ /\ job'[TrajJob(t)] = job[TrajJob(t)]
                /\ copy'[TrajJob(t)] = copy[TrajJob(t)]
                /\ asking'[TrajJob(t)] = asking[TrajJob(t)]
             \/ job'[TrajJob(t)] \in {"none", "queued"}
             \/ AskingInv(t)'
      OBVIOUS
    <3> QED BY <2>1, <3>1, <3>2, <3>3, EarnedStep
  <2>2. CASE platform # "computer"
    BY <2>2 DEF EarnedInv
  <2> QED BY <2>1, <2>2
<1>2. ASSUME ~ interrupted', platform = "computer", Fixing' \/ phase' = "fixed"
      PROVE  \A t \in Trajs : Earned(t)' \/ job'[TrajJob(t)] # "none"
  <2>1. asked \subseteq asked'
    BY <1>2
  <2>2. \A t \in Trajs : Earned(t) => Earned(t)'
    BY <2>1, EarnedStays
  <2>3. \A t \in Trajs : Earned(t) \/ job'[TrajJob(t)] # "none"
    BY <1>2
  <2> QED BY <2>2, <2>3
<1>3. \A j \in StepJobs :
         platform = "mobile" /\ job'[j] \in {"answered", "loaded", "truncated"} => j \in asked'
  BY DEF LeftInv
<1> QED BY <1>1, <1>2, <1>3 DEF LeftInv

LEMMA AskedMainThread ==
    ASSUME TypeOK, JobsInv, ThoughtInv, Grows, EarnedInv, LeftInv, ~ Regenerating,
           \/ \E resume \in BOOLEAN : StartFix(resume)
           \/ \E t \in Trajs : NoteResult(t)
           \/ OpenProgress \/ CloseGenerate \/ DumpProgress \/ StartRetry \/ FinishRetry
           \/ InterruptGenerate \/ InterruptRetry \/ KillFix
    PROVE  EarnedInv' /\ LeftInv'
<1> USE JobsFacts
<1>1. WorkTypes /\ MainTypes /\ writing = {}
  BY TypeParts DEF ThoughtInv
<1>2. \A t \in Trajs : (\A j \in Jobs : job[j] = "none") /\ ~ file[t].whole => Earned(t)
  BY <1>1 DEF Earned, Latest, Underway
<1>3. ASSUME NEW resume \in BOOLEAN, StartFix(resume) PROVE EarnedInv' /\ LeftInv'
  <2>. DEFINE todo == {t \in Trajs : /\ file[t].whole
                                     /\ traj_id(t) \notin Known(resume)
                                     /\ Missing(t, file[t]) # {}}
  <2>1. \A j \in Jobs : job[j] = "none"
    BY <1>3, Quiet DEF StartFix, NewSession, JobsInv
  <2>2. /\ \A j \in Jobs : job'[j] = IF j \in TrajJobs /\ j[1] \in todo THEN "queued"
                                     ELSE "none"
        /\ phase' \in {"generate", "missing", "fixed"}
        /\ platform = "mobile" => phase' # "fixed"
        /\ platform' = platform /\ progress' = progress /\ done_ids' = Known(resume)
        /\ platform = "computer" => asked' = asked
    BY <1>3 DEF StartFix, NewSession
  <2>3. \A t \in Trajs : t \notin todo /\ platform = "computer" => Earned(t)
    <3> SUFFICES ASSUME NEW t \in Trajs, t \notin todo, platform = "computer", file[t].whole
                 PROVE  Earned(t)
      BY <1>2, <2>1
    <3>1. t \in progress.ids \/ Missing(t, file[t]) = {}
      BY DEF Known, traj_id
    <3>2. Latest(t) = {file[t]}
      BY DEF Latest
    <3>3. CASE Missing(t, file[t]) = {}
      BY <3>2, <3>3 DEF Earned, Unasked
    <3>4. CASE t \in progress.ids
      BY <3>4 DEF EarnedInv
    <3> QED BY <3>1, <3>3, <3>4
  <2>4. \A t \in Trajs : job'[TrajJob(t)] = IF t \in todo THEN "queued" ELSE "none"
    BY <2>2
  <2>5. \A j \in StepJobs : job'[j] = "none"
    BY <2>2
  <2>6. \A t \in progress'.ids \cup done_ids' : t \in progress.ids \cup done_ids
    BY <2>2 DEF Known
  <2>7. \A t \in Trajs : platform = "computer" => Earned(t) \/ job'[TrajJob(t)] # "none"
    BY <2>3, <2>4
  <2>8. \A t \in Trajs : job'[TrajJob(t)] \in {"none", "queued"}
    BY <2>4
  <2> HIDE DEF todo
  <2> QED BY <2>2, <2>5, <2>6, <2>7, <2>8, MainAsks
<1>4. ASSUME NEW t \in Trajs, NoteResult(t) PROVE EarnedInv' /\ LeftInv'
  <2>1. /\ platform' = platform /\ asked' = asked /\ asking' = asking /\ progress' = progress
        /\ job[TrajJob(t)] = "returned" /\ job'[TrajJob(t)] = "none"
        /\ \A i \in Jobs : i # TrajJob(t) => job'[i] = job[i] /\ copy'[i] = copy[i]
        /\ phase = "generate" /\ phase' \in {"generate", "saving"}
        /\ interrupted' = interrupted
        /\ platform = "computer" => done_ids' = done_ids \cup {t}
    BY <1>1, <1>4 DEF NoteResult, WorkTypes, traj_id
  <2>2. ASSUME ~ interrupted, platform = "computer", NEW u \in Trajs
        PROVE  Earned(u) \/ job'[TrajJob(u)] # "none"
    <3>1. Earned(u) \/ job[TrajJob(u)] # "none"
      BY <2>1, <2>2 DEF LeftInv, Fixing, Generating
    <3>2. CASE u = t
      BY <2>1, <2>2, <3>2 DEF EarnedInv, AskingInv
    <3>3. CASE u # t
      BY <2>1, <3>1, <3>3
    <3> QED BY <3>2, <3>3
  <2>3. \A u \in Trajs :
           \/ /\ job'[TrajJob(u)] = job[TrajJob(u)]
              /\ copy'[TrajJob(u)] = copy[TrajJob(u)]
              /\ asking'[TrajJob(u)] = asking[TrajJob(u)]
           \/ job'[TrajJob(u)] \in {"none", "queued"}
    BY <2>1
  <2>4. \A j \in StepJobs : job'[j] = job[j]
    BY <2>1
  <2>5. platform = "computer" =>
           \A u \in progress'.ids \cup done_ids' :
              \/ u \in progress.ids \cup done_ids
              \/ u \in Trajs /\ job[TrajJob(u)] = "returned"
    BY <2>1
  <2> QED BY <2>1, <2>2, <2>3, <2>4, <2>5, MainAsks
<1>5. CASE OpenProgress \/ DumpProgress
  <2>1. /\ platform' = platform /\ asked' = asked /\ asking' = asking /\ job' = job
        /\ copy' = copy /\ interrupted' = interrupted /\ done_ids' = done_ids
        /\ progress'.ids = {} \/ progress'.ids = done_ids
        /\ phase \in {"saving", "saving progress", "closing progress"}
    <3>1. CASE OpenProgress
      BY <3>1 DEF OpenProgress
    <3>2. CASE DumpProgress
      BY <3>2 DEF DumpProgress
    <3> QED BY <1>5, <3>1, <3>2
  <2>3. /\ phase' \in {"saving progress", "generate", "missing", "fixed"}
        /\ platform = "mobile" => phase' # "fixed"
    BY <1>5 DEF OpenProgress, DumpProgress
  <2>2. ~ interrupted /\ platform = "computer" =>
           \A t \in Trajs : Earned(t) \/ job'[TrajJob(t)] # "none"
    BY <2>1 DEF LeftInv, Fixing, Generating
  <2> QED BY <2>1, <2>2, <2>3, MainAsks
<1>6. CASE CloseGenerate
  <2>1. /\ platform' = platform /\ asked' = asked /\ interrupted' = interrupted
        /\ progress'.ids = {} /\ done_ids' = done_ids /\ \A j \in Jobs : job'[j] = "none"
        /\ phase' = "closing progress" /\ phase \in {"generate", "interrupted"}
        /\ phase = "generate" => \A j \in Jobs : job[j] = "none"
    BY <1>6 DEF CloseGenerate
  <2>2. ~ interrupted /\ platform = "computer" => \A t \in Trajs : Earned(t)
    BY <2>1 DEF LeftInv, Fixing, Generating
  <2>3. /\ \A t \in Trajs : job'[TrajJob(t)] = "none"
        /\ \A j \in StepJobs : job'[j] = "none"
    BY <2>1
  <2> QED BY <2>1, <2>2, <2>3, MainAsks
<1>7. CASE StartRetry
  <2>1. \A j \in Jobs : job[j] = "none"
    BY <1>7, Quiet DEF StartRetry, JobsInv
  <2>2. /\ platform' = platform /\ asked' = asked /\ interrupted' = interrupted
        /\ progress' = progress /\ done_ids' = done_ids /\ file' = file /\ phase = "missing"
        /\ \A j \in Jobs : job'[j] = IF j \in ToRetry THEN "queued" ELSE "none"
        /\ phase' \in {"fixed", "retry"}
    BY <1>7 DEF StartRetry
  <2>3. /\ \A t \in Trajs : job'[TrajJob(t)] \in {"none", "queued"}
        /\ \A j \in StepJobs : job'[j] \in {"none", "queued"}
    BY <2>2
  <2>4. ~ interrupted /\ platform = "computer" => \A t \in Trajs : Earned(t)
    BY <2>1, <2>2 DEF LeftInv, Fixing
  <2>5. ASSUME platform = "mobile", NEW t \in Trajs, NEW c \in Latest(t)',
               NEW s \in Unasked(t, c)'
        PROVE  job'[<< t, s >>] \in Waiting
    <3>1. file[t].whole /\ c = file[t]
      <4>1. file'[t].whole
        <5> SUFFICES ASSUME ~ file'[t].whole PROVE FALSE
          OBVIOUS
        <5>1. PICK d \in Latest(t) : TRUE
          BY DEF Grows
        <5>2. Latest(t) = {}
          BY <1>1, <2>1, <2>2 DEF Latest, Underway
        <5> QED BY <5>1, <5>2
      <4> QED BY <2>2, <4>1 DEF Latest
    <3>2. << t, s >> \in StepJobs /\ s \in Missing(t, file[t])
      BY <2>2, <3>1 DEF Unasked, Missing, StepJobs
    <3>3. << t, s >> \in ToRetry
      BY <2>5, <3>1, <3>2 DEF ToRetry
    <3> QED BY <2>2, <3>2, <3>3 DEF Waiting
  <2> QED BY <2>2, <2>3, <2>4, <2>5, MainAsks
<1>8. CASE FinishRetry
  <2>1. /\ platform' = platform /\ asked' = asked /\ interrupted' = interrupted /\ job' = job
        /\ copy' = copy /\ asking' = asking /\ progress' = progress /\ done_ids' = done_ids
        /\ phase = "retry" /\ phase' = "fixed" /\ \A j \in Jobs : job[j] = "none"
    BY <1>8 DEF FinishRetry, fixVars
  <2>2. ~ interrupted /\ platform = "computer" => \A t \in Trajs : Earned(t)
    BY <2>1 DEF LeftInv, Fixing
  <2>3. ~ interrupted /\ platform = "mobile" =>
           \A t \in Trajs : \A c \in Latest(t)' : \A s \in Unasked(t, c)' :
              job'[<< t, s >>] \in Waiting
    <3> SUFFICES ASSUME ~ interrupted, platform = "mobile"
                 PROVE  \A t \in Trajs : \A c \in Latest(t)' : \A s \in Unasked(t, c)' :
                           job'[<< t, s >>] \in Waiting
      OBVIOUS
    <3>1. \A t \in Trajs : \A c \in Latest(t) : \A s \in Unasked(t, c) :
             job[<< t, s >>] \in Waiting
      BY <2>1 DEF LeftInv
    <3>2. \A j \in StepJobs : job[j] \in Waiting => job'[j] \in Waiting \/ j \in asked'
      BY <2>1
    <3> QED BY <2>1, <3>1, <3>2, LeftStays
  <2> QED BY <2>1, <2>2, <2>3, MainAsks
<1>9. CASE InterruptGenerate \/ InterruptRetry
  <2>1. /\ platform' = platform /\ asked' = asked /\ interrupted' = TRUE
        /\ progress' = progress /\ done_ids' = done_ids /\ copy' = copy /\ asking' = asking
        /\ \A j \in Jobs : job'[j] = job[j] \/ job'[j] = "none"
    BY <1>9 DEF InterruptGenerate, InterruptRetry
  <2>2. /\ \A t \in Trajs : job'[TrajJob(t)] = job[TrajJob(t)] \/ job'[TrajJob(t)] = "none"
        /\ \A j \in StepJobs : job'[j] = job[j] \/ job'[j] = "none"
    BY <2>1
  <2> QED BY <2>1, <2>2, MainAsks
<1>10. CASE KillFix
  <2>1. /\ platform' = platform /\ asked' = asked /\ phase' = "idle"
        /\ progress' = progress /\ done_ids' = {} /\ \A j \in Jobs : job'[j] = "none"
    BY <1>10 DEF KillFix
  <2>2. /\ \A t \in Trajs : job'[TrajJob(t)] = "none"
        /\ \A j \in StepJobs : job'[j] = "none"
    BY <2>1
  <2>3. ~ Fixing'
    BY <2>1 DEF Fixing, Generating
  <2> QED BY <2>1, <2>2, <2>3, MainAsks
<1> QED BY <1>3, <1>4, <1>5, <1>6, <1>7, <1>8, <1>9, <1>10

\* The invariant of the progress file and of the end of a session.
AskedInv == IInv /\ EarnedInv /\ LeftInv

LEMMA AskedInit == Init => AskedInv
<1> SUFFICES ASSUME Init PROVE AskedInv
  OBVIOUS
<1>1. /\ progress.ids = {} /\ done_ids = {} /\ phase = "idle"
      /\ \A j \in Jobs : job[j] = "none"
  BY DEF Init, FilesInit, FixInit
<1>2. EarnedInv
  BY <1>1, JobsFacts DEF EarnedInv, AskingInv
<1>3. LeftInv
  BY <1>1, JobsFacts DEF LeftInv, Fixing, Generating
<1> QED BY <1>2, <1>3, IInit DEF AskedInv

LEMMA AskedStep == AskedInv /\ [Next]_vars => AskedInv'
<1> SUFFICES ASSUME IInv, EarnedInv, LeftInv, [Next]_vars PROVE IInv' /\ EarnedInv' /\ LeftInv'
  BY DEF AskedInv
<1>1. IInv' /\ Grows
  BY IStep, StepRefines DEF Refines
<1>2. TypeOK /\ JobsInv /\ ThoughtInv
  BY DEF IInv
<1>3. CASE RegenerateNext /\ UNCHANGED fixVars
  <2>1. /\ phase' \in {"failed", "regenerated", "thoughts", "flush", "rewrite", "idle"}
        /\ platform' = platform
    BY <1>3 DEF RegenerateNext, RegenerateStep, StartRegenerate, NewSession, ThoughtAnswered,
                OpenTask, DumpTask, EndFlush, EndRewrite, KillRegenerate
  <2>2. ~ Fixing'
    BY <2>1 DEF Fixing, Generating
  <2> QED BY <1>1, <1>2, <1>3, <2>1, <2>2, MainAsks DEF fixVars
<1>4. CASE UNCHANGED vars
  <2>1. /\ platform' = platform /\ asked' = asked /\ interrupted' = interrupted
        /\ job' = job /\ copy' = copy /\ asking' = asking /\ phase' = phase
        /\ progress' = progress /\ done_ids' = done_ids
        /\ Fixing' = Fixing
    BY <1>4 DEF vars, fileVars, fixVars, Fixing, Generating
  <2>2. ~ interrupted /\ platform = "mobile" /\ phase \in {"retry", "fixed"} =>
           \A t \in Trajs : \A c \in Latest(t)' : \A s \in Unasked(t, c)' :
              job'[<< t, s >>] \in Waiting
    <3>1. \A j \in StepJobs : job[j] \in Waiting => job'[j] \in Waiting \/ j \in asked'
      BY <2>1
    <3> QED BY <1>1, <1>2, <2>1, <3>1, LeftStays DEF LeftInv
  <2>3. ~ interrupted /\ platform = "computer" /\ (Fixing \/ phase = "fixed") =>
           \A t \in Trajs : Earned(t) \/ job[TrajJob(t)] # "none"
    BY DEF LeftInv
  <2>4. phase = "interrupted" => interrupted
    BY DEF LeftInv
  <2> QED BY <1>1, <1>2, <2>1, <2>2, <2>3, <2>4, MainAsks
<1>5. ASSUME UNCHANGED thoughtVars,
             \/ \E t \in Trajs : BeginJob(t)
             \/ \E t \in Trajs, s \in Steps : StepAnswered(t, s)
             \/ \E j \in Jobs : OpenTaskJson(j) \/ DumpTaskJson(j)
             \/ \E j \in StepJobs : BeginRetry(j) \/ RetryAnswered(j) \/ ApplyResult(j)
      PROVE  EarnedInv' /\ LeftInv'
  BY <1>1, <1>2, <1>5, AskedJobs
<1>6. ASSUME UNCHANGED thoughtVars,
             \/ \E resume \in BOOLEAN : StartFix(resume)
             \/ \E t \in Trajs : NoteResult(t)
             \/ OpenProgress \/ CloseGenerate \/ DumpProgress \/ StartRetry \/ FinishRetry
             \/ InterruptGenerate \/ InterruptRetry \/ KillFix
      PROVE  EarnedInv' /\ LeftInv'
  <2>1. ~ Regenerating
    BY <1>2, <1>6, FixPhases DEF JobsInv
  <2> QED BY <1>1, <1>2, <1>6, <2>1, AskedMainThread
<1> QED BY <1>1, <1>3, <1>4, <1>5, <1>6, Steps3

LEMMA AskedInvariant == Spec => []AskedInv
BY AskedInit, AskedStep, PTL DEF Spec

\* On the computer every box is there or is missing, on mobile but for the second box of
\* a swipe that came with one.
LEMMA IncompleteIsMissing ==
    ASSUME AskedInv, NEW t \in Trajs, file[t].whole
    PROVE  /\ platform = "computer" => Incomplete(t, file[t]) \subseteq Missing(t, file[t])
           /\ Incomplete(t, file[t]) \ CameWithOne(t, file[t]) \subseteq Missing(t, file[t])
<1>1. /\ file[t] \in Content /\ WellBoxed(t, file[t])
      /\ platform = "computer" \/ platform = "mobile"
  BY TaskFilesAssumption DEF AskedInv, IInv, RawInv, Clean, TypeOK
<1>2. \A s \in Steps : file[t].box[s] \in {"none", "dict", "start", "full"}
  BY <1>1 DEF Content, Boxes
<1>3. platform = "computer" => Incomplete(t, file[t]) \subseteq Missing(t, file[t])
  BY <1>1 DEF WellBoxed, Incomplete, Missing
<1>4. ASSUME NEW s \in Incomplete(t, file[t]) \ CameWithOne(t, file[t])
      PROVE  s \in Missing(t, file[t])
  <2>1. s \in Steps /\ Kind[t][s] # "other" /\ file[t].box[s] # "full"
    BY DEF Incomplete
  <2>2. file[t].box[s] # "start"
    BY <1>1, <2>1, <1>4 DEF WellBoxed, CameWithOne
  <2>3. file[t].box[s] = "none" \/ (platform = "mobile" /\ file[t].box[s] = "dict")
    BY <1>1, <1>2, <2>1, <2>2 DEF WellBoxed
  <2> QED BY <2>1, <2>3 DEF Missing
<1> QED BY <1>3, <1>4

\* On the computer --resume may skip what the progress file names.
THEOREM ProgressFileIsEarned == Spec => []ProgressIsEarned
<1>1. AskedInv => ProgressIsEarned
  <2> SUFFICES ASSUME AskedInv, platform = "computer",
                      NEW t \in progress.ids \cup done_ids, file[t].whole
               PROVE  {t} \X Incomplete(t, file[t]) \subseteq asked
    BY DEF ProgressIsEarned
  <2>1. Earned(t) /\ Latest(t) = {file[t]}
    BY DEF AskedInv, EarnedInv, Latest
  <2>2. Unasked(t, file[t]) = {}
    BY <2>1 DEF Earned
  <2>3. t \in Trajs
    BY DEF AskedInv, IInv, TypeOK
  <2>4. Incomplete(t, file[t]) \subseteq Missing(t, file[t])
    BY <2>3, IncompleteIsMissing
  <2> QED BY <2>2, <2>4 DEF Unasked
<1> QED BY <1>1, AskedInvariant, PTL

\* A session that ends by itself has asked for every box that is missing, but the second
\* boxes of swipes that came with one.
THEOREM AskedBeforeTheEnd == Spec => []AskedBeforeFixed
<1>1. AskedInv => AskedBeforeFixed
  <2> SUFFICES ASSUME AskedInv, phase = "fixed", ~ interrupted, NEW t \in Trajs, file[t].whole
               PROVE  {t} \X (Incomplete(t, file[t]) \ CameWithOne(t, file[t]))
                         \subseteq asked
    BY DEF AskedBeforeFixed
  <2>1. TypeOK /\ JobsInv /\ Latest(t) = {file[t]} /\ \A j \in Jobs : job[j] = "none"
    BY Quiet DEF AskedInv, IInv, JobsInv, Latest, Ended
  <2>2. platform = "computer" \/ platform = "mobile"
    BY <2>1, TaskFilesAssumption DEF TypeOK
  <2>3. Unasked(t, file[t]) = {}
    <3>1. CASE platform = "computer"
      BY <2>1, <3>1, JobsFacts DEF AskedInv, LeftInv, Earned
    <3>2. CASE platform = "mobile"
      <4>1. \A s \in Unasked(t, file[t]) : << t, s >> \in Jobs /\ job[<< t, s >>] \in Waiting
        BY <2>1, <3>2, JobsFacts DEF AskedInv, LeftInv, Unasked, Missing, StepJobs
      <4> QED BY <2>1, <4>1 DEF Waiting
    <3> QED BY <2>2, <3>1, <3>2
  <2>4. Incomplete(t, file[t]) \ CameWithOne(t, file[t]) \subseteq Missing(t, file[t])
    BY IncompleteIsMissing
  <2> QED BY <2>3, <2>4 DEF Unasked
<1> QED BY <1>1, AskedInvariant, PTL

=============================================================================
