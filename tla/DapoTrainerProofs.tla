-------------------------- MODULE DapoTrainerProofs --------------------------
(***************************************************************************)
(* Proofs about the checkpoints of the DAPO trainer, for any number of     *)
(* ranks, steps and runs and for every configuration of a job; those about *)
(* what a restart finds, for every one that keeps more than one checkpoint *)
(* or saves in the background.                                             *)
(***************************************************************************)
EXTENDS DapoTrainer, FiniteSetTheorems, TLAPS

-----------------------------------------------------------------------------
(* Type correctness.                                                       *)

LEMMA Counts == total_training_steps \in Nat \ {0} /\ total_step \in Nat /\ MaxRuns \in Nat \ {0}
BY TrainerAssumption

\* The numbers that bound each other: a step is an update at most, and a run goes at
\* most one step beyond the last one.
CountInv ==
    /\ global_steps <= total_training_steps + run - 1
    /\ tracker <= total_training_steps + run - 1
    /\ phase = "starting" => tracker <= total_training_steps + run - 2
    /\ phase \in {"starting", "failed"} => global_steps = 0 /\ updates = 0 /\ drawn = 0
    /\ phase \notin {"starting", "failed"} => global_steps >= 1
    /\ updates <= global_steps
    /\ phase \in {"loop", "update"} => updates < global_steps
    /\ \A n \in StepNames, r \in Ranks : shards[n][r].updates <= n
    /\ \A w \in pending : w.content.updates <= w.step

LEMMA MissingFacts ==
    /\ Missing \in Contents /\ Missing.updates = 0 /\ Missing.run = 0
    /\ Torn \in Contents /\ Torn.updates = 0 /\ Torn.run = -1
    /\ Missing # Torn /\ Missing.drawn = 0
BY Counts DEF Missing, Torn, Content, Contents

LEMMA NowFacts ==
    ASSUME TypeOK
    PROVE  /\ Now \in Contents /\ Now.updates = updates /\ Now.run = run /\ Now.drawn = drawn
           /\ Now # Torn /\ Now # Missing /\ IsFile(Now)
BY Counts DEF TypeOK, Now, Torn, Missing, Content, Contents, IsFile

LEMMA StepName ==
    ASSUME TypeOK, CountInv, phase \notin {"starting", "failed"}
    PROVE  global_steps \in StepNames /\ global_steps \in Nat \ {0}
BY Counts DEF TypeOK, CountInv, StepNames

LEMMA TypeInit == Init => TypeOK /\ CountInv
<1> SUFFICES ASSUME Init PROVE TypeOK /\ CountInv
  OBVIOUS
<1> USE Counts, MissingFacts DEF Init
<1>1. shards \in [StepNames -> [Ranks -> Contents]] /\ data \in [StepNames -> Contents]
  OBVIOUS
<1>2. /\ tracker \in StepNames \cup {NoTracker, EmptyTracker} /\ run \in 1 .. MaxRuns
      /\ phase \in Phases /\ global_steps \in 0 .. total_training_steps + MaxRuns
      /\ updates \in 0 .. total_training_steps + MaxRuns /\ drawn \in 0 .. total_step
  BY DEF Phases
<1>3. /\ previous_saved_paths \in Seq(StepNames)
      /\ worker \in [Ranks -> {"idle", "rotate", "ready", "writing", "written"}]
      /\ pending \subseteq [step : StepNames, rank : Ranks, content : Contents]
  OBVIOUS
<1>4. TypeOK
  BY <1>1, <1>2, <1>3 DEF TypeOK
<1>5. CountInv
  BY DEF CountInv, NoTracker, StepNames
<1> QED BY <1>4, <1>5

\* The type invariant in three parts.
DiskTypes ==
    /\ made \subseteq StepNames
    /\ shards \in [StepNames -> [Ranks -> Contents]]
    /\ data \in [StepNames -> Contents]
    /\ tracker \in StepNames \cup {NoTracker, EmptyTracker}
    /\ final \in Contents

DriverTypes ==
    /\ config \in Configs
    /\ run \in 1 .. MaxRuns
    /\ phase \in Phases
    /\ global_steps \in 0 .. total_training_steps + MaxRuns
    /\ updates \in 0 .. total_training_steps + MaxRuns
    /\ drawn \in 0 .. total_step

WorkerTypes ==
    /\ previous_saved_paths \in Seq(StepNames)
    /\ worker \in [Ranks -> {"idle", "rotate", "ready", "writing", "written"}]
    /\ pending \subseteq [step : StepNames, rank : Ranks, content : Contents]

LEMMA TypeParts == TypeOK <=> DiskTypes /\ DriverTypes /\ WorkerTypes
BY DEF TypeOK, DiskTypes, DriverTypes, WorkerTypes

LEMMA TypesKept ==
    /\ DiskTypes /\ UNCHANGED disk => DiskTypes'
    /\ DriverTypes /\ UNCHANGED driver => DriverTypes'
    /\ WorkerTypes /\ UNCHANGED workers => WorkerTypes'
BY DEF DiskTypes, DriverTypes, WorkerTypes, disk, driver, workers

\* The start of a run.
LEMMA StartTypes ==
    ASSUME TypeOK, CountInv,
           StartFromScratch \/ (\E n \in StepNames : ResumeFrom(n)) \/ LoadFails \/ StartAgain
    PROVE  TypeOK' /\ CountInv'
<1> USE Counts DEF disk, workers
<1>1. CASE StartFromScratch
  <2>1. TypeOK'
    BY <1>1 DEF StartFromScratch, TypeOK, Phases
  <2>2. CountInv'
    BY <1>1 DEF StartFromScratch, TypeOK, CountInv
  <2> QED BY <2>1, <2>2
<1>2. ASSUME NEW n \in StepNames, ResumeFrom(n) PROVE TypeOK' /\ CountInv'
  <2>1. PICK r \in Ranks : updates' = shards[n][r].updates
    BY <1>2 DEF ResumeFrom
  <2>2. /\ n \in Nat \ {0} /\ n <= total_training_steps + run - 2 /\ run \in 1 .. MaxRuns
        /\ global_steps' = n + 1 /\ phase' = "loop" /\ run' = run /\ tracker' = tracker
        /\ shards' = shards /\ pending' = pending /\ tracker = n
    BY <1>2 DEF ResumeFrom, TypeOK, CountInv, StepNames
  <2>3. /\ updates' \in 0 .. total_training_steps + MaxRuns /\ drawn' \in 0 .. total_step
        /\ updates' <= n
    BY <1>2, <2>1 DEF ResumeFrom, TypeOK, CountInv, Contents
  <2>4. TypeOK'
    BY <1>2, <2>2, <2>3 DEF ResumeFrom, TypeOK, Phases
  <2>5. CountInv'
    BY <2>2, <2>3 DEF CountInv, TypeOK
  <2> QED BY <2>4, <2>5
<1>3. CASE LoadFails
  <2>1. TypeOK'
    BY <1>3 DEF LoadFails, TypeOK, Phases
  <2>2. CountInv'
    BY <1>3 DEF LoadFails, CountInv
  <2> QED BY <2>1, <2>2
<1>4. CASE StartAgain
  <2>1. TypeOK'
    <3>1. phase' \in Phases
      BY <1>4 DEF StartAgain, Phases
    <3>2. run' \in 1 .. MaxRuns
      BY <1>4, TypeParts DEF StartAgain, DriverTypes
    <3>3. DriverTypes'
      BY <1>4, <3>1, <3>2, TypeParts DEF StartAgain, DriverTypes
    <3>4. WorkerTypes'
      BY <1>4 DEF StartAgain, WorkerTypes
    <3> QED BY <1>4, <3>3, <3>4, TypeParts
            DEF StartAgain, TypeOK, DiskTypes, DriverTypes, WorkerTypes
  <2>2. CountInv'
    BY <1>4 DEF StartAgain, CountInv, TypeOK, StepNames, NoTracker, EmptyTracker
  <2> QED BY <2>1, <2>2
<1> QED BY <1>1, <1>2, <1>3, <1>4

\* The next step of the loop, if there is one.
LEMMA NextStepFacts ==
    ASSUME TypeOK, CountInv, NextStep, global_steps >= 1
    PROVE  /\ phase' \in {"finished", "loop"}
           /\ global_steps' >= global_steps /\ global_steps' \in Nat
           /\ global_steps' <= total_training_steps + run - 1
           /\ global_steps' <= total_training_steps + MaxRuns
           /\ phase' = "loop" => global_steps' = global_steps + 1
BY Counts DEF NextStep, is_last_step, TypeOK, CountInv

LEMMA LoopTypes ==
    ASSUME TypeOK, CountInv, GenerateBatch \/ UpdateActor \/ LeaveLoop
    PROVE  TypeOK' /\ CountInv'
<1> USE Counts
<1>. DiskTypes /\ DriverTypes /\ WorkerTypes
  BY TypeParts
<1>0. ASSUME DiskTypes', DriverTypes', WorkerTypes' PROVE TypeOK'
  BY <1>0 DEF TypeOK, DiskTypes, DriverTypes, WorkerTypes
<1>1. CASE GenerateBatch
  <2>0. DiskTypes' /\ WorkerTypes'
    BY <1>1, TypesKept DEF GenerateBatch, vars, disk, driver
  <2>1. TypeOK'
    <3>1. phase' \in Phases
      BY <1>1 DEF GenerateBatch, Phases
    <3>2. drawn' \in 0 .. total_step
      BY <1>1 DEF GenerateBatch, DriverTypes
    <3>3. DriverTypes'
      BY <1>1, <3>1, <3>2 DEF GenerateBatch, DriverTypes
    <3> QED BY <1>0, <2>0, <3>3
  <2>2. CountInv'
    BY <1>1 DEF GenerateBatch, CountInv, disk, workers
  <2> QED BY <2>1, <2>2
<1>2. CASE UpdateActor
  <2>1. /\ phase = "update" /\ updates' = updates + 1 /\ run' = run /\ drawn' = drawn
        /\ UNCHANGED << disk, workers, config >>
        /\ (phase' = "save" /\ global_steps' = global_steps) \/ NextStep
    BY <1>2 DEF UpdateActor
  <2>2. /\ phase' \in {"save", "loop", "finished"} /\ global_steps' \in Nat
        /\ global_steps' >= global_steps
        /\ global_steps' <= total_training_steps + run - 1
        /\ global_steps' <= total_training_steps + MaxRuns
        /\ phase' = "loop" => global_steps' = global_steps + 1
        /\ global_steps >= 1
    BY <2>1, NextStepFacts DEF CountInv, TypeOK
  <2>3. updates' <= global_steps /\ updates' \in Nat
    BY <2>1 DEF CountInv, TypeOK
  <2>4. TypeOK'
    <3>1. phase' \in Phases
      BY <2>2 DEF Phases
    <3>2. /\ updates' \in 0 .. total_training_steps + MaxRuns
          /\ global_steps' \in 0 .. total_training_steps + MaxRuns
      BY <2>2, <2>3 DEF DriverTypes
    <3>3. DriverTypes'
      BY <2>1, <3>1, <3>2 DEF DriverTypes
    <3> QED BY <1>0, <2>1, <3>3, TypesKept
  <2>5. CountInv'
    BY <2>1, <2>2, <2>3 DEF CountInv, DriverTypes, disk, workers
  <2> QED BY <2>4, <2>5
<1>3. CASE LeaveLoop
  <2>1. TypeOK'
    <3>1. DriverTypes'
      BY <1>3 DEF LeaveLoop, DriverTypes, Phases
    <3> QED BY <1>0, <1>3, <3>1, TypesKept DEF LeaveLoop
  <2>2. CountInv'
    BY <1>3 DEF LeaveLoop, CountInv, disk, workers
  <2> QED BY <2>1, <2>2
<1> QED BY <1>1, <1>2, <1>3

\* The steps of the workers, of the background and of the call's return.
LEMMA WorkerStepTypes ==
    ASSUME TypeOK, CountInv,
           (\E r \in Ranks : WorkerStep(r)) \/ (\E w \in pending : BackgroundWrite(w)) \/ WorkersDone
    PROVE  TypeOK' /\ CountInv'
<1> USE Counts
<1>. DiskTypes /\ DriverTypes /\ WorkerTypes
  BY TypeParts
<1>1. ASSUME DiskTypes', DriverTypes', WorkerTypes' PROVE TypeOK'
  BY <1>1 DEF TypeOK, DiskTypes, DriverTypes, WorkerTypes
<1>2. ASSUME UNCHANGED driver, tracker' = tracker,
             \A n \in StepNames, r \in Ranks : shards'[n][r].updates <= n,
             \A w \in pending' : w.content.updates <= w.step
      PROVE  CountInv'
  BY <1>2 DEF CountInv, driver
<1>3. Saving => global_steps \in StepNames /\ global_steps \in Nat \ {0}
  BY StepName DEF Saving
<1>4. ASSUME NEW n \in StepNames, NEW r \in Ranks, NEW c \in Contents, c.updates <= n,
             shards' = [shards EXCEPT ![n][r] = c]
      PROVE  /\ shards' \in [StepNames -> [Ranks -> Contents]]
             /\ \A m \in StepNames, q \in Ranks : shards'[m][q].updates <= m
  BY <1>4 DEF DiskTypes, CountInv
<1>5. ASSUME NEW r \in Ranks, EnterSave(r) \/ MakeDirectory(r) PROVE TypeOK' /\ CountInv'
  <2>1. worker' \in [Ranks -> {"idle", "rotate", "ready", "writing", "written"}]
    BY <1>5 DEF EnterSave, MakeDirectory, WorkerTypes
  <2>2. /\ UNCHANGED << shards, data, tracker, final, driver, previous_saved_paths, pending >>
        /\ made' \subseteq StepNames
    BY <1>3, <1>5 DEF EnterSave, MakeDirectory, disk, DiskTypes
  <2>3. DiskTypes' /\ WorkerTypes' /\ DriverTypes'
    BY <2>1, <2>2, TypesKept DEF DiskTypes, WorkerTypes
  <2>4. CountInv'
    BY <1>2, <2>2 DEF CountInv
  <2> QED BY <1>1, <2>3, <2>4
<1>6. ASSUME NEW r \in Ranks, RemoveFile(r) PROVE TypeOK' /\ CountInv'
  <2>1. PICK f \in LeftOver : shards' = [shards EXCEPT ![f[1]][f[2]] = Missing]
    BY <1>6 DEF RemoveFile
  <2>2. f[1] \in StepNames /\ f[2] \in Ranks
    <3>1. f \in Doomed \X Ranks
      BY DEF LeftOver
    <3>2. Doomed \subseteq StepNames
      <4> SUFFICES ASSUME Rotation PROVE Doomed \subseteq StepNames
        BY DEF Doomed
      <4>1. KeepStart \in Int /\ KeepStart <= Len(previous_saved_paths)
        BY TrainerAssumption
           DEF Rotation, KeepStart, MaxToKeep, WorkerTypes, DriverTypes, ConfigType
      <4> QED BY <4>1 DEF Doomed, WorkerTypes
    <3> QED BY <3>1, <3>2
  <2>3. /\ shards' \in [StepNames -> [Ranks -> Contents]]
        /\ \A m \in StepNames, q \in Ranks : shards'[m][q].updates <= m
    <3>1. 0 <= f[1]
      BY <2>2 DEF StepNames
    <3> QED BY <1>4, <2>1, <2>2, <3>1, MissingFacts
  <2>4. UNCHANGED << made, data, tracker, final, driver, workers >>
    BY <1>6 DEF RemoveFile
  <2>5. DiskTypes' /\ WorkerTypes' /\ DriverTypes'
    BY <2>3, <2>4, TypesKept DEF DiskTypes
  <2>6. CountInv'
    BY <1>2, <2>3, <2>4 DEF CountInv, workers
  <2> QED BY <1>1, <2>5, <2>6
<1>7. ASSUME NEW r \in Ranks, OpenShard(r) \/ WriteShard(r) PROVE TypeOK' /\ CountInv'
  <2>1. PICK c \in {Torn, Now} : shards' = [shards EXCEPT ![global_steps][r] = c]
    BY <1>7 DEF OpenShard, WriteShard
  <2>2. c \in Contents /\ c.updates <= global_steps
    BY MissingFacts, NowFacts DEF CountInv, DriverTypes
  <2>3. Saving
    BY <1>7 DEF OpenShard, WriteShard
  <2>4. /\ shards' \in [StepNames -> [Ranks -> Contents]]
        /\ \A m \in StepNames, q \in Ranks : shards'[m][q].updates <= m
    BY <1>3, <1>4, <2>1, <2>2, <2>3
  <2>5. /\ UNCHANGED << made, data, tracker, final, driver, previous_saved_paths, pending >>
        /\ worker' \in [Ranks -> {"idle", "rotate", "ready", "writing", "written"}]
    BY <1>7 DEF OpenShard, WriteShard, WorkerTypes
  <2>6. DiskTypes' /\ WorkerTypes' /\ DriverTypes'
    BY <2>4, <2>5, TypesKept DEF DiskTypes, WorkerTypes
  <2>7. CountInv'
    BY <1>2, <2>4, <2>5 DEF CountInv
  <2> QED BY <1>1, <2>6, <2>7
<1>8. ASSUME NEW r \in Ranks, ScheduleWrite(r) PROVE TypeOK' /\ CountInv'
  <2>. PICK w : w = [step |-> global_steps, rank |-> r, content |-> Now]
    OBVIOUS
  <2>1. /\ w \in [step : StepNames, rank : Ranks, content : Contents]
        /\ w.content.updates <= w.step
    BY <1>3, <1>8, NowFacts DEF ScheduleWrite, CountInv
  <2>2. /\ UNCHANGED << disk, driver, previous_saved_paths >> /\ pending' = pending \cup {w}
        /\ worker' \in [Ranks -> {"idle", "rotate", "ready", "writing", "written"}]
    BY <1>8 DEF ScheduleWrite, WorkerTypes
  <2>3. DiskTypes' /\ WorkerTypes' /\ DriverTypes'
    BY <2>1, <2>2, TypesKept DEF WorkerTypes
  <2>4. CountInv'
    BY <1>2, <2>1, <2>2 DEF CountInv, disk
  <2> QED BY <1>1, <2>3, <2>4
<1>9. ASSUME NEW w \in pending, BackgroundWrite(w) PROVE TypeOK' /\ CountInv'
  <2>1. w.step \in StepNames /\ w.rank \in Ranks /\ w.content \in Contents
    BY DEF WorkerTypes
  <2>2. /\ UNCHANGED << made, data, tracker, final, driver, previous_saved_paths, worker >>
        /\ pending' = pending \ {w}
        /\ shards' = [shards EXCEPT ![w.step][w.rank] = w.content]
    BY <1>9 DEF BackgroundWrite
  <2>3. /\ shards' \in [StepNames -> [Ranks -> Contents]]
        /\ \A m \in StepNames, q \in Ranks : shards'[m][q].updates <= m
    BY <1>4, <2>1, <2>2 DEF CountInv
  <2>4. DiskTypes' /\ WorkerTypes' /\ DriverTypes'
    BY <2>2, <2>3, TypesKept DEF DiskTypes, WorkerTypes
  <2>5. CountInv'
    BY <1>2, <2>2, <2>3 DEF CountInv
  <2> QED BY <1>1, <2>4, <2>5
<1>10. CASE WorkersDone
  <2>1. /\ UNCHANGED << disk, config, run, global_steps, updates, drawn, pending >>
        /\ worker' = [r \in Ranks |-> "idle"] /\ Saving /\ phase' \in {"data", "closing data"}
    BY <1>10 DEF WorkersDone
  <2>2. previous_saved_paths' \in Seq(StepNames)
    <3>1. Rotation => SubSeq(previous_saved_paths, KeepStart + 1, Len(previous_saved_paths))
                         \in Seq(StepNames)
      <4>1. Rotation => KeepStart \in Nat
        BY TrainerAssumption
           DEF Rotation, KeepStart, MaxToKeep, WorkerTypes, DriverTypes, ConfigType
      <4> QED BY <4>1 DEF WorkerTypes
    <3>2. PICK q : q = IF Rotation
                       THEN SubSeq(previous_saved_paths, KeepStart + 1,
                                   Len(previous_saved_paths))
                       ELSE previous_saved_paths
      OBVIOUS
    <3>3. q \in Seq(StepNames)
      BY <3>1, <3>2 DEF WorkerTypes
    <3>4. global_steps \in StepNames => Append(q, global_steps) \in Seq(StepNames)
      BY <3>3
    <3>5. global_steps \in StepNames
      BY <1>3, <2>1
    <3>6. previous_saved_paths' = IF AsyncSave THEN previous_saved_paths
                                  ELSE Append(q, global_steps)
      BY <1>10, <3>2 DEF WorkersDone
    <3>7. CASE AsyncSave
      BY <3>6, <3>7 DEF WorkerTypes
    <3>8. CASE ~AsyncSave
      BY <3>4, <3>5, <3>6, <3>8
    <3> QED BY <3>7, <3>8
  <2>3. phase' \in Phases
    BY <2>1 DEF Phases
  <2>4. DiskTypes' /\ DriverTypes'
    BY <2>1, <2>3, TypesKept DEF DriverTypes
  <2>5. WorkerTypes'
    BY <2>1, <2>2 DEF WorkerTypes
  <2>6. CountInv'
    BY <2>1 DEF CountInv, disk, Saving
  <2> QED BY <1>1, <2>4, <2>5, <2>6
<1> QED BY <1>5, <1>6, <1>7, <1>8, <1>9, <1>10 DEF WorkerStep

\* The rest of a save.
LEMMA DriverSaveTypes ==
    ASSUME TypeOK, CountInv,
           \/ OpenData \/ WriteData \/ OpenTracker \/ WriteTracker
           \/ RemoveFinal \/ BeginCopy \/ EndCopy
    PROVE  TypeOK' /\ CountInv'
<1> USE Counts
<1>. DiskTypes /\ DriverTypes /\ WorkerTypes
  BY TypeParts
<1>1. ASSUME DiskTypes', DriverTypes', WorkerTypes' PROVE TypeOK'
  BY <1>1 DEF TypeOK, DiskTypes, DriverTypes, WorkerTypes
<1>2. phase \notin {"starting", "failed"} /\ UNCHANGED workers
  BY DEF OpenData, WriteData, OpenTracker, WriteTracker, RemoveFinal, BeginCopy, EndCopy
<1>3. global_steps \in StepNames /\ global_steps \in Nat \ {0} /\ WorkerTypes'
  BY <1>2, StepName, TypesKept
<1>4. ASSUME UNCHANGED << shards, run, updates, drawn >>, global_steps' = global_steps,
             tracker' \in {tracker, EmptyTracker, global_steps},
             phase' \notin {"starting", "failed", "loop", "update"}
      PROVE  CountInv'
  BY <1>2, <1>3, <1>4 DEF CountInv, workers, EmptyTracker, DriverTypes
<1>5. CASE OpenData \/ WriteData
  <2>1. PICK c \in {Torn, Now} : data' = [data EXCEPT ![global_steps] = c]
    BY <1>5 DEF OpenData, WriteData
  <2>2. /\ UNCHANGED << made, shards, tracker, final, config, run, updates, drawn >>
        /\ phase' \in {"data", "closing data", "finished", "closing tracker", "export", "tracker"}
        /\ global_steps' = global_steps
    BY <1>5 DEF OpenData, WriteData, driver
  <2>3. DiskTypes'
    BY <1>3, <2>1, <2>2, MissingFacts, NowFacts DEF DiskTypes
  <2>4. phase' \in Phases
    BY <2>2 DEF Phases
  <2>5. DriverTypes'
    BY <2>2, <2>4 DEF DriverTypes
  <2>6. CountInv'
    BY <1>4, <2>2
  <2> QED BY <1>1, <1>3, <2>3, <2>5, <2>6
<1>6. CASE OpenTracker \/ WriteTracker
  <2>1. /\ UNCHANGED << made, shards, data, final, config, run, updates, drawn >>
        /\ phase' \in {"closing tracker", "finished", "export", "tracker"}
        /\ global_steps' = global_steps /\ tracker' \in {EmptyTracker, global_steps}
    BY <1>6 DEF OpenTracker, WriteTracker, driver
  <2>2. DiskTypes'
    BY <1>3, <2>1 DEF DiskTypes
  <2>3. phase' \in Phases
    BY <2>1 DEF Phases
  <2>4. DriverTypes'
    BY <2>1, <2>3 DEF DriverTypes
  <2>5. CountInv'
    BY <1>4, <2>1
  <2> QED BY <1>1, <1>3, <2>2, <2>4, <2>5
<1>7. CASE RemoveFinal \/ BeginCopy
  <2>1. /\ UNCHANGED << made, shards, data, tracker, config, run, updates, drawn >>
        /\ phase' = "copy" /\ global_steps' = global_steps /\ final' \in {Missing, Torn}
    BY <1>7 DEF RemoveFinal, BeginCopy, driver
  <2>2. DiskTypes'
    BY <2>1, MissingFacts DEF DiskTypes
  <2>3. phase' \in Phases
    BY <2>1 DEF Phases
  <2>4. DriverTypes'
    BY <2>1, <2>3 DEF DriverTypes
  <2>5. CountInv'
    BY <1>4, <2>1
  <2> QED BY <1>1, <1>3, <2>2, <2>4, <2>5
<1>8. CASE EndCopy
  <2>1. /\ UNCHANGED << made, shards, data, tracker, config, run, updates, drawn >>
        /\ final' = Now /\ NextStep
    BY <1>8 DEF EndCopy
  <2>2. DiskTypes'
    BY <2>1, NowFacts DEF DiskTypes
  <2>3. /\ phase' \in {"finished", "loop"} /\ global_steps' >= global_steps
        /\ global_steps' \in Nat /\ global_steps' <= total_training_steps + run - 1
        /\ global_steps' <= total_training_steps + MaxRuns
        /\ phase' = "loop" => global_steps' = global_steps + 1
    BY <1>3, <2>1, NextStepFacts
  <2>4. phase' \in Phases
    BY <2>3 DEF Phases
  <2>5. global_steps' \in 0 .. total_training_steps + MaxRuns
    BY <2>3
  <2>6. DriverTypes'
    BY <2>1, <2>4, <2>5 DEF DriverTypes
  <2>7. CountInv'
    BY <1>2, <1>3, <2>1, <2>3 DEF CountInv, workers, DriverTypes
  <2> QED BY <1>1, <1>3, <2>2, <2>6, <2>7
<1> QED BY <1>5, <1>6, <1>7, <1>8

LEMMA TypeStep == TypeOK /\ CountInv /\ [Next]_vars => TypeOK' /\ CountInv'
<1> SUFFICES ASSUME TypeOK, CountInv, [Next]_vars PROVE TypeOK' /\ CountInv'
  OBVIOUS
<1>1. CASE UNCHANGED vars
  BY <1>1 DEF vars, disk, driver, workers, TypeOK, CountInv
<1> QED BY <1>1, StartTypes, LoopTypes, WorkerStepTypes, DriverSaveTypes DEF Next, DriverStep

\* Every variable has its type; in particular no step is numbered beyond the directories
\* a job can make, however often it is killed and started again.
THEOREM TypeCorrect == Spec => []TypeOK
BY TypeInit, TypeStep, PTL DEF Spec

-----------------------------------------------------------------------------
(* What a restart finds.                                                   *)

\* A checkpoint that is replaced by the next one is gone before the next one is there;
\* with room for two, or when nothing is removed, the last one stays.
KeepsTwo == \A c \in Configs : c.async_save \/ c.max_to_keep # 1

Running == phase \notin {"starting", "failed"}
WritingTracker == phase \in {"tracker", "closing tracker"}
Whole(n) == \E c \in Contents : CompleteAt(n, c)

\* A save in the background leaves the tracker alone for good.
AsyncInv == tracker = NoTracker /\ ~WritingTracker

\* The tracker is behind the step under way until that step is saved.
TrackerInv ==
    /\ phase \in {"loop", "update", "save", "closing save", "data", "closing data"}
          => 0 <= tracker /\ tracker < global_steps
    /\ WritingTracker => tracker < global_steps
    /\ phase \in {"export", "copy"} => tracker = global_steps
    /\ phase = "finished" => 0 <= tracker /\ tracker <= global_steps

\* All paths of the list but the last are older than what the tracker names.
PathInv ==
    /\ ~Running => previous_saved_paths = << >>
    /\ phase \in {"loop", "update", "save", "closing save"} =>
          \A i \in 1 .. Len(previous_saved_paths) :
             /\ previous_saved_paths[i] <= tracker
             /\ i < Len(previous_saved_paths) => previous_saved_paths[i] < tracker
    /\ phase \in {"data", "closing data", "tracker", "closing tracker", "export", "copy"} =>
          \A i \in 1 .. Len(previous_saved_paths) :
             /\ previous_saved_paths[i] <= global_steps
             /\ i < Len(previous_saved_paths) => previous_saved_paths[i] < global_steps

\* What a save has written so far.
ProgressInv ==
    /\ ~Saving => \A r \in Ranks : worker[r] = "idle"
    /\ Saving => \A r \in Ranks :
          /\ worker[r] \in {"ready", "writing", "written"} => global_steps \in made
          /\ worker[r] = "written" => shards[global_steps][r] = Now
    /\ phase \in {"data", "closing data", "tracker", "closing tracker", "export", "copy"} =>
          global_steps \in made /\ \A r \in Ranks : shards[global_steps][r] = Now
    /\ phase \in {"tracker", "closing tracker", "export", "copy"} => data[global_steps] = Now

\* The tracker names a whole checkpoint, or was cut when there was one.
WholeInv ==
    /\ tracker \in StepNames => Whole(tracker)
    /\ tracker = EmptyTracker => (WritingTracker \/ ~Running) /\ \E n \in StepNames : Whole(n)

\* The exported model is behind both the process and the checkpoint.
FinalInv ==
    IsFile(final) =>
        /\ tracker # NoTracker
        /\ tracker \in StepNames => data[tracker].updates >= final.updates
        /\ Running => updates >= final.updates

\* The first run makes its directories in order and finds none.
FirstInv ==
    run = 1 =>
        /\ ~Running => made = {} /\ tracker = NoTracker
        /\ Running => \A n \in made : n <= global_steps
        /\ phase \in {"loop", "update"} => \A n \in made : n < global_steps
        /\ phase = "finished" => tracker \in StepNames /\ data[tracker].updates = updates

\* Nothing is written in the background.
PendingInv == pending = {}

SyncInv == TrackerInv /\ PathInv /\ ProgressInv /\ WholeInv /\ FinalInv /\ FirstInv

IInv ==
    /\ TypeOK
    /\ CountInv
    /\ AsyncSave \/ MaxToKeep # 1
    /\ AsyncSave => AsyncInv
    /\ ~AsyncSave => PendingInv /\ SyncInv

LEMMA InvInit ==
    ASSUME KeepsTwo, Init
    PROVE  IInv
<1>1. TypeOK /\ CountInv
  BY TypeInit
<1>2. AsyncSave \/ MaxToKeep # 1
  BY DEF Init, KeepsTwo, AsyncSave, MaxToKeep
<1>3. /\ phase = "starting" /\ tracker = 0 /\ made = {} /\ previous_saved_paths = << >>
      /\ \A r \in Ranks : worker[r] = "idle"
      /\ final = Missing
  BY DEF Init, NoTracker
<1>4. AsyncInv
  BY <1>3 DEF AsyncInv, NoTracker, WritingTracker
<1>5. TrackerInv /\ PathInv /\ ProgressInv
  BY <1>3 DEF TrackerInv, PathInv, ProgressInv, WritingTracker, Running, Saving
<1>6. WholeInv /\ FinalInv /\ FirstInv
  BY <1>3, MissingFacts, Counts
     DEF WholeInv, FinalInv, FirstInv, StepNames, EmptyTracker, NoTracker, Running, IsFile
<1>7. PendingInv
  BY DEF Init, PendingInv
<1> QED BY <1>1, <1>2, <1>4, <1>5, <1>6, <1>7 DEF IInv, SyncInv

\* No step changes the configuration.
LEMMA ConfigKept == Next => config' = config
BY DEF Next, DriverStep, StartFromScratch, ResumeFrom, LoadFails, GenerateBatch, UpdateActor,
       LeaveLoop, WorkersDone, OpenData, WriteData, OpenTracker, WriteTracker, RemoveFinal,
       BeginCopy, EndCopy, WorkerStep, EnterSave, RemoveFile, MakeDirectory, OpenShard,
       WriteShard, ScheduleWrite, BackgroundWrite, StartAgain, disk, driver

LEMMA AsyncKept ==
    ASSUME Next, AsyncSave, AsyncInv
    PROVE  AsyncInv'
BY DEF AsyncInv, WritingTracker, NextStep,
       Next, DriverStep, StartFromScratch, ResumeFrom, LoadFails, GenerateBatch, UpdateActor,
       LeaveLoop, WorkersDone, OpenData, WriteData, OpenTracker, WriteTracker, RemoveFinal,
       BeginCopy, EndCopy, WorkerStep, EnterSave, RemoveFile, MakeDirectory, OpenShard,
       WriteShard, ScheduleWrite, BackgroundWrite, StartAgain, disk, driver

\* A save never removes what the tracker names, nor anything newer.
LEMMA DoomedIsOld ==
    ASSUME TypeOK, PathInv, Saving, MaxToKeep # 1
    PROVE  \A n \in Doomed : n \in StepNames /\ n < tracker
<1> SUFFICES ASSUME NEW n \in Doomed PROVE n \in StepNames /\ n < tracker
  OBVIOUS
<1>1. Rotation
  BY DEF Doomed
<1>2. PICK i \in 1 .. KeepStart : n = previous_saved_paths[i]
  BY <1>1 DEF Doomed
<1>3. MaxToKeep \in Nat
  BY TrainerAssumption DEF TypeOK, MaxToKeep, ConfigType
<1>4. Len(previous_saved_paths) \in Nat /\ previous_saved_paths \in Seq(StepNames)
  BY DEF TypeOK
<1>5. i \in 1 .. Len(previous_saved_paths) /\ i < Len(previous_saved_paths)
  BY <1>1, <1>3, <1>4 DEF Rotation, KeepStart
<1>6. previous_saved_paths[i] < tracker
  BY <1>5 DEF PathInv, Saving
<1>7. previous_saved_paths[i] \in StepNames
  BY <1>4, <1>5
<1> QED BY <1>2, <1>6, <1>7

\* Starts of a run read the disk and do not write to it.
LEMMA StartKept ==
    ASSUME TypeOK, CountInv, SyncInv,
           StartFromScratch \/ (\E n \in StepNames : ResumeFrom(n)) \/ LoadFails \/ StartAgain
    PROVE  SyncInv'
<1> USE Counts DEF SyncInv
<1>1. UNCHANGED disk /\ UNCHANGED << made, shards, data, tracker, final >>
  BY DEF StartFromScratch, ResumeFrom, LoadFails, StartAgain, disk
<1>2. (\E n \in StepNames : Whole(n)) => (\E n \in StepNames : Whole(n))'
  BY <1>1 DEF Whole, CompleteAt
<1>3. (tracker \in StepNames => Whole(tracker)) => (tracker \in StepNames => Whole(tracker))'
  BY <1>1 DEF Whole, CompleteAt
<1>4. tracker \in StepNames => tracker \in made
  BY DEF WholeInv, Whole, CompleteAt
<1>5. CASE StartFromScratch
  <2>1. /\ phase = "starting" /\ phase' = "loop" /\ global_steps' = 1 /\ tracker = NoTracker
        /\ UNCHANGED << run, updates, drawn, previous_saved_paths, worker, pending >>
    BY <1>4, <1>5 DEF StartFromScratch, TypeOK, workers
  <2>2. previous_saved_paths = << >> /\ \A r \in Ranks : worker[r] = "idle"
    BY <2>1 DEF PathInv, ProgressInv, Running, Saving
  <2>3. TrackerInv' /\ PathInv' /\ ProgressInv'
    BY <1>1, <2>1, <2>2
       DEF TrackerInv, PathInv, ProgressInv, NoTracker, WritingTracker, Running, Saving
  <2>4. WholeInv' /\ FinalInv' /\ FirstInv'
    BY <1>1, <1>3, <2>1
       DEF WholeInv, FinalInv, FirstInv, StepNames, NoTracker, EmptyTracker, Running, IsFile
  <2> QED BY <2>3, <2>4
<1>6. ASSUME NEW n \in StepNames, ResumeFrom(n) PROVE SyncInv'
  <2>1. /\ phase = "starting" /\ phase' = "loop" /\ global_steps' = n + 1 /\ tracker = n
        /\ drawn' = data[n].drawn
        /\ UNCHANGED << run, previous_saved_paths, worker, pending >>
    BY <1>6 DEF ResumeFrom, workers
  <2>2. PICK r \in Ranks : updates' = shards[n][r].updates
    BY <1>6 DEF ResumeFrom
  <2>3. updates' = data[n].updates
    BY <2>1, <2>2 DEF WholeInv, Whole, CompleteAt
  <2>4. previous_saved_paths = << >> /\ \A q \in Ranks : worker[q] = "idle"
    BY <2>1 DEF PathInv, ProgressInv, Running, Saving
  <2>5. n \in Nat \ {0}
    BY DEF StepNames
  <2>6. TrackerInv' /\ PathInv' /\ ProgressInv'
    BY <1>1, <2>1, <2>4, <2>5
       DEF TrackerInv, PathInv, ProgressInv, WritingTracker, Running, Saving
  <2>7. WholeInv' /\ FinalInv' /\ FirstInv'
    BY <1>1, <1>3, <2>1, <2>3, <2>5
       DEF WholeInv, FinalInv, FirstInv, NoTracker, EmptyTracker, Running, IsFile
  <2> QED BY <2>6, <2>7
<1>7. CASE LoadFails \/ StartAgain
  <2>1. /\ phase' \in {"starting", "failed"} /\ run' \in Nat /\ run' >= run
        /\ Running => run' # 1
        /\ run' = run \/ run' # 1
    BY <1>7 DEF LoadFails, StartAgain, Running, TypeOK
  <2>2. previous_saved_paths' = << >> /\ \A r \in Ranks : worker'[r] = "idle"
    BY <1>7 DEF LoadFails, StartAgain, PathInv, ProgressInv, Running, Saving, workers
  <2>3. TrackerInv' /\ PathInv' /\ ProgressInv'
    BY <2>1, <2>2
       DEF TrackerInv, PathInv, ProgressInv, WritingTracker, Running, Saving
  <2>4. WholeInv'
    BY <1>1, <1>2, <1>3, <2>1 DEF WholeInv, Running
  <2>5. FinalInv'
    BY <1>1, <2>1 DEF FinalInv, Running, IsFile
  <2>6. FirstInv'
    BY <1>1, <2>1 DEF FirstInv, Running, TypeOK
  <2> QED BY <2>3, <2>4, <2>5, <2>6
<1> QED BY <1>5, <1>6, <1>7

LEMMA Numbers ==
    ASSUME TypeOK
    PROVE  /\ global_steps \in Nat /\ updates \in Nat /\ run \in Nat \ {0}
           /\ tracker \in Int /\ (tracker # EmptyTracker => tracker \in Nat)
           /\ (tracker >= 0 => tracker \in Nat /\ tracker # EmptyTracker)
           /\ \A n \in StepNames : n \in Nat \ {0}
           /\ final.updates \in Int
BY Counts DEF TypeOK, StepNames, NoTracker, EmptyTracker, Contents

\* What is whole stays so as long as its files do.
LEMMA WholeKept ==
    ASSUME NEW n \in StepNames, Whole(n), made \subseteq made',
           shards'[n] = shards[n], data'[n] = data[n]
    PROVE  Whole(n)'
BY DEF Whole, CompleteAt

LEMMA LoopKept ==
    ASSUME TypeOK, CountInv, SyncInv, ~AsyncSave, GenerateBatch \/ UpdateActor \/ LeaveLoop
    PROVE  SyncInv'
<1> USE DEF SyncInv
<1>1. UNCHANGED << made, shards, data, tracker, final >>
  BY DEF GenerateBatch, UpdateActor, LeaveLoop, disk
<1>2. /\ phase \in {"loop", "update"}
      /\ UNCHANGED << run, previous_saved_paths, worker, pending >>
  BY DEF GenerateBatch, UpdateActor, LeaveLoop, workers
<1>3. global_steps \in Nat /\ global_steps >= 1 /\ global_steps \in StepNames
  BY <1>2, StepName
<1>4. 0 <= tracker /\ tracker < global_steps /\ tracker \in Nat /\ tracker # EmptyTracker
  BY <1>2, Numbers DEF TrackerInv
<1>5. \/ GenerateBatch /\ phase' \in {"loop", "update"} /\ UNCHANGED << global_steps, updates >>
      \/ UpdateActor /\ updates' = updates + 1 /\ phase' = "save" /\ UNCHANGED global_steps
      \/ UpdateActor /\ updates' = updates + 1 /\ ~SaveDue /\ NextStep
      \/ LeaveLoop /\ phase' \in {"finished", "closing save"}
         /\ UNCHANGED << global_steps, updates >>
  BY DEF GenerateBatch, UpdateActor, LeaveLoop
<1>6. ~SaveDue /\ NextStep => phase' = "loop" /\ global_steps' = global_steps + 1
  BY DEF SaveDue, NextStep
<1>7. /\ phase' \in {"loop", "update", "save", "closing save", "finished"}
      /\ phase' # "loop" => global_steps' = global_steps
  BY <1>5, <1>6
<1>8. global_steps' = global_steps \/ global_steps' = global_steps + 1
  BY <1>5, <1>6
<1>9. updates' = updates \/ updates' = updates + 1
  BY <1>5
<1>10. updates \in Nat /\ updates' \in Nat
  BY <1>9, Numbers
<1>11. updates' >= updates
  BY <1>9, <1>10, SMT
<1>12. global_steps' \in Nat /\ global_steps \in Nat
  BY <1>8, <1>3
<1>13. global_steps' >= global_steps
  BY <1>8, <1>12
<1>14. TrackerInv'
  <2>1. 0 <= tracker /\ tracker < global_steps'
    BY <1>4, <1>12, <1>13
  <2>2. 0 <= tracker /\ tracker <= global_steps'
    BY <1>4, <1>12, <2>1
  <2>3. phase' \in {"loop", "update", "save", "closing save", "finished"}
    BY <1>7
  <2> QED BY <1>1, <2>1, <2>2, <2>3 DEF TrackerInv, WritingTracker
<1>15. PathInv'
  BY <1>1, <1>2, <1>7 DEF PathInv, Running
<1>16. ProgressInv'
  <2>1. \A r \in Ranks : worker'[r] = "idle"
    BY <1>2 DEF ProgressInv, Saving
  <2> QED BY <1>7, <2>1 DEF ProgressInv, Saving
<1>17. WholeInv'
  <2>1. tracker \in StepNames => Whole(tracker)'
    BY <1>1, WholeKept DEF WholeInv
  <2> QED BY <1>1, <1>4, <2>1 DEF WholeInv, EmptyTracker, Whole, CompleteAt
<1>18. FinalInv'
  <2>1. final.updates \in Int
    BY DEF TypeOK, Contents
  <2>2. Running
    BY <1>2 DEF Running
  <2> QED BY <1>1, <1>9, <1>10, <1>11, <2>1, <2>2, Numbers DEF FinalInv, IsFile
<1>19. FirstInv'
  <2>1. ASSUME run = 1, NEW n \in made PROVE n < global_steps /\ n \in Nat
    <3>1. n \in Nat
      BY Numbers DEF TypeOK
    <3>2. n < global_steps
      BY <1>2, <2>1 DEF FirstInv
    <3> QED BY <3>1, <3>2
  <2>2. run = 1 => phase' # "finished"
    <3>1. ASSUME run = 1 PROVE global_steps \notin made
      <4> SUFFICES ASSUME global_steps \in made PROVE FALSE
        OBVIOUS
      <4>1. global_steps < global_steps
        BY <2>1, <3>1
      <4> QED BY <1>3, <4>1
    <3>2. LeaveLoop /\ run = 1 => phase' = "closing save"
      BY <3>1 DEF LeaveLoop
    <3> QED BY <1>5, <1>6, <3>2
  <2>3. Running'
    BY <1>7 DEF Running
  <2>4. ASSUME run = 1, NEW n \in made PROVE n < global_steps' /\ n <= global_steps'
    <3>1. n \in Nat /\ n < global_steps
      BY <2>1, <2>4
    <3> QED BY <1>3, <1>12, <1>13, <3>1
  <2> QED BY <1>1, <1>2, <2>2, <2>3, <2>4 DEF FirstInv
<1> QED BY <1>14, <1>15, <1>16, <1>17, <1>18, <1>19

\* The workers remove old files and write those of the step under way.
LEMMA WorkersKept ==
    ASSUME TypeOK, CountInv, SyncInv, ~AsyncSave, MaxToKeep # 1,
           NEW r \in Ranks, WorkerStep(r)
    PROVE  /\ SyncInv'
           /\ \A n \in StepNames : n = tracker => shards'[n] = shards[n]
<1> USE DEF SyncInv
<1>1. /\ Saving /\ Running
      /\ UNCHANGED << data, tracker, final, config, run, phase, global_steps, updates, drawn,
                      previous_saved_paths >>
  BY DEF WorkerStep, EnterSave, RemoveFile, MakeDirectory, OpenShard, WriteShard, ScheduleWrite,
         disk, driver, workers, Saving, Running
<1>2. global_steps \in StepNames /\ global_steps \in Nat /\ global_steps >= 1
  BY <1>1, StepName DEF Running
<1>3. 0 <= tracker /\ tracker < global_steps /\ tracker \in Nat /\ tracker # EmptyTracker
  BY <1>1, Numbers DEF TrackerInv, Saving
<1>4. Doomed \subseteq StepNames /\ \A n \in Doomed : n < tracker
  BY <1>1, DoomedIsOld
<1>5. made' \in {made, made \cup {global_steps}}
  BY DEF WorkerStep, EnterSave, RemoveFile, MakeDirectory, OpenShard, WriteShard, ScheduleWrite,
         disk
<1>6. \A n \in StepNames : n = tracker => shards'[n] = shards[n]
  <2>1. CASE RemoveFile(r)
    <3>1. PICK f \in LeftOver : shards' = [shards EXCEPT ![f[1]][f[2]] = Missing]
      BY <2>1 DEF RemoveFile
    <3>2. f[1] \in Doomed
      BY DEF LeftOver
    <3>3. f[1] # tracker
      BY <1>3, <1>4, <3>2 DEF StepNames
    <3> QED BY <3>1, <3>3 DEF TypeOK
  <2>2. CASE OpenShard(r) \/ WriteShard(r)
    BY <1>2, <1>3, <2>2 DEF OpenShard, WriteShard, TypeOK
  <2> QED BY <2>1, <2>2 DEF WorkerStep, EnterSave, MakeDirectory, ScheduleWrite, disk
<1>7. TrackerInv' /\ PathInv'
  BY <1>1 DEF TrackerInv, PathInv, WritingTracker, Running
<1>8. WholeInv'
  <2>1. tracker \in StepNames => Whole(tracker)'
    BY <1>1, <1>5, <1>6, WholeKept DEF WholeInv
  <2> QED BY <1>1, <1>3, <2>1 DEF WholeInv, EmptyTracker, Whole, CompleteAt
<1>9. FinalInv'
  BY <1>1 DEF FinalInv, Running
<1>10. FirstInv'
  <2>1. run = 1 => \A n \in made' : n <= global_steps
    BY <1>1, <1>2, <1>5 DEF FirstInv
  <2> QED BY <1>1, <2>1 DEF FirstInv, Running, Saving
<1>11. ProgressInv'
  <2>1. Saving' /\ ~(phase' \in {"data", "closing data", "tracker", "closing tracker", "export",
                                 "copy"}) /\ Now' = Now /\ global_steps' = global_steps
    BY <1>1 DEF Saving, Now, Content
  <2>2. /\ \A q \in Ranks : worker'[q] \in {"ready", "writing", "written"}
                               => global_steps \in made'
        /\ \A q \in Ranks : worker'[q] = "written" => shards'[global_steps][q] = Now
    <3>0. /\ \A q \in Ranks : worker[q] \in {"ready", "writing", "written"}
                                 => global_steps \in made
          /\ \A q \in Ranks : worker[q] = "written" => shards[global_steps][q] = Now
          /\ worker \in [Ranks -> {"idle", "rotate", "ready", "writing", "written"}]
          /\ shards \in [StepNames -> [Ranks -> Contents]]
      BY <1>1 DEF ProgressInv, TypeOK
    <3>1. CASE EnterSave(r)
      BY <3>0, <3>1 DEF EnterSave, disk
    <3>2. CASE RemoveFile(r)
      <4>1. PICK f \in LeftOver : shards' = [shards EXCEPT ![f[1]][f[2]] = Missing]
        BY <3>2 DEF RemoveFile
      <4>2. f[1] \in Doomed
        BY DEF LeftOver
      <4>3. f[1] # global_steps
        BY <1>2, <1>3, <1>4, <4>2 DEF StepNames
      <4>4. shards'[global_steps] = shards[global_steps]
        BY <1>2, <3>0, <4>1, <4>3
      <4> QED BY <3>0, <3>2, <4>4 DEF RemoveFile, workers
    <3>3. CASE MakeDirectory(r)
      BY <3>0, <3>3 DEF MakeDirectory
    <3>4. CASE OpenShard(r)
      BY <3>0, <3>4, <1>2 DEF OpenShard
    <3>5. CASE WriteShard(r)
      BY <3>0, <3>5, <1>2 DEF WriteShard
    <3> QED BY <3>1, <3>2, <3>3, <3>4, <3>5 DEF WorkerStep, ScheduleWrite
  <2> QED BY <2>1, <2>2 DEF ProgressInv
<1> QED BY <1>6, <1>7, <1>8, <1>9, <1>10, <1>11

\* The call returns when every shard of the step is there.
LEMMA ReturnKept ==
    ASSUME TypeOK, CountInv, SyncInv, ~AsyncSave, MaxToKeep # 1, WorkersDone
    PROVE  SyncInv'
<1> USE DEF SyncInv
<1>1. /\ Saving /\ phase' \in {"data", "closing data"}
      /\ UNCHANGED << made, shards, data, tracker, final, config, run, global_steps, updates, drawn,
                      pending >>
      /\ worker' = [r \in Ranks |-> "idle"]
      /\ \A r \in Ranks : worker[r] = "written"
  BY DEF WorkersDone, disk
<1>2. global_steps \in StepNames /\ global_steps \in Nat
  BY <1>1, StepName DEF Saving
<1>3. 0 <= tracker /\ tracker < global_steps /\ tracker \in Nat /\ tracker # EmptyTracker
  BY <1>1, Numbers DEF TrackerInv, Saving
<1>4. Running /\ Running' /\ ~Saving' /\ ~WritingTracker'
  BY <1>1 DEF Running, Saving, WritingTracker
<1>5. TrackerInv'
  BY <1>1, <1>3, <1>4 DEF TrackerInv
<1>6. PathInv'
  <2>1. MaxToKeep \in Nat /\ previous_saved_paths \in Seq(StepNames)
    BY TrainerAssumption DEF TypeOK, MaxToKeep, ConfigType
  <2>2. PICK q : q = IF Rotation THEN SubSeq(previous_saved_paths, KeepStart + 1,
                                             Len(previous_saved_paths))
                     ELSE previous_saved_paths
    OBVIOUS
  <2>3. Rotation => KeepStart \in Nat /\ KeepStart <= Len(previous_saved_paths)
    BY <2>1 DEF Rotation, KeepStart
  <2>4. \A i \in 1 .. Len(previous_saved_paths) : /\ previous_saved_paths[i] < global_steps
                                                  /\ previous_saved_paths[i] \in StepNames
    <3> SUFFICES ASSUME NEW i \in 1 .. Len(previous_saved_paths)
                 PROVE  /\ previous_saved_paths[i] < global_steps
                        /\ previous_saved_paths[i] \in StepNames
      OBVIOUS
    <3>1. previous_saved_paths[i] \in StepNames
      BY <2>1
    <3>2. previous_saved_paths[i] <= tracker
      BY <1>1 DEF PathInv, Saving
    <3>3. previous_saved_paths[i] \in Nat
      BY <3>1, Numbers
    <3> QED BY <1>2, <1>3, <3>1, <3>2, <3>3
  <2>5. q \in Seq(StepNames) /\ \A i \in 1 .. Len(q) : q[i] < global_steps
    <3>1. CASE Rotation
      <4>1. PICK k : k = KeepStart
        OBVIOUS
      <4>2. k \in Nat /\ k <= Len(previous_saved_paths)
            /\ q = SubSeq(previous_saved_paths, k + 1, Len(previous_saved_paths))
        BY <2>2, <2>3, <3>1, <4>1
      <4>3. /\ q \in Seq(StepNames)
            /\ Len(q) = Len(previous_saved_paths) - k
            /\ \A i \in 1 .. Len(q) : q[i] = previous_saved_paths[i + k]
        BY <2>1, <4>2
      <4>4. Len(previous_saved_paths) \in Nat
        BY <2>1
      <4>5. \A i \in 1 .. Len(q) : i + k \in 1 .. Len(previous_saved_paths)
        BY <4>2, <4>3, <4>4
      <4> QED BY <2>4, <4>3, <4>5
    <3>2. CASE ~Rotation
      BY <2>1, <2>2, <2>4, <3>2
    <3> QED BY <3>1, <3>2
  <2>6. previous_saved_paths' = Append(q, global_steps)
    BY <2>2 DEF WorkersDone
  <2>7. \A i \in 1 .. Len(previous_saved_paths') :
           /\ previous_saved_paths'[i] <= global_steps
           /\ i < Len(previous_saved_paths') => previous_saved_paths'[i] < global_steps
    <3>1. /\ Len(previous_saved_paths') = Len(q) + 1 /\ Len(q) \in Nat
          /\ previous_saved_paths'[Len(q) + 1] = global_steps
          /\ \A i \in 1 .. Len(q) : previous_saved_paths'[i] = q[i]
      BY <1>2, <2>5, <2>6
    <3>2. \A i \in 1 .. Len(q) : q[i] \in StepNames
      BY <2>5
    <3> QED BY <1>2, <2>5, <3>1, <3>2 DEF StepNames
  <2> QED BY <1>1, <1>4, <2>7 DEF PathInv
<1>7. ProgressInv'
  <2>1. global_steps \in made /\ \A r \in Ranks : shards[global_steps][r] = Now
    BY <1>1, TrainerAssumption DEF ProgressInv
  <2>2. Now' = Now
    BY <1>1 DEF Now, Content
  <2> QED BY <1>1, <1>4, <2>1, <2>2 DEF ProgressInv
<1>8. WholeInv'
  <2>1. tracker \in StepNames => Whole(tracker)'
    BY <1>1, WholeKept DEF WholeInv
  <2> QED BY <1>1, <1>3, <2>1 DEF WholeInv, EmptyTracker, Whole, CompleteAt
<1>9. FinalInv'
  BY <1>1, <1>4 DEF FinalInv
<1>10. FirstInv'
  BY <1>1, <1>4 DEF FirstInv
<1> QED BY <1>5, <1>6, <1>7, <1>8, <1>9, <1>10

\* The driver writes the dataloader, then the tracker, then the exported model.
LEMMA DataKept ==
    ASSUME TypeOK, CountInv, SyncInv, ~AsyncSave, OpenData \/ WriteData
    PROVE  /\ SyncInv'
           /\ \A n \in StepNames : n = tracker => data'[n] = data[n]
<1> USE DEF SyncInv
<1>1. /\ phase \in {"data", "closing data"}
      /\ UNCHANGED << made, shards, tracker, final, config, run, global_steps, updates, drawn,
                      previous_saved_paths, worker, pending >>
  BY DEF OpenData, WriteData, driver, workers
<1>2. phase' \in {"data", "closing data", "tracker", "closing tracker"}
  BY <1>1 DEF OpenData, WriteData, driver
<1>3. Running /\ ~Saving
  BY <1>1 DEF Running, Saving
<1>4. Running' /\ ~Saving'
  BY <1>2 DEF Running, Saving
<1>5. PICK c \in {Torn, Now} :
         /\ data' = [data EXCEPT ![global_steps] = c]
         /\ \/ phase' = phase
            \/ /\ c = Now
               /\ phase' = IF Closing THEN "closing tracker" ELSE "tracker"
  BY DEF OpenData, WriteData, driver
<1>6. global_steps \in StepNames /\ global_steps \in Nat
  BY <1>1, StepName
<1>7. 0 <= tracker /\ tracker < global_steps /\ tracker \in Nat /\ tracker # EmptyTracker
  BY <1>1, Numbers DEF TrackerInv
<1>8. \A n \in StepNames : n = tracker => data'[n] = data[n]
  <2> SUFFICES ASSUME NEW n \in StepNames, n = tracker PROVE data'[n] = data[n]
    OBVIOUS
  <2>1. n # global_steps
    BY <1>6, <1>7
  <2>2. data \in [StepNames -> Contents]
    BY DEF TypeOK
  <2> QED BY <1>5, <2>1, <2>2
<1>9. data'[global_steps] = c
  BY <1>5, <1>6 DEF TypeOK
<1>10. TrackerInv' /\ PathInv'
  BY <1>1, <1>7, <1>2, <1>3, <1>4 DEF TrackerInv, PathInv, WritingTracker
<1>11. ProgressInv'
  <2>1. Now' = Now
    BY <1>1 DEF Now, Content
  <2>2. phase' \in {"tracker", "closing tracker", "export", "copy"} => c = Now
    BY <1>1, <1>5
  <2> QED BY <1>1, <1>2, <1>9, <1>3, <1>4, <2>1, <2>2 DEF ProgressInv
<1>12. WholeInv'
  <2>1. tracker \in StepNames => Whole(tracker)'
    BY <1>1, <1>8, WholeKept DEF WholeInv
  <2> QED BY <1>1, <1>7, <2>1 DEF WholeInv, Whole, CompleteAt
<1>13. FinalInv'
  <2>1. tracker \in StepNames => data'[tracker] = data[tracker]
    BY <1>8
  <2> QED BY <1>1, <1>3, <1>4, <2>1 DEF FinalInv, IsFile
<1>14. FirstInv'
  BY <1>1, <1>2, <1>3, <1>4 DEF FirstInv
<1> QED BY <1>8, <1>10, <1>11, <1>12, <1>13, <1>14

LEMMA TrackerKept ==
    ASSUME TypeOK, CountInv, SyncInv, ~AsyncSave, OpenTracker \/ WriteTracker
    PROVE  SyncInv'
<1> USE DEF SyncInv
<1>1. /\ WritingTracker
      /\ UNCHANGED << made, shards, data, final, config, run, global_steps, updates, drawn,
                      previous_saved_paths, worker, pending >>
  BY DEF OpenTracker, WriteTracker, driver, workers, WritingTracker
<1>2. global_steps \in StepNames /\ global_steps \in Nat
  BY <1>1, StepName DEF WritingTracker
<1>3. /\ global_steps \in made /\ \A r \in Ranks : shards[global_steps][r] = Now
      /\ data[global_steps] = Now
  BY <1>1 DEF ProgressInv, WritingTracker
<1>4. Whole(global_steps) /\ Now.updates = updates /\ Now' = Now
  <2>1. IsFile(Now) /\ Now \in Contents /\ Now.updates = updates
    BY NowFacts
  <2> QED BY <1>1, <1>3, <2>1 DEF Whole, CompleteAt, Now, Content
<1>5. Whole(global_steps)'
  BY <1>1, <1>2, <1>4, WholeKept
<1>6. Running /\ ~Saving
  BY <1>1 DEF Running, Saving, WritingTracker
<1>7. CASE OpenTracker
  <2>1. tracker' = EmptyTracker /\ phase' = phase
    BY <1>7 DEF OpenTracker, driver
  <2>2. -1 < global_steps
    BY <1>2
  <2>3. TrackerInv'
    BY <1>1, <2>1, <2>2 DEF TrackerInv, EmptyTracker, WritingTracker
  <2>4. PathInv'
    BY <1>1, <2>1 DEF PathInv, Running, WritingTracker
  <2>8. ProgressInv'
    BY <1>1, <1>4, <2>1 DEF ProgressInv, Saving
  <2>5. WholeInv'
    <3>1. tracker' \notin StepNames
      BY <2>1, Numbers DEF EmptyTracker
    <3>2. WritingTracker'
      BY <1>1, <2>1 DEF WritingTracker
    <3>3. (\E n \in StepNames : Whole(n))'
      BY <1>1, <1>2, <1>5 DEF Whole, CompleteAt
    <3> QED BY <3>1, <3>2, <3>3 DEF WholeInv
  <2>6. FinalInv'
    BY <1>1, <1>6, <2>1, Counts
       DEF FinalInv, EmptyTracker, NoTracker, StepNames, Running, IsFile
  <2>7. FirstInv'
    BY <1>1, <1>6, <2>1 DEF FirstInv, Running, WritingTracker
  <2> QED BY <2>3, <2>4, <2>5, <2>6, <2>7, <2>8
<1>8. CASE WriteTracker
  <2>1. tracker' = global_steps /\ phase' \in {"finished", "export"}
    BY <1>8 DEF WriteTracker
  <2>2. Running' /\ ~Saving' /\ ~WritingTracker'
    BY <2>1 DEF Running, Saving, WritingTracker
  <2>3. TrackerInv'
    <3>1. 0 <= tracker' /\ tracker' <= global_steps' /\ tracker' = global_steps'
      BY <1>1, <1>2, <2>1
    <3> QED BY <2>1, <2>2, <3>1 DEF TrackerInv
  <2>4. PathInv'
    BY <1>1, <2>1, <2>2 DEF PathInv, WritingTracker
  <2>5. ProgressInv'
    BY <1>1, <1>3, <1>4, <1>6, <2>1, <2>2 DEF ProgressInv
  <2>6. WholeInv'
    BY <1>1, <1>2, <1>5, <2>1, Numbers DEF WholeInv, EmptyTracker, StepNames, Whole, CompleteAt
  <2>7. FinalInv'
    <3>1. IsFile(final) => updates >= final.updates
      BY <1>6 DEF FinalInv
    <3>2. data'[tracker'].updates = updates
      BY <1>1, <1>3, <1>4, <2>1
    <3>3. tracker' # NoTracker
      BY <1>2, <2>1, Numbers DEF NoTracker
    <3> QED BY <1>1, <3>1, <3>2, <3>3 DEF FinalInv, IsFile
  <2>8. FirstInv'
    <3>1. data'[tracker'].updates = updates'
      BY <1>1, <1>3, <1>4, <2>1
    <3> QED BY <1>1, <1>2, <1>6, <2>1, <2>2, <3>1 DEF FirstInv
  <2> QED BY <2>3, <2>4, <2>5, <2>6, <2>7, <2>8
<1> QED BY <1>7, <1>8

LEMMA ExportKept ==
    ASSUME TypeOK, CountInv, SyncInv, ~AsyncSave, RemoveFinal \/ BeginCopy \/ EndCopy
    PROVE  SyncInv'
<1> USE DEF SyncInv
<1>1. /\ phase \in {"export", "copy"}
      /\ UNCHANGED << made, shards, data, tracker, config, run, updates, drawn,
                      previous_saved_paths, worker, pending >>
  BY DEF RemoveFinal, BeginCopy, EndCopy, driver, workers
<1>2. /\ global_steps \in StepNames /\ global_steps \in Nat /\ tracker = global_steps
      /\ data[global_steps] = Now /\ Now.updates = updates
  BY <1>1, StepName, NowFacts DEF TrackerInv, ProgressInv
<1>3. Running /\ ~Saving /\ ~WritingTracker
  BY <1>1 DEF Running, Saving, WritingTracker
<1>4. WholeInv'
  <2>1. Whole(tracker)'
    BY <1>1, <1>2, WholeKept DEF WholeInv
  <2>2. tracker # EmptyTracker
    BY <1>2, Numbers DEF EmptyTracker
  <2> QED BY <1>1, <2>1, <2>2 DEF WholeInv, Whole, CompleteAt
<1>5. CASE RemoveFinal \/ BeginCopy
  <2>1. /\ phase' = "copy" /\ global_steps' = global_steps /\ ~IsFile(final)'
    BY <1>5, MissingFacts DEF RemoveFinal, BeginCopy, driver, IsFile
  <2>2. Now' = Now
    BY <1>1, <2>1 DEF Now, Content
  <2>3. TrackerInv' /\ PathInv'
    BY <1>1, <1>2, <1>3, <2>1 DEF TrackerInv, PathInv, Running, WritingTracker
  <2>4. ProgressInv'
    BY <1>1, <1>3, <2>1, <2>2 DEF ProgressInv, Saving
  <2>5. FinalInv' /\ FirstInv'
    BY <1>1, <1>3, <2>1 DEF FinalInv, FirstInv, Running, IsFile
  <2> QED BY <1>4, <2>3, <2>4, <2>5
<1>6. CASE EndCopy
  <2>1. final' = Now /\ NextStep
    BY <1>6 DEF EndCopy
  <2>2. \/ phase' = "finished" /\ global_steps' = global_steps
        \/ phase' = "loop" /\ global_steps' = global_steps + 1
    BY <2>1 DEF NextStep
  <2>3. Running' /\ ~Saving' /\ ~WritingTracker'
    BY <2>2 DEF Running, Saving, WritingTracker
  <2>4. 0 <= tracker /\ tracker <= global_steps /\ tracker < global_steps + 1
    BY <1>2
  <2>5. TrackerInv'
    BY <1>1, <2>2, <2>3, <2>4 DEF TrackerInv
  <2>6. PathInv'
    BY <1>1, <1>2, <2>2, <2>3 DEF PathInv
  <2>7. ProgressInv'
    BY <1>1, <1>3, <2>2, <2>3 DEF ProgressInv
  <2>8. FinalInv'
    <3>1. data'[tracker'].updates = final'.updates /\ updates' = final'.updates
      BY <1>1, <1>2, <2>1
    <3>2. tracker' # NoTracker
      BY <1>1, <1>2, Numbers DEF NoTracker
    <3>3. final'.updates \in Int
      BY <1>1, <3>1, Numbers
    <3> QED BY <3>1, <3>2, <3>3 DEF FinalInv
  <2>9. FirstInv'
    <3>1. data'[tracker'].updates = updates'
      BY <1>1, <1>2
    <3>2. ASSUME run = 1, NEW n \in made
          PROVE  n <= global_steps /\ n < global_steps + 1 /\ n <= global_steps + 1
      <4>1. n <= global_steps /\ n \in Nat
        BY <1>3, <3>2, Numbers DEF FirstInv, TypeOK
      <4> QED BY <1>2, <4>1
    <3> QED BY <1>1, <1>2, <2>2, <2>3, <3>1, <3>2 DEF FirstInv
  <2> QED BY <1>4, <2>5, <2>6, <2>7, <2>8, <2>9
<1> QED BY <1>5, <1>6

LEMMA SyncStep ==
    ASSUME TypeOK, CountInv, PendingInv, SyncInv, ~AsyncSave, MaxToKeep # 1, Next
    PROVE  /\ SyncInv'
           /\ \A n \in StepNames : n = tracker => shards'[n] = shards[n] /\ data'[n] = data[n]
<1>1. CASE StartFromScratch \/ (\E n \in StepNames : ResumeFrom(n)) \/ LoadFails \/ StartAgain
  <2>1. UNCHANGED << shards, data >>
    BY <1>1 DEF StartFromScratch, ResumeFrom, LoadFails, StartAgain, disk
  <2> QED BY <1>1, <2>1, StartKept
<1>2. CASE GenerateBatch \/ UpdateActor \/ LeaveLoop
  <2>1. UNCHANGED << shards, data >>
    BY <1>2 DEF GenerateBatch, UpdateActor, LeaveLoop, disk
  <2> QED BY <1>2, <2>1, LoopKept
<1>3. ASSUME NEW r \in Ranks, WorkerStep(r)
      PROVE  /\ SyncInv'
             /\ \A n \in StepNames : n = tracker => shards'[n] = shards[n] /\ data'[n] = data[n]
  <2>1. UNCHANGED data
    BY <1>3 DEF WorkerStep, EnterSave, RemoveFile, MakeDirectory, OpenShard, WriteShard,
                ScheduleWrite, disk
  <2> QED BY <1>3, <2>1, WorkersKept
<1>4. CASE WorkersDone
  <2>1. UNCHANGED << shards, data >>
    BY <1>4 DEF WorkersDone, disk
  <2> QED BY <1>4, <2>1, ReturnKept
<1>5. CASE OpenData \/ WriteData
  <2>1. UNCHANGED shards
    BY <1>5 DEF OpenData, WriteData
  <2> QED BY <1>5, <2>1, DataKept
<1>6. CASE OpenTracker \/ WriteTracker
  <2>1. UNCHANGED << shards, data >>
    BY <1>6 DEF OpenTracker, WriteTracker
  <2> QED BY <1>6, <2>1, TrackerKept
<1>7. CASE RemoveFinal \/ BeginCopy \/ EndCopy
  <2>1. UNCHANGED << shards, data >>
    BY <1>7 DEF RemoveFinal, BeginCopy, EndCopy
  <2> QED BY <1>7, <2>1, ExportKept
<1>8. pending = {}
  BY DEF PendingInv
<1> QED BY <1>1, <1>2, <1>3, <1>4, <1>5, <1>6, <1>7, <1>8 DEF Next, DriverStep

LEMMA PendingKept ==
    ASSUME PendingInv, ~AsyncSave, Next
    PROVE  PendingInv'
<1>1. CASE StartAgain
  BY <1>1 DEF StartAgain, PendingInv
<1>2. CASE DriverStep
  BY <1>2 DEF PendingInv, DriverStep, StartFromScratch, ResumeFrom, LoadFails, GenerateBatch,
              UpdateActor, LeaveLoop, WorkersDone, OpenData, WriteData, OpenTracker, WriteTracker,
              RemoveFinal, BeginCopy, EndCopy, workers
<1>3. ASSUME NEW r \in Ranks, WorkerStep(r) PROVE PendingInv'
  BY <1>3 DEF PendingInv, WorkerStep, EnterSave, RemoveFile, MakeDirectory, OpenShard, WriteShard,
              ScheduleWrite, workers
<1> QED BY <1>1, <1>2, <1>3 DEF Next, PendingInv

LEMMA InvStep == IInv /\ [Next]_vars => IInv'
<1> SUFFICES ASSUME IInv, [Next]_vars PROVE IInv'
  OBVIOUS
<1>1. CASE UNCHANGED vars
  <2> USE <1>1 DEF vars, disk, driver, workers
  <2>1. TypeOK' /\ CountInv'
    BY TypeStep DEF IInv
  <2>2. TrackerInv /\ PathInv => TrackerInv' /\ PathInv'
    BY DEF TrackerInv, PathInv, Running, WritingTracker
  <2>3. ProgressInv => ProgressInv'
    BY DEF ProgressInv, Saving, Now, Content
  <2>4. WholeInv => WholeInv'
    BY DEF WholeInv, Whole, CompleteAt, Running, WritingTracker
  <2>5. FinalInv /\ FirstInv => FinalInv' /\ FirstInv'
    BY DEF FinalInv, FirstInv, Running, IsFile
  <2>6. AsyncInv => AsyncInv'
    BY DEF AsyncInv, WritingTracker
  <2> QED BY <2>1, <2>2, <2>3, <2>4, <2>5, <2>6
          DEF IInv, SyncInv, PendingInv, AsyncSave, MaxToKeep
<1>2. CASE Next
  <2>1. TypeOK' /\ CountInv'
    BY TypeStep DEF IInv
  <2>2. AsyncSave' = AsyncSave /\ MaxToKeep' = MaxToKeep
    BY <1>2, ConfigKept DEF AsyncSave, MaxToKeep
  <2>3. AsyncSave => AsyncInv'
    BY <1>2, AsyncKept DEF IInv
  <2>4. ~AsyncSave => PendingInv' /\ SyncInv'
    BY <1>2, SyncStep, PendingKept DEF IInv
  <2> QED BY <2>1, <2>2, <2>3, <2>4 DEF IInv
<1> QED BY <1>1, <1>2 DEF vars

\* At every moment a kill can come, the checkpoint the tracker names is whole: all its
\* shards and its dataloader are there and of one moment of one run.
THEOREM TrackedCanBeLoaded == KeepsTwo => (Spec => []TrackedIsComplete)
<1> SUFFICES ASSUME KeepsTwo PROVE Spec => []TrackedIsComplete
  OBVIOUS
<1>1. Init => IInv
  BY InvInit
<1>2. IInv => TrackedIsComplete
  <2> SUFFICES ASSUME IInv, tracker \in StepNames PROVE \E c \in Contents : CompleteAt(tracker, c)
    BY DEF TrackedIsComplete
  <2>1. CASE AsyncSave
    BY <2>1, Numbers DEF IInv, AsyncInv, NoTracker
  <2>2. CASE ~AsyncSave
    BY <2>2 DEF IInv, SyncInv, WholeInv, Whole
  <2> QED BY <2>1, <2>2
<1> QED BY <1>1, <1>2, InvStep, PTL DEF Spec

\* Once there is a tracked checkpoint there is always a whole one, also while the tracker
\* is cut and after a load that failed.
THEOREM AlwaysSomethingToResume == KeepsTwo => (Spec => []SomethingToResume)
<1> SUFFICES ASSUME KeepsTwo PROVE Spec => []SomethingToResume
  OBVIOUS
<1>1. Init => IInv
  BY InvInit
<1>2. IInv => SomethingToResume
  <2> SUFFICES ASSUME IInv, tracker # NoTracker
               PROVE  \E n \in StepNames, c \in Contents : CompleteAt(n, c)
    BY DEF SomethingToResume
  <2>1. ~AsyncSave /\ WholeInv
    BY DEF IInv, AsyncInv, SyncInv
  <2>2. tracker \in StepNames \/ tracker = EmptyTracker
    BY DEF IInv, TypeOK
  <2> QED BY <2>1, <2>2 DEF WholeInv, Whole
<1> QED BY <1>1, <1>2, InvStep, PTL DEF Spec

\* No step writes to, or removes from, the checkpoint the tracker names.
THEOREM TrackedStaysFrozen == KeepsTwo => (Spec => TrackedIsFrozen)
<1> SUFFICES ASSUME KeepsTwo PROVE Spec => TrackedIsFrozen
  OBVIOUS
<1>1. Init => IInv
  BY InvInit
<1>2. IInv /\ [Next]_vars =>
        [\A n \in StepNames :
            tracker = n => shards'[n] = shards[n] /\ data'[n] = data[n]]_vars
  <2> SUFFICES ASSUME IInv, Next, NEW n \in StepNames, tracker = n
               PROVE  shards'[n] = shards[n] /\ data'[n] = data[n]
    OBVIOUS
  <2>1. ~AsyncSave
    BY Numbers DEF IInv, AsyncInv, NoTracker
  <2> QED BY <2>1, SyncStep DEF IInv
<1> QED BY <1>1, <1>2, InvStep, PTL DEF Spec, TrackedIsFrozen

\* The exported model is never ahead of the checkpoint a restart would load.
THEOREM ExportIsDurable == KeepsTwo => (Spec => []FinalIsDurable)
<1> SUFFICES ASSUME KeepsTwo PROVE Spec => []FinalIsDurable
  OBVIOUS
<1>1. Init => IInv
  BY InvInit
<1>2. IInv => FinalIsDurable
  <2> SUFFICES ASSUME IInv, IsFile(final), ~AsyncSave, tracker # EmptyTracker
               PROVE  tracker \in StepNames /\ data[tracker].updates >= final.updates
    BY DEF FinalIsDurable
  <2>1. FinalInv
    BY DEF IInv, SyncInv
  <2>2. tracker \in StepNames
    BY <2>1 DEF FinalInv, IInv, TypeOK
  <2> QED BY <2>1, <2>2 DEF FinalInv
<1> QED BY <1>1, <1>2, InvStep, PTL DEF Spec

\* A first run that ends by itself leaves all its updates in the tracked checkpoint.
THEOREM FirstRunLosesNothing == KeepsTwo => (Spec => []FirstRunIsSaved)
<1> SUFFICES ASSUME KeepsTwo PROVE Spec => []FirstRunIsSaved
  OBVIOUS
<1>1. Init => IInv
  BY InvInit
<1>2. IInv => FirstRunIsSaved
  BY DEF IInv, SyncInv, FirstInv, FirstRunIsSaved, FinishedIsSaved
<1> QED BY <1>1, <1>2, InvStep, PTL DEF Spec

(* Refinement of DurableTraining.                                          *)

\* What the steps that read and write the files are to a training run.
LEMMA RefinesStep ==
    ASSUME IInv, Next
    PROVE  Training!Next \/ UNCHANGED << Live, Durable >>
<1>1. TypeOK /\ CountInv /\ (~AsyncSave => PendingInv /\ SyncInv) /\ (AsyncSave => AsyncInv)
      /\ (AsyncSave \/ MaxToKeep # 1)
  BY DEF IInv
<1>2. tracker \in StepNames => ~AsyncSave
  BY <1>1, Numbers DEF AsyncInv, NoTracker
<1>3. tracker \in StepNames => data'[tracker] = data[tracker]
  BY <1>1, <1>2, SyncStep
<1>4. tracker \in StepNames => Whole(tracker)
  BY <1>1, <1>2 DEF SyncInv, WholeInv
<1>5. tracker \in StepNames \cup {NoTracker, EmptyTracker}
  BY <1>1 DEF TypeOK
<1>6. tracker' = tracker => Durable' = Durable
  BY <1>3, <1>5 DEF Durable, Progress
<1>7. Running => Live = [updates |-> updates, drawn |-> drawn] /\ Live \in Training!Progress
  BY <1>1, Counts DEF Live, Running, Training!Progress, TypeOK
<1>8. ~Running => Live = Durable /\ updates = 0 /\ drawn = 0
  BY <1>1 DEF Live, Running, CountInv
<1>9. Running' => Live' = [updates |-> updates', drawn |-> drawn']
  BY DEF Live, Running
<1>10. ~Running' => Live' = Durable'
  BY DEF Live, Running
<1>11. CASE StartFromScratch
  <2>1. phase = "starting" /\ phase' = "loop" /\ UNCHANGED << tracker, updates, drawn >>
    BY <1>11 DEF StartFromScratch, disk
  <2>2. tracker = NoTracker
    BY <1>4, <1>5, <1>11 DEF StartFromScratch, Whole, CompleteAt
  <2>3. ~Running /\ Running' /\ NoTracker # EmptyTracker
    BY <2>1 DEF Running, NoTracker, EmptyTracker
  <2>4. Durable = [updates |-> 0, drawn |-> 0]
    BY <2>2, <2>3 DEF Durable
  <2> QED BY <1>6, <1>8, <1>9, <2>1, <2>3, <2>4
<1>12. ASSUME NEW n \in StepNames, ResumeFrom(n)
       PROVE  UNCHANGED << Live, Durable >>
  <2>1. /\ phase = "starting" /\ phase' = "loop" /\ UNCHANGED tracker /\ tracker = n
        /\ drawn' = data[n].drawn
    BY <1>12 DEF ResumeFrom, disk
  <2>2. PICK r \in Ranks : updates' = shards[n][r].updates
    BY <1>12 DEF ResumeFrom
  <2>3. updates' = data[n].updates
    BY <1>4, <2>1, <2>2 DEF Whole, CompleteAt
  <2>4. Durable = [updates |-> data[n].updates, drawn |-> data[n].drawn]
    BY <1>1, <2>1, Numbers DEF Durable, Progress, NoTracker, EmptyTracker
  <2>5. ~Running /\ Running'
    BY <2>1 DEF Running
  <2> QED BY <1>6, <1>8, <1>9, <2>1, <2>3, <2>4, <2>5
<1>13. CASE LoadFails
  <2>1. ~Running /\ ~Running' /\ UNCHANGED tracker
    BY <1>13 DEF LoadFails, Running, disk
  <2> QED BY <1>6, <1>8, <1>10, <2>1
<1>14. CASE StartAgain
  <2>1. ~Running' /\ UNCHANGED tracker
    BY <1>14 DEF StartAgain, Running, disk
  <2>2. Live' = Durable /\ Durable' = Durable
    BY <1>6, <1>10, <2>1
  <2> QED BY <2>2 DEF Training!Next, Training!Recover
<1>15. CASE GenerateBatch
  <2>1. /\ Running /\ Running' /\ UNCHANGED << tracker, updates >> /\ drawn' = drawn + 1
    BY <1>15 DEF GenerateBatch, Running, disk
  <2>2. Live' = [Live EXCEPT !.drawn = @ + 1] /\ Live \in Training!Progress
    BY <1>7, <1>9, <2>1
  <2> QED BY <1>6, <2>1, <2>2 DEF Training!Next, Training!Draw
<1>16. CASE UpdateActor
  <2>1. /\ Running /\ Running' /\ UNCHANGED << tracker, drawn >> /\ updates' = updates + 1
    BY <1>16 DEF UpdateActor, NextStep, Running, disk
  <2>2. Live' = [Live EXCEPT !.updates = @ + 1] /\ Live \in Training!Progress
    BY <1>7, <1>9, <2>1
  <2> QED BY <1>6, <2>1, <2>2 DEF Training!Next, Training!Update
<1>17. CASE OpenTracker
  <2>1. Running /\ Running' /\ UNCHANGED << updates, drawn >> /\ tracker' = EmptyTracker
    BY <1>17 DEF OpenTracker, Running, driver
  <2>2. Durable' = [updates |-> -1, drawn |-> -1]
    BY <2>1 DEF Durable, EmptyTracker
  <2> QED BY <1>7, <1>9, <2>1, <2>2 DEF Training!Next, Training!BeginCommit, Training!Nothing
<1>18. CASE WriteTracker
  <2>1. /\ Running /\ Running' /\ UNCHANGED << updates, drawn, data >> /\ WritingTracker
        /\ tracker = EmptyTracker /\ tracker' = global_steps
    BY <1>18 DEF WriteTracker, Running, WritingTracker
  <2>2. Durable = [updates |-> -1, drawn |-> -1]
    BY <2>1 DEF Durable, EmptyTracker
  <2>3. data[global_steps] = Now
    BY <1>1, <2>1 DEF AsyncInv, SyncInv, ProgressInv, WritingTracker
  <2>4. global_steps \in StepNames
    BY <1>1, <2>1, StepName DEF Running
  <2>5. Durable' = [updates |-> updates, drawn |-> drawn]
    <3>1. global_steps # NoTracker /\ global_steps # EmptyTracker
      BY <1>1, <2>4, Numbers DEF NoTracker, EmptyTracker
    <3>2. Now.updates = updates /\ Now.drawn = drawn
      BY <1>1, NowFacts
    <3> QED BY <2>1, <2>3, <3>1, <3>2 DEF Durable, Progress
  <2> QED BY <1>7, <1>9, <2>1, <2>2, <2>5 DEF Training!Next, Training!Commit, Training!Nothing
<1>19. ASSUME UNCHANGED << tracker, updates, drawn >>, Running, Running'
       PROVE  UNCHANGED << Live, Durable >>
  BY <1>6, <1>7, <1>9, <1>19
<1>20. CASE LeaveLoop \/ WorkersDone
  BY <1>19, <1>20 DEF LeaveLoop, WorkersDone, Saving, Running, disk
<1>21. CASE OpenData \/ WriteData
  BY <1>19, <1>21 DEF OpenData, WriteData, Running, driver
<1>22. CASE RemoveFinal \/ BeginCopy \/ EndCopy
  BY <1>19, <1>22 DEF RemoveFinal, BeginCopy, EndCopy, NextStep, Running, driver
<1>23. ASSUME NEW r \in Ranks, WorkerStep(r) PROVE UNCHANGED << Live, Durable >>
  BY <1>19, <1>23 DEF WorkerStep, EnterSave, RemoveFile, MakeDirectory, OpenShard, WriteShard,
                      ScheduleWrite, Saving, Running, disk, driver
<1>24. ASSUME NEW w \in pending, BackgroundWrite(w) PROVE UNCHANGED << Live, Durable >>
  <2>1. UNCHANGED << tracker, phase, updates, drawn >>
    BY <1>24 DEF BackgroundWrite, driver
  <2>2. Durable' = Durable
    BY <1>6, <2>1
  <2> QED BY <2>1, <2>2 DEF Live
<1> QED BY <1>11, <1>12, <1>13, <1>14, <1>15, <1>16, <1>17, <1>18, <1>20, <1>21, <1>22, <1>23, <1>24
        DEF Next, DriverStep

\* Through files, workers, kills and restarts, progress becomes durable when the tracker is
\* written, all at once, and a restart continues exactly from what became durable last.
THEOREM DurableRefinement == KeepsTwo => (Spec => ImplementsDurableTraining)
<1> SUFFICES ASSUME KeepsTwo PROVE Spec => ImplementsDurableTraining
  OBVIOUS
<1>1. Init => IInv
  BY InvInit
<1>2. Init => Training!Init
  BY DEF Init, Training!Init, Training!NoProgress, Live, Durable, NoTracker, EmptyTracker
<1>3. IInv /\ [Next]_vars => [Training!Next]_(Training!vars)
  <2> SUFFICES ASSUME IInv, [Next]_vars
               PROVE  Training!Next \/ UNCHANGED << Live, Durable >>
    BY DEF Training!vars
  <2>1. CASE Next
    BY <2>1, RefinesStep
  <2>2. CASE UNCHANGED vars
    BY <2>2 DEF vars, disk, driver, Live, Durable, Progress
  <2> QED BY <2>1, <2>2
<1> QED BY <1>1, <1>2, <1>3, InvStep, PTL DEF Spec, ImplementsDurableTraining, Training!Spec

-----------------------------------------------------------------------------
(* How many checkpoints are kept.                                          *)

Listed == {previous_saved_paths[i] : i \in 1 .. Len(previous_saved_paths)}

\* What this run has written is in the list or under way, the list is no longer than it may
\* be, and once rank 0 is past its removals nothing is left of what leaves the list.
KeepInv ==
    /\ \A n \in StepNames, r \in Ranks :
          /\ shards[n][r].run <= run
          /\ shards[n][r].run = run => n \in Listed \/ (Saving /\ n = global_steps)
    /\ MaxToKeep > 0 => Len(previous_saved_paths) <= MaxToKeep
    /\ Saving /\ worker[Rank0] \in {"ready", "writing", "written"} =>
          \A n \in Doomed, r \in Ranks : shards[n][r] = Missing

AllInv == IInv /\ (~AsyncSave => KeepInv)

LEMMA KeepInit == Init => KeepInv
<1> SUFFICES ASSUME Init PROVE KeepInv
  OBVIOUS
<1>1. phase = "starting" /\ run = 1 /\ Len(previous_saved_paths) = 0
  BY DEF Init
<1>2. \A n \in StepNames, r \in Ranks : shards[n][r].run = 0
  BY MissingFacts DEF Init
<1>3. MaxToKeep \in Nat
  BY TrainerAssumption, TypeInit DEF TypeOK, MaxToKeep, ConfigType
<1> QED BY <1>1, <1>2, <1>3 DEF KeepInv, Saving

\* Steps that leave the shards and the list alone and are not part of a save.
LEMMA KeepOutside ==
    ASSUME KeepInv, ~Saving, UNCHANGED << shards, previous_saved_paths, config, run >>,
           Saving' => worker'[Rank0] = "idle"
    PROVE  KeepInv'
<1>1. Listed' = Listed /\ MaxToKeep' = MaxToKeep
  BY DEF Listed, MaxToKeep
<1> QED BY <1>1 DEF KeepInv

LEMMA KeepWorkers ==
    ASSUME IInv, KeepInv, ~AsyncSave, NEW r \in Ranks, WorkerStep(r)
    PROVE  KeepInv'
<1>1. /\ Saving /\ Running
      /\ UNCHANGED << tracker, config, run, phase, global_steps, updates, drawn,
                      previous_saved_paths >>
  BY DEF WorkerStep, EnterSave, RemoveFile, MakeDirectory, OpenShard, WriteShard, ScheduleWrite,
         disk, driver, workers, Saving, Running
<1>2. /\ Listed' = Listed /\ MaxToKeep' = MaxToKeep /\ Saving'
      /\ Doomed' = Doomed
  BY <1>1 DEF Listed, MaxToKeep, Saving, Doomed, Rotation, KeepStart
<1>3. TypeOK /\ CountInv /\ TrackerInv /\ PathInv /\ MaxToKeep # 1
  BY DEF IInv, SyncInv
<1>4. global_steps \in StepNames /\ global_steps \in Nat
  BY <1>1, <1>3, StepName DEF Running
<1>5. global_steps \notin Doomed
  <2>1. tracker < global_steps /\ tracker \in Nat
    BY <1>1, <1>3, Numbers DEF TrackerInv, Saving
  <2> SUFFICES ASSUME global_steps \in Doomed PROVE FALSE
    OBVIOUS
  <2>2. global_steps < tracker
    BY <1>1, <1>3, DoomedIsOld
  <2> QED BY <1>4, <2>1, <2>2
<1>6. /\ shards \in [StepNames -> [Ranks -> Contents]]
      /\ worker \in [Ranks -> {"idle", "rotate", "ready", "writing", "written"}]
      /\ run \in Nat \ {0}
  BY <1>3, Numbers DEF TypeOK
<1>7. /\ \A n \in StepNames, q \in Ranks :
            \/ shards'[n][q] = shards[n][q]
            \/ shards'[n][q] = Missing
            \/ n = global_steps /\ shards'[n][q] \in {Torn, Now}
  <2>1. CASE RemoveFile(r)
    <3>1. PICK f \in LeftOver : shards' = [shards EXCEPT ![f[1]][f[2]] = Missing]
      BY <2>1 DEF RemoveFile
    <3> QED BY <1>6, <3>1
  <2>2. CASE OpenShard(r) \/ WriteShard(r)
    BY <1>4, <1>6, <2>2 DEF OpenShard, WriteShard
  <2> QED BY <2>1, <2>2 DEF WorkerStep, EnterSave, MakeDirectory, ScheduleWrite, disk
<1>8. \A n \in StepNames, q \in Ranks :
         /\ shards'[n][q].run <= run'
         /\ shards'[n][q].run = run' => n \in Listed' \/ (Saving' /\ n = global_steps')
  <2> SUFFICES ASSUME NEW n \in StepNames, NEW q \in Ranks
               PROVE  /\ shards'[n][q].run <= run
                      /\ shards'[n][q].run = run => n \in Listed \/ n = global_steps
    BY <1>1, <1>2
  <2>1. Missing.run <= run /\ Missing.run # run /\ Torn.run <= run /\ Now.run <= run
    BY <1>3, <1>6, MissingFacts, NowFacts
  <2> QED BY <1>7, <2>1 DEF KeepInv
<1>9. ASSUME worker'[Rank0] \in {"ready", "writing", "written"},
             NEW n \in Doomed, NEW q \in Ranks
      PROVE  shards'[n][q] = Missing
  <2>1. n \in StepNames /\ n # global_steps
    BY <1>1, <1>3, <1>5, DoomedIsOld
  <2>2. shards[n][q] = Missing
    <3>1. CASE worker[Rank0] \in {"ready", "writing", "written"}
      BY <1>1, <3>1 DEF KeepInv
    <3>2. CASE worker[Rank0] \notin {"ready", "writing", "written"}
      <4>1. r = Rank0 /\ MakeDirectory(r)
        BY <1>6, <1>9, <3>2, TrainerAssumption
           DEF WorkerStep, EnterSave, RemoveFile, MakeDirectory, OpenShard, WriteShard,
               ScheduleWrite, workers
      <4>2. LeftOver = {}
        BY <4>1 DEF MakeDirectory, Rotates
      <4>3. << n, q >> \in Doomed \X Ranks /\ << n, q >> \notin LeftOver
        BY <4>2
      <4>4. << n, q >>[1] = n /\ << n, q >>[2] = q
        OBVIOUS
      <4> QED BY <4>3, <4>4 DEF LeftOver
    <3> QED BY <3>1, <3>2
  <2> QED BY <1>7, <2>1, <2>2
<1> QED BY <1>1, <1>2, <1>8, <1>9 DEF KeepInv

LEMMA KeepReturn ==
    ASSUME IInv, KeepInv, ~AsyncSave, WorkersDone
    PROVE  KeepInv'
<1>1. /\ Saving /\ ~Saving' /\ UNCHANGED << shards, config, run, global_steps >>
      /\ worker[Rank0] = "written"
  BY TrainerAssumption DEF WorkersDone, Saving, disk
<1>2. /\ TypeOK /\ MaxToKeep \in Nat /\ previous_saved_paths \in Seq(StepNames)
      /\ MaxToKeep' = MaxToKeep
  BY <1>1, TrainerAssumption DEF IInv, TypeOK, MaxToKeep, ConfigType
<1>3. global_steps \in StepNames
  BY <1>1, StepName DEF IInv, Saving
<1>4. PICK k \in Nat :
         /\ k <= Len(previous_saved_paths)
         /\ previous_saved_paths' = Append(SubSeq(previous_saved_paths, k + 1,
                                                  Len(previous_saved_paths)), global_steps)
         /\ \A i \in 1 .. k : previous_saved_paths[i] \in Doomed
         /\ MaxToKeep > 0 => Len(previous_saved_paths) - k < MaxToKeep
  <2>1. CASE Rotation
    <3>1. /\ KeepStart \in Nat /\ KeepStart <= Len(previous_saved_paths)
          /\ Len(previous_saved_paths) - KeepStart < MaxToKeep
      BY <1>2, <2>1 DEF Rotation, KeepStart
    <3>2. previous_saved_paths' = Append(SubSeq(previous_saved_paths, KeepStart + 1,
                                                Len(previous_saved_paths)), global_steps)
      BY <2>1 DEF WorkersDone
    <3>3. \A i \in 1 .. KeepStart : previous_saved_paths[i] \in Doomed
      BY <2>1 DEF Doomed
    <3> QED BY <3>1, <3>2, <3>3
  <2>2. CASE ~Rotation
    <3>1. previous_saved_paths' = Append(previous_saved_paths, global_steps)
      BY <2>2 DEF WorkersDone
    <3>2. SubSeq(previous_saved_paths, 0 + 1, Len(previous_saved_paths)) = previous_saved_paths
      BY <1>2
    <3>3. MaxToKeep > 0 => Len(previous_saved_paths) - 0 < MaxToKeep
      BY <1>2, <2>2 DEF Rotation
    <3>4. 0 \in Nat /\ 0 <= Len(previous_saved_paths) /\ 1 .. 0 = {}
      BY <1>2
    <3> QED BY <3>1, <3>2, <3>3, <3>4
  <2> QED BY <2>1, <2>2
<1>5. PICK q : q = SubSeq(previous_saved_paths, k + 1, Len(previous_saved_paths))
  OBVIOUS
<1>6. /\ q \in Seq(StepNames)
      /\ Len(q) = Len(previous_saved_paths) - k
      /\ \A i \in 1 .. Len(q) : q[i] = previous_saved_paths[i + k]
  BY <1>2, <1>4, <1>5
<1>7. /\ Len(previous_saved_paths') = Len(q) + 1 /\ Len(q) \in Nat
      /\ previous_saved_paths'[Len(q) + 1] = global_steps
      /\ \A i \in 1 .. Len(q) : previous_saved_paths'[i] = q[i]
  <2>1. previous_saved_paths' = Append(q, global_steps)
    BY <1>4, <1>5
  <2> QED BY <1>3, <1>6, <2>1
<1>8. MaxToKeep > 0 => Len(previous_saved_paths') <= MaxToKeep
  BY <1>2, <1>4, <1>6, <1>7
<1>9. global_steps \in Listed'
  <2>1. Len(q) + 1 \in 1 .. Len(previous_saved_paths')
    BY <1>7
  <2> QED BY <1>7, <2>1 DEF Listed
<1>10. ASSUME NEW n \in Listed, n \notin Doomed PROVE n \in Listed'
  <2>1. PICK i \in 1 .. Len(previous_saved_paths) : n = previous_saved_paths[i]
    BY DEF Listed
  <2>2. Len(previous_saved_paths) \in Nat
    BY <1>2
  <2>3. i > k
    BY <1>4, <1>10, <2>1, <2>2
  <2>4. PICK j : j = i - k
    OBVIOUS
  <2>5. j \in 1 .. Len(q) /\ j + k = i /\ j \in 1 .. Len(previous_saved_paths')
    BY <1>6, <1>7, <2>2, <2>3, <2>4
  <2>6. previous_saved_paths'[j] = n
    BY <1>6, <1>7, <2>1, <2>5
  <2> QED BY <2>5, <2>6 DEF Listed
<1>11. ASSUME NEW n \in StepNames, NEW r \in Ranks, shards[n][r].run = run
       PROVE  n \in Listed'
  <2>1. CASE n = global_steps
    BY <1>9, <2>1
  <2>2. CASE n # global_steps
    <3>1. n \in Listed
      BY <1>11, <2>2 DEF KeepInv
    <3>2. n \notin Doomed
      <4> SUFFICES ASSUME n \in Doomed PROVE FALSE
        OBVIOUS
      <4>1. shards[n][r] = Missing
        BY <1>1 DEF KeepInv
      <4> QED BY <1>2, <1>11, <4>1, MissingFacts, Numbers
    <3> QED BY <1>10, <3>1, <3>2
  <2> QED BY <2>1, <2>2
<1>12. \A n \in StepNames, r \in Ranks : shards[n][r].run <= run
  BY DEF KeepInv
<1> QED BY <1>1, <1>2, <1>8, <1>11, <1>12 DEF KeepInv

LEMMA KeepStep ==
    ASSUME IInv, KeepInv, ~AsyncSave, Next
    PROVE  KeepInv'
<1>1. CASE StartAgain
  <2>1. /\ run' = run + 1 /\ run \in Nat /\ ~Saving' /\ shards' = shards
        /\ previous_saved_paths' = << >>
    BY <1>1, Numbers DEF IInv, StartAgain, Saving, disk
  <2>2. ASSUME NEW n \in StepNames, NEW r \in Ranks
        PROVE  shards'[n][r].run <= run' /\ shards'[n][r].run # run'
    <3>1. shards[n][r].run <= run /\ shards[n][r].run \in Int
      BY Counts DEF KeepInv, IInv, TypeOK, Contents
    <3> QED BY <2>1, <3>1
  <2>3. MaxToKeep' \in Nat /\ Len(previous_saved_paths') = 0
    BY <1>1, <2>1, TrainerAssumption DEF StartAgain, IInv, TypeOK, MaxToKeep, ConfigType
  <2> QED BY <2>1, <2>2, <2>3 DEF KeepInv
<1>2. CASE DriverStep /\ ~WorkersDone
  <2>1. /\ UNCHANGED << shards, previous_saved_paths, config, run, worker >> /\ ~Saving
    BY <1>2 DEF DriverStep, StartFromScratch, ResumeFrom, LoadFails, GenerateBatch, UpdateActor,
                LeaveLoop, OpenData, WriteData, OpenTracker, WriteTracker, RemoveFinal, BeginCopy,
                EndCopy, Saving, disk, driver, workers
  <2>2. worker[Rank0] = "idle"
    BY <2>1, TrainerAssumption DEF IInv, SyncInv, ProgressInv
  <2> QED BY <2>1, <2>2, KeepOutside
<1>3. pending = {}
  BY DEF IInv, PendingInv
<1> QED BY <1>1, <1>2, <1>3, KeepWorkers, KeepReturn DEF Next

LEMMA AllStep == AllInv /\ [Next]_vars => AllInv'
<1> SUFFICES ASSUME AllInv, [Next]_vars PROVE AllInv'
  OBVIOUS
<1>1. IInv'
  BY InvStep DEF AllInv
<1>2. CASE UNCHANGED vars
  <2>1. KeepInv => KeepInv'
    BY <1>2 DEF vars, disk, driver, workers, KeepInv, Listed, Saving, MaxToKeep, Doomed, Rotation,
                KeepStart
  <2> QED BY <1>1, <1>2, <2>1 DEF AllInv, AsyncSave, vars, driver
<1>3. CASE Next
  <2>1. AsyncSave' = AsyncSave
    BY <1>3, ConfigKept DEF AsyncSave
  <2> QED BY <1>1, <1>3, <2>1, KeepStep DEF AllInv
<1> QED BY <1>2, <1>3

\* A list names no more directories than it has entries.
LEMMA ListedBound ==
    ASSUME NEW S, NEW s \in Seq(S)
    PROVE  /\ IsFiniteSet({s[i] : i \in 1 .. Len(s)})
           /\ Cardinality({s[i] : i \in 1 .. Len(s)}) <= Len(s)
<1>1. PICK T : T = {s[i] : i \in 1 .. Len(s)}
  OBVIOUS
<1>2. PICK f : f = [i \in 1 .. Len(s) |-> s[i]]
  OBVIOUS
<1>3. f \in [1 .. Len(s) -> T] /\ \A t \in T : \E i \in 1 .. Len(s) : f[i] = t
  BY <1>1, <1>2
<1>4. f \in Surjection(1 .. Len(s), T)
  BY <1>3 DEF Surjection
<1>5. Len(s) \in Nat
  OBVIOUS
<1>6. IsFiniteSet(1 .. Len(s)) /\ Cardinality(1 .. Len(s)) = Len(s)
  <2>1. 1 \in Int /\ Len(s) \in Int
    BY <1>5
  <2>2. /\ IsFiniteSet(1 .. Len(s))
        /\ Cardinality(1 .. Len(s)) = IF 1 > Len(s) THEN 0 ELSE Len(s) - 1 + 1
    BY <2>1, FS_Interval
  <2> QED BY <1>5, <2>2
<1>7. IsFiniteSet(T) /\ Cardinality(T) <= Cardinality(1 .. Len(s))
  BY <1>4, <1>6, FS_Surjection
<1> QED BY <1>1, <1>6, <1>7

LEMMA PartBound ==
    ASSUME NEW T, IsFiniteSet(T), NEW n \in Nat, Cardinality(T) <= n, NEW S \in SUBSET T
    PROVE  Cardinality(S) <= n
<1>1. Cardinality(S) <= Cardinality(T) /\ IsFiniteSet(S)
  BY FS_Subset
<1>2. Cardinality(S) \in Nat /\ Cardinality(T) \in Nat
  BY <1>1, FS_CardinalityType
<1> QED BY <1>1, <1>2

\* While no save is under way, no more checkpoints hold files of this run than are to be kept.
THEOREM KeepsNoMore == KeepsTwo => (Spec => []AtMostMaxToKeep)
<1> SUFFICES ASSUME KeepsTwo PROVE Spec => []AtMostMaxToKeep
  OBVIOUS
<1>1. Init => AllInv
  BY InvInit, KeepInit DEF AllInv
<1>2. AllInv => AtMostMaxToKeep
  <2> SUFFICES ASSUME AllInv, MaxToKeep > 0, ~AsyncSave, phase \in {"loop", "update", "finished"}
               PROVE  Cardinality({n \in StepNames : \E r \in Ranks : shards[n][r].run = run})
                         <= MaxToKeep
    BY DEF AtMostMaxToKeep
  <2>1. previous_saved_paths \in Seq(StepNames) /\ MaxToKeep \in Nat
    BY TrainerAssumption DEF AllInv, IInv, TypeOK, MaxToKeep, ConfigType
  <2>2. IsFiniteSet(Listed) /\ Cardinality(Listed) <= Len(previous_saved_paths)
    BY <2>1, ListedBound DEF Listed
  <2>3. Len(previous_saved_paths) <= MaxToKeep /\ Len(previous_saved_paths) \in Nat
    BY <2>1 DEF AllInv, KeepInv
  <2>4. Cardinality(Listed) \in Nat
    BY <2>2, FS_CardinalityType
  <2>5. Cardinality(Listed) <= MaxToKeep
    BY <2>1, <2>2, <2>3, <2>4
  <2>6. {n \in StepNames : \E r \in Ranks : shards[n][r].run = run} \in SUBSET Listed
    BY DEF AllInv, KeepInv, Saving
  <2> QED BY <2>1, <2>2, <2>5, <2>6, PartBound
<1> QED BY <1>1, <1>2, AllStep, PTL DEF Spec

=============================================================================
