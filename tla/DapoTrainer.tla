----------------------------- MODULE DapoTrainer -----------------------------
(***************************************************************************)
(* The training loop of the DAPO trainer with its checkpoints and resumes  *)
(* (RayDAPOTrainer in verl/ui_mopd/dapo_trainer.py, and save_checkpoint of *)
(* the FSDP and Megatron checkpoint managers in verl/utils/checkpoint).    *)
(*                                                                         *)
(* One driver process runs the loop; a save is carried out by one worker   *)
(* per rank and then by the driver, file after file, in                    *)
(*     checkpoint/global_step_N/actor/...      one shard per rank          *)
(*     checkpoint/global_step_N/data.pt        the dataloader              *)
(*     checkpoint/latest_checkpointed_iteration.txt       the tracker      *)
(*     final/                     a copy of the saved model, for export    *)
(* The job can be killed between any two of these steps, and is started    *)
(* again; it can also be started again after it has finished.              *)
(*                                                                         *)
(* The contents of a file are the progress it was written at: how many     *)
(* updates the model has had, how many batches had been drawn from the     *)
(* dataloader, and in which run of the job.                                *)
(*                                                                         *)
(* Rollout, reward, group filter and the update itself are abstracted to   *)
(* their effect on this progress: a drawn batch does or does not fill the  *)
(* training batch (module GroupFilter), and a full one makes one update.   *)
(*                                                                         *)
(* A definition called a variant is a wrong version of the one after it:   *)
(* it shows which property would notice the fault.                         *)
(***************************************************************************)
EXTENDS Integers, Sequences, FiniteSets

CONSTANTS
    Ranks,        \* the workers of the actor group
    Rank0,
    Configs,      \* the configurations a job may have
    total_training_steps,
    total_step,   \* of the dataloader: how many batches it can draw
    MaxRuns       \* bound: how often the job is started

\* backend: the checkpoint manager; max_to_keep: trainer.max_actor_ckpt_to_keep,
\* 0 for null; async_save is ignored by the FSDP manager.
ConfigType ==
    [backend : {"fsdp", "megatron"}, async_save : BOOLEAN,
     save_freq : Nat \ {0}, max_to_keep : Nat]

ASSUME TrainerAssumption ==
    /\ Rank0 \in Ranks
    /\ Configs \subseteq ConfigType
    /\ \A c \in Configs : c.async_save => c.backend = "megatron"
    /\ total_training_steps \in Nat \ {0}
    /\ total_step \in Nat
    /\ MaxRuns \in Nat \ {0}

VARIABLES
    \* on disk
    made,          \* the N whose directory global_step_N exists
    shards,        \* the file of each rank in global_step_N/actor
    data,          \* global_step_N/data.pt
    tracker,       \* the number in the tracker file
    final,         \* the exported model
    \* in the driver
    config,
    run,           \* which start of the job this is
    phase,
    global_steps,
    updates,       \* the updates the model in memory has had
    drawn,         \* the step of the dataloader in memory
    \* in the workers
    previous_saved_paths,
    worker,        \* where each rank is in save_checkpoint
    pending        \* the asynchronous writes under way

disk == << made, shards, data, tracker, final >>
driver == << config, run, phase, global_steps, updates, drawn >>
workers == << previous_saved_paths, worker, pending >>
vars == << disk, driver, workers >>

Backend == config.backend
AsyncSave == config.async_save
SaveFreq == config.save_freq
MaxToKeep == config.max_to_keep

\* A finished job that is started again takes one step more.
StepNames == 1 .. total_training_steps + MaxRuns

-----------------------------------------------------------------------------
(* Contents of files.                                                      *)

Content(r, u, d) == [run |-> r, updates |-> u, drawn |-> d]
Missing == Content(0, 0, 0)
Torn == Content(-1, 0, 0)    \* opened for writing and not completely written
Now == Content(run, updates, drawn)

NoTracker == 0
EmptyTracker == -1

IsFile(c) == c.run > 0
Progress(c) == [updates |-> c.updates, drawn |-> c.drawn]

-----------------------------------------------------------------------------

Init ==
    /\ made = {}
    /\ shards = [n \in StepNames |-> [r \in Ranks |-> Missing]]
    /\ data = [n \in StepNames |-> Missing]
    /\ tracker = NoTracker
    /\ final = Missing
    /\ config \in Configs
    /\ run = 1
    /\ phase = "starting"
    /\ global_steps = 0
    /\ updates = 0
    /\ drawn = 0
    /\ previous_saved_paths = << >>
    /\ worker = [r \in Ranks |-> "idle"]
    /\ pending = {}

-----------------------------------------------------------------------------
(* _load_checkpoint, and the increment of global_steps after it.           *)

\* find_latest_ckpt_path finds no tracker or no directory.
StartFromScratch ==
    /\ phase = "starting"
    /\ tracker = NoTracker \/ (tracker # EmptyTracker /\ tracker \notin made)
    /\ phase' = "loop"
    /\ global_steps' = 1
    /\ UNCHANGED << disk, config, run, updates, drawn, workers >>

\* Variant: the loop starts with the step that was saved.
ResumeSameStep(n) ==
    /\ phase = "starting"
    /\ tracker = n
    /\ n \in made
    /\ \A r \in Ranks : IsFile(shards[n][r])
    /\ data[n] # Torn
    /\ phase' = "loop"
    /\ global_steps' = n
    /\ \E r \in Ranks : updates' = shards[n][r].updates
    /\ drawn' = data[n].drawn
    /\ UNCHANGED << disk, config, run, workers >>

\* Variant: the dataloader is not restored.
ResumeModelOnly(n) ==
    /\ phase = "starting"
    /\ tracker = n
    /\ n \in made
    /\ \A r \in Ranks : IsFile(shards[n][r])
    /\ phase' = "loop"
    /\ global_steps' = n + 1
    /\ \E r \in Ranks : updates' = shards[n][r].updates
    /\ UNCHANGED << disk, config, run, drawn, workers >>

\* Every rank loads its shard; without a data.pt the dataloader starts afresh.
ResumeFrom(n) ==
    /\ phase = "starting"
    /\ tracker = n
    /\ n \in made
    /\ \A r \in Ranks : IsFile(shards[n][r])
    /\ data[n] # Torn
    /\ phase' = "loop"
    /\ global_steps' = n + 1
    /\ \E r \in Ranks : updates' = shards[n][r].updates
    /\ drawn' = data[n].drawn
    /\ UNCHANGED << disk, config, run, workers >>

\* int() of an empty tracker, or a file that cannot be loaded, raises.
LoadFails ==
    /\ phase = "starting"
    /\ \/ tracker = EmptyTracker
       \/ /\ tracker \in made
          /\ (\E r \in Ranks : ~IsFile(shards[tracker][r])) \/ data[tracker] = Torn
    /\ phase' = "failed"
    /\ UNCHANGED << disk, config, run, global_steps, updates, drawn, workers >>

-----------------------------------------------------------------------------
(* The loop over _data_generator.                                          *)

\* Variant: is_end compares with > in place of >=.
GenerateOneMore ==
    /\ phase = "loop"
    /\ drawn <= total_step
    /\ drawn' = drawn + 1
    /\ phase' \in {"loop", "update"}
    /\ UNCHANGED << disk, config, run, global_steps, updates, workers >>

\* One generation batch: it is rolled out, scored and filtered, and may leave
\* the training batch short of prompts, in which case the loop goes on.
GenerateBatch ==
    /\ phase = "loop"
    /\ drawn < total_step
    /\ drawn' = drawn + 1
    /\ phase' \in {"loop", "update"}
    /\ UNCHANGED << disk, config, run, global_steps, updates, workers >>

is_last_step == global_steps >= total_training_steps

\* Variant: the last step is not saved for being the last.
SaveDueByFreq == global_steps % SaveFreq = 0

SaveDue == is_last_step \/ global_steps % SaveFreq = 0

\* What follows an update or its save: return, or the next step.
NextStep ==
    IF is_last_step THEN phase' = "finished" /\ UNCHANGED global_steps
    ELSE phase' = "loop" /\ global_steps' = global_steps + 1

UpdateActor ==
    /\ phase = "update"
    /\ updates' = updates + 1
    /\ IF SaveDue THEN phase' = "save" /\ UNCHANGED global_steps
       ELSE NextStep
    /\ UNCHANGED << disk, config, run, drawn, workers >>

\* The dataloader is exhausted.  global_steps names the step that did not take
\* place; its directory is looked up, and saved to if it does not exist.
LeaveLoop ==
    /\ phase = "loop"
    /\ drawn >= total_step
    /\ phase' = IF global_steps \in made THEN "finished" ELSE "closing save"
    /\ UNCHANGED << disk, config, run, global_steps, updates, drawn, workers >>

-----------------------------------------------------------------------------
(* save_checkpoint of the workers.                                         *)

Saving == phase \in {"save", "closing save"}

\* Variant: makes no room for the checkpoint about to be written.
KeepStartNoRoom == Len(previous_saved_paths) - MaxToKeep

\* The directories to remove before this save.
KeepStart == Len(previous_saved_paths) - MaxToKeep + 1
Rotation == MaxToKeep > 0 /\ Len(previous_saved_paths) >= MaxToKeep
Doomed ==
    IF Rotation THEN {previous_saved_paths[i] : i \in 1 .. KeepStart} ELSE {}

Rotates(r) == ~AsyncSave /\ (Backend = "megatron" \/ r = Rank0)
LeftOver == {f \in Doomed \X Ranks : shards[f[1]][f[2]] # Missing}

EnterSave(r) ==
    /\ Saving
    /\ worker[r] = "idle"
    /\ worker' = [worker EXCEPT ![r] = "rotate"]
    /\ UNCHANGED << disk, driver, previous_saved_paths, pending >>

\* rmtree removes file by file.
RemoveFile(r) ==
    /\ Saving
    /\ worker[r] = "rotate"
    /\ Rotates(r)
    /\ \E f \in LeftOver : shards' = [shards EXCEPT ![f[1]][f[2]] = Missing]
    /\ UNCHANGED << made, data, tracker, final, driver, workers >>

MakeDirectory(r) ==
    /\ Saving
    /\ worker[r] = "rotate"
    /\ Rotates(r) => LeftOver = {}
    /\ made' = made \cup {global_steps}
    /\ worker' = [worker EXCEPT ![r] = "ready"]
    /\ UNCHANGED << shards, data, tracker, final, driver, previous_saved_paths,
                    pending >>

\* Variant: waits for ranks that may have gone on already.
OpenShardTogether(r) ==
    /\ Saving
    /\ worker[r] = "ready"
    /\ \A s \in Ranks : worker[s] = "ready"
    /\ shards' = [shards EXCEPT ![global_steps][r] = Torn]
    /\ worker' = [worker EXCEPT ![r] = "writing"]
    /\ UNCHANGED << made, data, tracker, final, driver, previous_saved_paths,
                    pending >>

\* The FSDP manager has a barrier between the directory and the shards.
OpenShard(r) ==
    /\ Saving
    /\ worker[r] = "ready"
    /\ ~AsyncSave
    /\ Backend = "fsdp" => \A s \in Ranks : worker[s] \notin {"idle", "rotate"}
    /\ shards' = [shards EXCEPT ![global_steps][r] = Torn]
    /\ worker' = [worker EXCEPT ![r] = "writing"]
    /\ UNCHANGED << made, data, tracker, final, driver, previous_saved_paths,
                    pending >>

WriteShard(r) ==
    /\ Saving
    /\ worker[r] = "writing"
    /\ shards' = [shards EXCEPT ![global_steps][r] = Now]
    /\ worker' = [worker EXCEPT ![r] = "written"]
    /\ UNCHANGED << made, data, tracker, final, driver, previous_saved_paths,
                    pending >>

\* With async_save the write is handed to a background process.
ScheduleWrite(r) ==
    /\ Saving
    /\ worker[r] = "ready"
    /\ AsyncSave
    /\ pending' = pending \cup {[step |-> global_steps, rank |-> r, content |-> Now]}
    /\ worker' = [worker EXCEPT ![r] = "written"]
    /\ UNCHANGED << disk, driver, previous_saved_paths >>

BackgroundWrite(w) ==
    /\ w \in pending
    /\ shards' = [shards EXCEPT ![w.step][w.rank] = w.content]
    /\ pending' = pending \ {w}
    /\ UNCHANGED << made, data, tracker, final, driver, previous_saved_paths, worker >>

\* Variant: returns with the first rank that is done.
FirstWorkerDone ==
    /\ Saving
    /\ \E r \in Ranks : worker[r] = "written"
    /\ worker' = [r \in Ranks |-> "idle"]
    /\ previous_saved_paths' = Append(previous_saved_paths, global_steps)
    /\ phase' = IF phase = "save" THEN "data" ELSE "closing data"
    /\ UNCHANGED << disk, config, run, global_steps, updates, drawn, pending >>

\* All ranks are past the last barrier and the call returns to the driver.
WorkersDone ==
    /\ Saving
    /\ \A r \in Ranks : worker[r] = "written"
    /\ worker' = [r \in Ranks |-> "idle"]
    /\ previous_saved_paths' =
          IF AsyncSave THEN previous_saved_paths
          ELSE Append(IF Rotation
                      THEN SubSeq(previous_saved_paths, KeepStart + 1,
                                  Len(previous_saved_paths))
                      ELSE previous_saved_paths,
                      global_steps)
    /\ phase' = IF phase = "save" THEN "data" ELSE "closing data"
    /\ UNCHANGED << disk, config, run, global_steps, updates, drawn, pending >>

-----------------------------------------------------------------------------
(* The rest of _save_checkpoint, in the driver.                            *)

Closing == phase \in {"closing data", "closing tracker"}

OpenData ==
    /\ phase \in {"data", "closing data"}
    /\ data[global_steps] # Torn
    /\ data' = [data EXCEPT ![global_steps] = Torn]
    /\ UNCHANGED << made, shards, tracker, final, driver, workers >>

\* Variant: skips the tracker when the save is not asynchronous.
WriteDataSkipTracker ==
    /\ phase \in {"data", "closing data"}
    /\ data[global_steps] = Torn
    /\ data' = [data EXCEPT ![global_steps] = Now]
    /\ phase' = IF Closing THEN (IF AsyncSave THEN "closing tracker" ELSE "finished")
                ELSE (IF AsyncSave THEN "tracker" ELSE "export")
    /\ UNCHANGED << made, shards, tracker, final, config, run, global_steps, updates, drawn,
                    workers >>

\* With async_save the driver returns here and leaves the tracker to the
\* finalize function of the workers' save.
WriteData ==
    /\ phase \in {"data", "closing data"}
    /\ data[global_steps] = Torn
    /\ data' = [data EXCEPT ![global_steps] = Now]
    /\ phase' = IF Closing THEN (IF AsyncSave THEN "finished" ELSE "closing tracker")
                ELSE (IF AsyncSave THEN "export" ELSE "tracker")
    /\ UNCHANGED << made, shards, tracker, final, config, run, global_steps, updates, drawn,
                    workers >>

\* open(..., "w") empties the tracker
OpenTracker ==
    /\ phase \in {"tracker", "closing tracker"}
    /\ tracker # EmptyTracker
    /\ tracker' = EmptyTracker
    /\ UNCHANGED << made, shards, data, final, driver, workers >>

WriteTracker ==
    /\ phase \in {"tracker", "closing tracker"}
    /\ tracker = EmptyTracker
    /\ tracker' = global_steps
    /\ phase' = IF Closing THEN "finished" ELSE "export"
    /\ UNCHANGED << made, shards, data, final, config, run, global_steps, updates, drawn,
                    workers >>

\* fit copies the saved model to final/: rmtree, then copytree.
RemoveFinal ==
    /\ phase = "export"
    /\ final' = Missing
    /\ phase' = "copy"
    /\ UNCHANGED << made, shards, data, tracker, config, run, global_steps, updates, drawn,
                    workers >>

BeginCopy ==
    /\ phase = "copy"
    /\ final = Missing
    /\ final' = Torn
    /\ UNCHANGED << made, shards, data, tracker, driver, workers >>

EndCopy ==
    /\ phase = "copy"
    /\ final = Torn
    /\ final' = Now
    /\ NextStep
    /\ UNCHANGED << made, shards, data, tracker, config, run, updates, drawn, workers >>

-----------------------------------------------------------------------------
(* Kills and restarts.                                                     *)

\* The job ends, in whatever it is doing, and is started again: the processes
\* and everything in their memory are new.
StartAgain ==
    /\ run < MaxRuns
    /\ run' = run + 1
    /\ phase' = "starting"
    /\ global_steps' = 0
    /\ updates' = 0
    /\ drawn' = 0
    /\ previous_saved_paths' = << >>
    /\ worker' = [r \in Ranks |-> "idle"]
    /\ pending' = {}
    /\ UNCHANGED << disk, config >>

DriverStep ==
    \/ StartFromScratch
    \/ \E n \in StepNames : ResumeFrom(n)
    \/ LoadFails
    \/ GenerateBatch
    \/ UpdateActor
    \/ LeaveLoop
    \/ WorkersDone
    \/ OpenData
    \/ WriteData
    \/ OpenTracker
    \/ WriteTracker
    \/ RemoveFinal
    \/ BeginCopy
    \/ EndCopy

WorkerStep(r) ==
    \/ EnterSave(r)
    \/ RemoveFile(r)
    \/ MakeDirectory(r)
    \/ OpenShard(r)
    \/ WriteShard(r)
    \/ ScheduleWrite(r)

Next ==
    \/ DriverStep
    \/ \E r \in Ranks : WorkerStep(r)
    \/ \E w \in pending : BackgroundWrite(w)
    \/ StartAgain

Spec == Init /\ [][Next]_vars

\* Driver and workers are plain sequential code and the background processes
\* run by themselves; kills are possible and never certain.
Fairness ==
    /\ WF_vars(DriverStep)
    /\ \A r \in Ranks : WF_vars(WorkerStep(r))
    /\ WF_vars(\E w \in pending : BackgroundWrite(w))

FairSpec == Spec /\ Fairness

-----------------------------------------------------------------------------
(* Type invariant.                                                         *)

Contents == [run : -1 .. MaxRuns, updates : 0 .. total_training_steps + MaxRuns,
             drawn : 0 .. total_step]

Phases == {"starting", "loop", "update", "save", "data", "tracker", "export", "copy",
           "closing save", "closing data", "closing tracker", "finished", "failed"}

\* Every variable has its type; in particular no step is numbered beyond the
\* directories a job of MaxRuns runs can make.
TypeOK ==
    /\ made \subseteq StepNames
    /\ shards \in [StepNames -> [Ranks -> Contents]]
    /\ data \in [StepNames -> Contents]
    /\ tracker \in StepNames \cup {NoTracker, EmptyTracker}
    /\ final \in Contents
    /\ config \in Configs
    /\ run \in 1 .. MaxRuns
    /\ phase \in Phases
    /\ global_steps \in 0 .. total_training_steps + MaxRuns
    /\ updates \in 0 .. total_training_steps + MaxRuns
    /\ drawn \in 0 .. total_step
    /\ previous_saved_paths \in Seq(StepNames)
    /\ worker \in [Ranks -> {"idle", "rotate", "ready", "writing", "written"}]
    /\ pending \subseteq [step : StepNames, rank : Ranks, content : Contents]

(* Safety.                                                                 *)

\* A directory whose shards and dataloader come from one moment of one run.
CompleteAt(n, c) ==
    /\ n \in made
    /\ IsFile(c)
    /\ \A r \in Ranks : shards[n][r] = c
    /\ data[n] = c

\* What the tracker names can be loaded, at every moment a kill can come: all of
\* its shards and its dataloader are there, whole, and of one moment of one run.
TrackedIsComplete ==
    tracker \in StepNames => \E c \in Contents : CompleteAt(tracker, c)

\* From the first tracked checkpoint on there is always a whole one on disk, also
\* between the two steps of a tracker's rewrite and after a load that failed: what
\* an operator needs to name it by hand.
SomethingToResume ==
    tracker # NoTracker => \E n \in StepNames, c \in Contents : CompleteAt(n, c)

\* Nobody writes to, or removes from, the checkpoint the tracker names.
TrackedIsFrozen ==
    [][\A n \in StepNames :
          tracker = n => shards'[n] = shards[n] /\ data'[n] = data[n]]_vars

\* While no save is under way, at most max_actor_ckpt_to_keep checkpoints hold any
\* file this run has written.  Those of earlier runs are not counted: the list of
\* saved paths is empty in every new process.
AtMostMaxToKeep ==
    MaxToKeep > 0 /\ ~AsyncSave /\ phase \in {"loop", "update", "finished"} =>
        Cardinality({n \in StepNames : \E r \in Ranks : shards[n][r].run = run})
            <= MaxToKeep

\* The exported model is never ahead of the checkpoint a restart would load: a
\* model that has been handed out is not forgotten, but for a tracker that was cut.
FinalIsDurable ==
    IsFile(final) /\ ~AsyncSave =>
        \/ tracker = EmptyTracker
        \/ tracker \in StepNames /\ data[tracker].updates >= final.updates

\* A run that ends by itself leaves all its updates in the checkpoint it tracks.
FinishedIsSaved ==
    phase = "finished" /\ ~AsyncSave =>
        tracker \in StepNames /\ data[tracker].updates = updates

\* So does the first run, which finds no directories of earlier ones.
FirstRunIsSaved == run = 1 => FinishedIsSaved

-----------------------------------------------------------------------------
(* Refinement.                                                             *)

\* What a start of the job would load now; of a cut tracker, nothing.
Durable ==
    IF tracker = EmptyTracker THEN [updates |-> -1, drawn |-> -1]
    ELSE IF tracker = NoTracker THEN [updates |-> 0, drawn |-> 0]
    ELSE Progress(data[tracker])

Live ==
    IF phase \in {"starting", "failed"} THEN Durable
    ELSE [updates |-> updates, drawn |-> drawn]

Training == INSTANCE DurableTraining WITH live <- Live, durable <- Durable

\* Through all the files, workers, kills and restarts, a save becomes durable when
\* the tracker is written and a restart continues exactly from the last durable
\* progress, with the model and the dataloader of the same moment.
ImplementsDurableTraining == Training!Spec

-----------------------------------------------------------------------------
(* Liveness.                                                               *)

\* The job comes to its end, or to a start that fails, however often it is killed
\* on the way: no barrier waits for a worker that waits for it.
JobEnds == <>[](phase \in {"finished", "failed"})

=============================================================================
