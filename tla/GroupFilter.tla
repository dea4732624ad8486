----------------------------- MODULE GroupFilter -----------------------------
(***************************************************************************)
(* How the DAPO trainer fills a training batch (the generation loop of     *)
(* RayDAPOTrainer.fit in verl/ui_mopd/dapo_trainer.py with                 *)
(* filter_groups.enable, and check_thought_action_consistency in           *)
(* verl/ui_mopd/reward/gui_agent_thought_verify.py).                       *)
(*                                                                         *)
(* Every generation batch is drawn from the dataloader, rolled out         *)
(* rollout.n times per prompt, scored, and filtered by group: prompts      *)
(* whose rollouts are all correct or all wrong give no advantage and are   *)
(* dropped.  Generation batches are accumulated until train_batch_size     *)
(* prompts have been kept; the surplus is cut off.  Before the update a    *)
(* model may overturn correct rollouts whose thought does not match their  *)
(* action.                                                                 *)
(*                                                                         *)
(* The dataloader is represented by what it promises (EpochSampler): rows  *)
(* come in passes, and a batch may take the end of one pass and the        *)
(* beginning of the next.  The metric is "acc" with the thresholds 0 and 1 *)
(* and the verdict on a rollout is correct or wrong.                       *)
(*                                                                         *)
(* A definition called a variant is a wrong version of the one after it:   *)
(* it shows which property would notice the fault.                         *)
(***************************************************************************)
EXTENDS Integers, Sequences, FiniteSets, Functions

CONSTANTS
    Rows,              \* the rows of the dataset, which are also the uids
    gen_batch_size,
    train_batch_size,
    n,                 \* rollout.n
    max_num_gen_batches,
    Replay             \* passrate1_strategy = "replay": solved rows may be skipped

ASSUME FilterAssumption ==
    /\ IsFiniteSet(Rows) /\ Rows # {}
    /\ gen_batch_size \in Nat \ {0}
    /\ train_batch_size \in Nat \ {0}
    /\ n \in Nat \ {0}
    /\ max_num_gen_batches \in Nat
    /\ Replay \in BOOLEAN

VARIABLES
    due,                   \* the rows this pass has not offered yet
    solved,                \* the loader's passrate1_set
    new_batch,             \* the rows sampled for the next generation batch
    batch,                 \* the accumulated trajectories, in order
    num_prompt_in_batch,
    num_gen_batches,       \* counted only where max_num_gen_batches limits it
    phase,
    twice                  \* history: the rows of this batch that one generation
                           \* batch has drawn more than once

vars == << due, solved, new_batch, batch, num_prompt_in_batch, num_gen_batches, phase,
           twice >>

Trajectories == [uid : Rows, correct : BOOLEAN]
traj_bsz == train_batch_size * n

Init ==
    /\ due = {}
    /\ solved = {}
    /\ new_batch = << >>
    /\ batch = << >>
    /\ num_prompt_in_batch = 0
    /\ num_gen_batches = 0
    /\ phase = "sample"
    /\ twice = {}

-----------------------------------------------------------------------------
(* Groups of trajectories.                                                 *)

Of(uid, trajectories) == {i \in DOMAIN trajectories : trajectories[i].uid = uid}
CorrectOf(uid, trajectories) == {i \in Of(uid, trajectories) : trajectories[i].correct}

\* The mean score of the uid is strictly between 0 and 1.
Mixed(uid, trajectories) ==
    /\ CorrectOf(uid, trajectories) # {}
    /\ CorrectOf(uid, trajectories) # Of(uid, trajectories)

kept_prompt_uids(trajectories) ==
    {uid \in Range(new_batch) :
        Mixed(uid, trajectories) \/ Cardinality(Of(uid, trajectories)) = 1}

\* The trajectories whose uid is kept, in their order: kept_traj_idxs collected one
\* index after the other, and the batch indexed by it.
kept_trajs(trajectories, kept) ==
    LET upTo[i \in 0 .. Len(trajectories)] ==
            IF i = 0 THEN << >>
            ELSE upTo[i - 1] \o (IF trajectories[i].uid \in kept
                                 THEN << trajectories[i] >> ELSE << >>)
    IN  upTo[Len(trajectories)]

\* The rollouts of the generation batch, the n of each prompt side by side.
Rollouts(verdicts) ==
    [i \in 1 .. gen_batch_size * n |->
        [uid |-> new_batch[(i - 1) \div n + 1], correct |-> verdicts[i]]]

\* batch[:traj_bsz]
Cut(b) == SubSeq(b, 1, IF Len(b) < traj_bsz THEN Len(b) ELSE traj_bsz)

-----------------------------------------------------------------------------

\* One row offered by the dataloader: taken, or skipped when it was solved
\* completely the last time.
Sample ==
    /\ phase = "sample"
    /\ Len(new_batch) < gen_batch_size
    /\ \E row \in (IF due = {} THEN Rows ELSE due) :
          /\ due' = (IF due = {} THEN Rows ELSE due) \ {row}
          /\ \/ new_batch' = Append(new_batch, row)
             \/ Replay /\ row \in solved /\ UNCHANGED new_batch
    /\ UNCHANGED << solved, batch, num_prompt_in_batch, num_gen_batches, phase,
                    twice >>

\* Rollout, reward, feedback to the dataloader, filter, accumulation and cut.
FilterGroups(verdicts) ==
    LET scored == Rollouts(verdicts)
        kept == kept_prompt_uids(scored)
        kept_traj == kept_trajs(scored, kept)
        prompts == num_prompt_in_batch + Cardinality(kept)
        tries == IF max_num_gen_batches > 0 THEN num_gen_batches + 1 ELSE 0
    IN
    /\ phase = "sample"
    /\ Len(new_batch) = gen_batch_size
    /\ solved' = (solved \ Range(new_batch))
                    \cup {uid \in Range(new_batch) :
                             CorrectOf(uid, scored) = Of(uid, scored)}
    /\ num_prompt_in_batch' = prompts
    /\ num_gen_batches' = tries
    /\ IF prompts < train_batch_size
       THEN /\ batch' = batch \o kept_traj
            /\ phase' = IF max_num_gen_batches > 0 /\ tries >= max_num_gen_batches
                        THEN "raised" ELSE "sample"
       ELSE /\ batch' = Cut(batch \o kept_traj)
            /\ phase' = "verify"
    /\ new_batch' = << >>
    /\ twice' = twice \cup {uid \in kept : Cardinality(Of(uid, scored)) > n}
    /\ UNCHANGED due

GenerateBatch ==
    \E verdicts \in [1 .. gen_batch_size * n -> BOOLEAN] : FilterGroups(verdicts)

\* Variant: nobody is exempt.
CheckWithoutExemption ==
    /\ phase = "verify"
    /\ \E rejected \in SUBSET {i \in DOMAIN batch : batch[i].correct} :
          batch' = [i \in DOMAIN batch |->
              [batch[i] EXCEPT !.correct = @ /\ i \notin rejected]]
    /\ phase' = "update"
    /\ UNCHANGED << due, solved, new_batch, num_prompt_in_batch, num_gen_batches,
                    twice >>

\* The consistency check rejects some of the correct trajectories, none where the
\* service is down; a uid all of whose correct trajectories are rejected is
\* exempt, the others' rejected trajectories become wrong.
CheckConsistency ==
    /\ phase = "verify"
    /\ \E rejected \in SUBSET {i \in DOMAIN batch : batch[i].correct} :
          LET exempt == {uid \in Rows : CorrectOf(uid, batch) \subseteq rejected}
          IN batch' = [i \in DOMAIN batch |->
                [batch[i] EXCEPT !.correct =
                    @ /\ (i \in rejected => batch[i].uid \in exempt)]]
    /\ phase' = "update"
    /\ UNCHANGED << due, solved, new_batch, num_prompt_in_batch, num_gen_batches,
                    twice >>

\* Variant: the counter of prompts is not reset.
UpdateWithoutReset ==
    /\ phase = "update"
    /\ batch' = << >>
    /\ num_gen_batches' = 0
    /\ phase' = "sample"
    /\ twice' = {}
    /\ UNCHANGED << due, solved, new_batch, num_prompt_in_batch >>

\* The model is updated on the batch, and the next step starts from nothing.
UpdateActor ==
    /\ phase = "update"
    /\ batch' = << >>
    /\ num_prompt_in_batch' = 0
    /\ num_gen_batches' = 0
    /\ phase' = "sample"
    /\ twice' = {}
    /\ UNCHANGED << due, solved, new_batch >>

Next == Sample \/ GenerateBatch \/ CheckConsistency \/ UpdateActor

Spec == Init /\ [][Next]_vars

-----------------------------------------------------------------------------

\* Every variable has its type; the prompts counted stay below a training batch and one
\* generation batch, and the generation batches within their limit.
TypeOK ==
    /\ due \subseteq Rows
    /\ solved \subseteq Rows
    /\ new_batch \in Seq(Rows) /\ Len(new_batch) <= gen_batch_size
    /\ batch \in Seq(Trajectories)
    /\ num_prompt_in_batch \in 0 .. train_batch_size - 1 + gen_batch_size
    /\ num_gen_batches \in 0 .. max_num_gen_batches
    /\ phase \in {"sample", "raised", "verify", "update"}
    /\ twice \subseteq Rows

\* Prompts are counted, trajectories are cut, and a row drawn twice counts as one
\* prompt with twice the trajectories: still every training batch holds exactly
\* train_batch_size * n trajectories, and no prompt's n rollouts are torn apart.
BatchIsWhole ==
    phase \in {"verify", "update"} =>
        /\ Len(batch) = traj_bsz
        /\ \A k \in 0 .. train_batch_size - 1 :
              \A i, j \in k * n + 1 .. (k + 1) * n : batch[i].uid = batch[j].uid

\* "Filter the prompts that are all correct or all wrong", and "exempt a uid whose
\* data are all inconsistent, lest its group is all negative": every group of the
\* batch that reaches the update holds a correct and a wrong rollout, so that it
\* has an advantage.
GroupsAreMixed ==
    phase \in {"verify", "update"} =>
        \A i \in DOMAIN batch : Mixed(batch[i].uid, batch)

\* The same of the rows that no generation batch has drawn twice, when there are at
\* least two rollouts of each: although generation batches are joined and cut, and
\* the check overturns verdicts after the filter has used them, all their groups
\* have an advantage.
SingleDrawsAreMixed ==
    n > 1 /\ phase \in {"verify", "update"} =>
        \A i \in DOMAIN batch : batch[i].uid \in twice \/ Mixed(batch[i].uid, batch)

=============================================================================
