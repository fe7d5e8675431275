------------------------------ MODULE Checkpoint ------------------------------
(***************************************************************************)
(* Checkpoints of fully asynchronous training: what the trainer writes     *)
(* when, in which order, what the checkpoint manager removes, and what a   *)
(* run that is started again makes of it.                                  *)
(*                                                                         *)
(* The rollouter goes on while the trainer saves, so the position of the   *)
(* data loader is taken later than the weights; samples are numbered by    *)
(* that position.  What happens to a sample in between is the subject of   *)
(* FullyAsync: here it is in flight, and the batches are taken from what   *)
(* is in flight in any order.  Weights are the samples they were trained   *)
(* on.  There is no critic, and resume_mode is "auto".                     *)
(***************************************************************************)
EXTENDS Integers, Sequences, FiniteSets

CONSTANTS
    N,              \* total_rollout_steps
    R,              \* required_samples
    T,              \* trigger_parameter_sync_step
    SaveFreq,       \* trainer.save_freq
    Window,         \* samples the rollouter holds between data loader and trainer
    Keeps,          \* the settings of max_actor_ckpt_to_keep, 0 for none
    MaxCrashes      \* bound: crashes, and repetitions of a run that had ended

ASSUME CheckpointAssumption ==
    /\ N \in Nat \ {0} /\ R \in Nat \ {0} /\ T \in Nat \ {0}
    /\ SaveFreq \in Nat \ {0} /\ Window \in Nat /\ Window >= R
    /\ Keeps \subseteq Nat /\ MaxCrashes \in Nat

NoTracker == 0      \* the tracker file does not exist
Torn == -1          \* it exists and is empty

VARIABLES
    keep,           \* max_actor_ckpt_to_keep
    actor,          \* global_step_<v>/actor, of the versions for which it is whole
    data,           \* global_step_<v>/data.pt, of those that have one
    tracker,        \* latest_checkpointed_iteration.txt
    loader,         \* the rollouter: samples taken from the data loader,
    steps, closed,  \* its global_steps, and whether the feeder has ended
    inflight,
    pc, version,    \* the trainer: current_param_version,
    local,          \* local_trigger_step,
    lastCkpt,       \* last_ckpt_version,
    saved,          \* previous_saved_paths of the checkpoint manager,
    learned,        \* the weights in memory,
    ending,         \* and whether it has left its loop
    crashes

disk == <<actor, data, tracker>>
rollouter == <<loader, steps, closed, inflight>>
progress == <<version, local, learned>>
memory == <<progress, lastCkpt, saved, ending>>
vars == <<keep, disk, rollouter, pc, memory, crashes>>

-----------------------------------------------------------------------------
(* The rollouter *)

\* mutant: nothing holds the feeder back
Unbounded == TRUE

\* mutant: less than a batch fits in
RoomBelowBatch == Cardinality(inflight) < R - 1

\* pending_queue, the tasks and the message queue are not full
Room == Cardinality(inflight) < Window

\* mutant: the feeder goes on for one sample more
AtEndLate == steps > N

\* the feeder's test, made after a sample was put
AtEnd == steps >= N

Feed ==
    /\ pc \notin {"down", "stuck", "ended"} /\ ~closed /\ Room
    /\ loader' = loader + 1 /\ inflight' = inflight \cup {loader + 1}
    /\ closed' = AtEnd
    /\ steps' = IF AtEnd THEN steps ELSE steps + 1
    /\ UNCHANGED <<keep, disk, pc, memory, crashes>>

-----------------------------------------------------------------------------
(* The trainer *)

\* mutant: a version is complete one step early
AdvanceEarly ==
    IF local < T - 1 THEN local' = local + 1 /\ version' = version
    ELSE local' = 1 /\ version' = version + 1

\* _fit_update_local_step
Advance ==
    IF local < T THEN local' = local + 1 /\ version' = version
    ELSE local' = 1 /\ version' = version + 1

\* fit_step: a batch is learned; _fit_save_checkpoint follows, early if the
\* instance is about to expire, and never twice for a version
Step ==
    /\ pc = "train"
    /\ \E B \in SUBSET inflight :
          /\ Cardinality(B) = R
          /\ inflight' = inflight \ B /\ learned' = learned \cup B
    /\ Advance
    /\ \E expiring \in BOOLEAN :
          pc' = IF version' # lastCkpt /\ (version' % SaveFreq = 0 \/ expiring)
                THEN "save" ELSE "train"
    /\ UNCHANGED <<keep, disk, loader, steps, closed, lastCkpt, saved, ending, crashes>>

\* the end of the stream, with less than a batch left; the last save is forced
Stop ==
    /\ pc = "train" /\ closed /\ Cardinality(inflight) < R
    /\ inflight' = {} /\ ending' = TRUE
    /\ pc' = IF version # lastCkpt THEN "save" ELSE "ended"
    /\ UNCHANGED <<keep, disk, loader, steps, closed, progress, lastCkpt, saved, crashes>>

-----------------------------------------------------------------------------
(* _save_checkpoint: actor, data loader, tracker *)

Oldest(s, n) == {s[i] : i \in 1 .. n}
Without(s, n) == SubSeq(s, n + 1, Len(s))
Remove(f, S) == [v \in DOMAIN f \ S |-> f[v]]
Write(f, v, x) == [u \in DOMAIN f \cup {v} |-> IF u = v THEN x ELSE f[u]]

\* mutant: room is made for two new checkpoints
SurplusTwo == IF keep > 1 /\ Len(saved) >= keep THEN Len(saved) - keep + 2 ELSE 0

\* ensure_checkpoint_capacity: how many are removed before a new one is written
Surplus == IF keep > 1 /\ Len(saved) >= keep THEN Len(saved) - keep + 1 ELSE 0

\* register_checkpoint: how many are removed after it was written
Excess(s) == IF keep > 0 /\ Len(s) > keep THEN Len(s) - keep ELSE 0

\* mutant: the last checkpoint makes room before the new one is written
BeginByRemoving ==
    /\ pc = "save"
    /\ actor' = Remove(actor, Oldest(saved, Len(saved)) \cup {version})
    /\ saved' = <<>> /\ pc' = "actor"
    /\ UNCHANGED <<keep, data, tracker, rollouter, progress, lastCkpt,
                   ending, crashes>>

\* old checkpoints make room, and the shards are written from here on
BeginActor ==
    /\ pc = "save"
    /\ actor' = Remove(actor, Oldest(saved, Surplus) \cup {version})
    /\ saved' = Without(saved, Surplus)
    /\ pc' = "actor"
    /\ UNCHANGED <<keep, data, tracker, rollouter, progress, lastCkpt,
                   ending, crashes>>

\* they are all there, and the checkpoint is registered
EndActor ==
    /\ pc = "actor"
    /\ LET s == Append(saved, version)
       IN  /\ actor' = Remove(Write(actor, version, learned), Oldest(s, Excess(s)))
           /\ saved' = Without(s, Excess(s))
    /\ pc' = "data"
    /\ UNCHANGED <<keep, data, tracker, rollouter, progress, lastCkpt, ending, crashes>>

\* the rollouter saves the data loader, which is ahead of the trainer
SaveData ==
    /\ pc = "data"
    /\ data' = Write(data, version, loader)
    /\ pc' = "open"
    /\ UNCHANGED <<keep, actor, tracker, rollouter, memory, crashes>>

\* open(..., "w") empties the tracker file
OpenTracker ==
    /\ pc = "open"
    /\ tracker' = Torn /\ pc' = "write"
    /\ UNCHANGED <<keep, actor, data, rollouter, memory, crashes>>

\* and it is written when the file is closed
WriteTracker ==
    /\ pc = "write"
    /\ tracker' = version /\ lastCkpt' = version
    /\ pc' = IF ending THEN "ended" ELSE "train"
    /\ UNCHANGED <<keep, actor, data, rollouter, progress, saved, ending,
                   crashes>>

-----------------------------------------------------------------------------
(* Crash, and the start of a run *)

\* the processes go, at any moment; a run that had ended may be started again too
Crash ==
    /\ pc \notin {"down", "stuck"} /\ crashes < MaxCrashes
    /\ crashes' = crashes + 1
    /\ pc' = "down"
    /\ loader' = 0 /\ steps' = 1 /\ closed' = FALSE /\ inflight' = {}
    /\ version' = 0 /\ local' = 1 /\ lastCkpt' = 0 /\ saved' = <<>>
    /\ learned' = {} /\ ending' = FALSE
    /\ UNCHANGED <<keep, disk>>

\* mutant: the data loader starts where the count of trained samples says
ResumeByCount(v) ==
    /\ version' = v /\ lastCkpt' = v /\ learned' = actor[v]
    /\ loader' = v * R * T /\ steps' = v * R * T + 1

\* load_checkpoint of trainer and rollouter, from the checkpoint of version v
Resume(v) ==
    /\ version' = v /\ lastCkpt' = v /\ learned' = actor[v]
    /\ steps' = v * R * T + 1
    /\ loader' = IF v \in DOMAIN data THEN data[v] ELSE 0

\* from the beginning, from a checkpoint, or not at all: the tracker is no
\* number, or the shards are gone
Start ==
    /\ pc = "down"
    /\ \/ tracker = NoTracker /\ pc' = "train" /\ UNCHANGED <<version, lastCkpt, learned, loader, steps>>
       \/ tracker \in DOMAIN actor /\ pc' = "train" /\ Resume(tracker)
       \/ /\ tracker # NoTracker /\ tracker \notin DOMAIN actor
          /\ pc' = "stuck" /\ UNCHANGED <<version, lastCkpt, learned, loader, steps>>
    /\ UNCHANGED <<keep, disk, closed, inflight, local, saved, ending, crashes>>

-----------------------------------------------------------------------------
Init ==
    /\ keep \in Keeps
    /\ actor = [v \in {} |-> {}] /\ data = [v \in {} |-> 0] /\ tracker = NoTracker
    /\ loader = 0 /\ steps = 1 /\ closed = FALSE /\ inflight = {}
    /\ pc = "train" /\ version = 0 /\ local = 1 /\ lastCkpt = 0
    /\ saved = <<>> /\ learned = {} /\ ending = FALSE
    /\ crashes = 0

Save == BeginActor \/ EndActor \/ SaveData \/ OpenTracker \/ WriteTracker

Next == Feed \/ Step \/ Stop \/ Save \/ Crash \/ Start

Spec == Init /\ [][Next]_vars

\* feeder and trainer go on, and a run that crashed is started again
FairSpec == Spec /\ WF_vars(Feed) /\ WF_vars(Step \/ Stop \/ Save) /\ WF_vars(Start)

-----------------------------------------------------------------------------
(* Properties *)

\* the versions that N samples, and one more for every crash, are enough for
Versions == {v \in 0 .. N + MaxCrashes : R * T * v <= N + crashes}

\* The types, with the length of a run: N samples are fed and trained, and when a
\* run that had ended is started again one more, since _feed_samples tests its
\* count only after it has put a sample.
TypeOK ==
    /\ keep \in Keeps /\ tracker \in Versions \cup {Torn}
    /\ DOMAIN actor \subseteq Versions \ {0} /\ \A v \in DOMAIN actor : actor[v] \subseteq Nat
    /\ DOMAIN data \subseteq Versions \ {0} /\ \A v \in DOMAIN data : data[v] \in Nat
    /\ loader \in Nat /\ steps \in 1 .. N + crashes /\ closed \in BOOLEAN
    /\ inflight \subseteq 1 .. loader
    /\ pc \in {"train", "save", "actor", "data", "open", "write", "ended", "down", "stuck"}
    /\ version \in Versions /\ local \in 1 .. T /\ lastCkpt \in Versions
    /\ saved \in Seq(Versions) /\ learned \subseteq Nat /\ ending \in BOOLEAN
    /\ crashes \in 0 .. MaxCrashes

\* The checkpoint that the tracker names can be loaded, at every moment at which
\* the run may be cut off: its shards are all there, and its data loader is past
\* every sample its weights were trained on.  With max_actor_ckpt_to_keep = 1 it
\* is not so: register_checkpoint removes its shards before the tracker is
\* written.
TrackedComplete ==
    tracker \notin {NoTracker, Torn} /\ keep # 1 =>
        /\ tracker \in DOMAIN actor \cap DOMAIN data
        /\ actor[tracker] \subseteq 1 .. data[tracker]

\* Once a checkpoint was announced there is always one on disk that is whole,
\* for every setting of max_actor_ckpt_to_keep, also when the tracker is torn or
\* names another.
SomeCheckpoint == tracker # NoTracker => DOMAIN actor # {}

\* No sample is trained twice into the same weights, however often training is
\* resumed: what the rollouter holds is new to the weights in memory.
NoSampleTwice == inflight \cap learned = {}

\* A version is what its number says, in memory and on disk: at least version
\* batches of R * T samples, and more by the local steps since and by what each
\* resumption added to a version saved early.
LabelHonest ==
    /\ Cardinality(learned) >= R * T * version + R * (local - 1)
    /\ Cardinality(learned) <= R * T * version + R * (local - 1) + crashes * R * (T - 1)
    /\ \A v \in DOMAIN actor : Cardinality(actor[v]) >= R * T * v

\* Resuming skips the samples that were in flight when the data loader was saved
\* (the comment in save_checkpoint says so) and no others: at most a window for
\* every resumption.
SkippedBound ==
    Cardinality((1 .. loader) \ (learned \cup inflight)) <= Window * crashes + (R - 1)

\* Training ends, through every crash, unless it cannot be resumed.
TrainingEnds == <>[](pc \in {"ended", "stuck"})
=============================================================================
