# A verification project for CoT compression

The repository trains language models on compressed chains of thought. It has
its own code (`src/src`): generators of arithmetic problems with solutions in
several styles, the workers that write data sets, the preparation for
reinforcement learning, a reward and an evaluation. It carries two frameworks
in-tree, LLaMA-Factory and verl; the fully asynchronous trainer of verl is the
part with real concurrency. All paths below are relative to the repository,
which is `src/` here.

## Inventory

| component | state | operations | hard about it |
|---|---|---|---|
| problem chains (`src/src/generator.py`) | values, ops, constants | `generate_chain` | nothing checks that a chain and its solutions agree |
| solution writers (same file) | linear forms, groups, a tree of segments | `normalforward_`, `composedforward_`, `rightforward_`, `balanceforward_`, `implicit_solution` | signs, reductions and parentheses that cancel on most inputs |
| generation workers (`datagenerationworker.py`) | items per operation, files | `work_function`, `_work_all_variants` | retry loops, appending on re-runs, one seed per worker |
| RLVR and SFT preparation (`prepare_rlvr_data.py`, `prepare_arithmetic_sft.py`) | records, writers | collect, split, register | training and validation records of one problem |
| reward and evaluation (`rlvr_reward.py`, `eval_pass1.py`) | none | compare two answers | different readings of "the answer" |
| rollouter (`verl/verl/experimental/fully_async_policy/fully_async_rollouter.py`) | pending queue, active tasks, staleness count, pause flag and resume event, a lock | feeder, processor, a task per sample, monitor, `reset_staleness` | coroutines that decide on answers that are stale, an unlocked counter, drains, failures |
| message queue (`message_queue.py`) | a bounded deque | put, get, size, clear | overflow drops the oldest entry silently |
| trainer and driver (`fully_async_trainer.py`, `fully_async_main.py`) | batch, local step, version | collect, train, update weights, stop | no timeouts: it ends only by the end marker |
| load balancer, elastic replicas (`llm_server.py`, `fully_async_rollouter.py`) | load per server, sticky sessions | acquire, release, add, remove | releases that nobody awaits, servers that come and go under requests |
| partial rollout, weight synchronisation (`fully_async_rollouter.py`, `checkpoint_engine/base.py`, `vllm_async_server.py`) | paused engines, weights and their version, tokens so far | abort, transfer, resume; the client's loop | generations cut off anywhere, versions read late |
| checkpoints (`fully_async_trainer.py`, `fully_async_rollouter.py`, `utils/checkpoint`) | shards, data loader, tracker file | save, rotate, load | a crash between any two writes; trainer and data loader saved at different moments |
| agent and reward loops, engines, models | see the component list of `PROJECT.json` | | out of scope, each with its reason |

Interaction: generator -> workers -> files -> preparation -> training. Within
fully asynchronous training, rollouter, message queue and trainer are three Ray
actors that share nothing but remote calls: the rollouter's tasks put samples
into the queue, its processor and monitor ask for the queue's size, the trainer
gets samples, and after each weight update it calls the rollouter's
`reset_staleness`, which asks for the queue's size in turn. Below the
rollouter's tasks, clients ask the load balancer for a server, which the trainer
stops, loads and resumes; and the trainer writes checkpoints, for which the
rollouter saves its data loader.

What makes each correct: a solution states nothing false and ends in its
answer; the rollouter never runs further ahead than the staleness allows; no
sample is lost silently or trained twice; the end marker comes last, always
comes, and arrives; whatever pauses is woken, and training ends; a response
reports the versions that made it and fits its budget; what a crash leaves can
be resumed, or the documentation of this project says when not.
The `hazards` of `PROJECT.json` give the lines where these could go wrong.

## Modules

| module | what it is | checked by | proved in |
|---|---|---|---|
| `FullyAsync` | rollouter, message queue, trainer, driver | five runs | `FullyAsync_proofs` |
| `Pipeline` | the abstract producer and consumer that `FullyAsync` implements | `FullyAsync_safety` | `FullyAsync_proofs` |
| `Serving` | load balancer, resuming clients, servers, weight synchronisation, trainer-side validation | `Serving`, `Serving_stream` | `Serving_proofs` |
| `Checkpoint` | saving, rotation, crash and resume | `Checkpoint` | `Checkpoint_proofs` |
| `DataGen` | `datagenerationworker.py` | through `DataPrep` | `DataPrep_proofs` |
| `Grading` | reward and evaluation of a text | through `DataPrep` | `DataPrep_proofs` |
| `DataPrep` | both preparations and the evaluation, composed with the two above; `DataPrepMC` is its instance | `DataPrep` | `DataPrep_proofs` |
| `LinearForm` | the modular arithmetic of the solution writers | through the next | |
| `Chain` | `generate_chain`, extended by the next three | through them | `Chain_proofs` (lemmas) |
| `Backward` | `rightforward_solution` | `Backward` | `Backward_proofs` |
| `Grouped` | `composedforward_solution`; explicit and implicit solutions are cases of it | `Grouped` | `Grouped_proofs` |
| `Hierarchical` | `balanceforward_solution`, over a tree of segments | `Hierarchical` | `Hierarchical_proofs` |

`FullyAsync`, `Serving` and `Checkpoint` are three views of one program, cut
where they touch in few places: a generation is one step of unknown duration in
`FullyAsync` and a loop over servers in `Serving`; `update_weights` is one step
in the former and three rounds of calls in the latter; and `Checkpoint` keeps of
the rollouter only what is in flight and how far the data loader is.

### FullyAsync and the code

Samples are the numbers `1 .. N` in the order fed; the end marker (Python's
`None`) is `N + 1`. `fed` and `taken` are the two ends of `pending_queue`.
`active` is `active_tasks`; its members are running (no `put_sample` executed
yet), posted (executed, not answered), or done, and done tasks stay in it until
the processor reaps them, as in the code. `procPC`, `monPC`, `trPC`, `mainPC`
are the points where the coroutines wait.

*Atomicity.* The rollouter is one asyncio event loop, so an action is what a
coroutine runs between two suspensions. A remote call is two steps: it takes
effect in the other actor (`ProcAsk`, `MonAsk`, `ResetAsk`, `TaskPost`), and
later its answer is used (`ProcDecide` or `ProcPause`, `MonDecide`, `ResetSet`,
`TaskEnd`); anything may happen in between. `asyncio.Lock` is taken without
suspending when it is free and nobody waits; otherwise the coroutine queues up
(`Busy` and the states `pausing`, `reap`, `submit`, `finish`, `loop`,
`resume`, `resetLock`). The order among the waiters is left open, which only
adds behaviours to the first-in-first-out order of the implementation. A holder
that awaits with the lock held (`submitWait`, `finishWait`, `resetAsk`,
`resetSet`) is the value of `lock`.

| action | code in `fully_async_rollouter.py` unless named |
|---|---|
| `Feed` | `_feed_samples`, up to the next full queue |
| `ProcAsk`, `ProcDecide`, `ProcTake` | the test at the top of `_processor_worker`, `pending_queue.get()` and all that follows until it suspends (`Dispatch`) |
| `ProcPause`, `ProcPark`, `ProcDrainReap`, `ProcDrainResume` | the pause and the drain loop, l.853-893 |
| `ProcLock`, `ProcReap` | the waits at the end of the stream and for a free slot, l.903-931 |
| `TaskPost`, `TaskEnd` | `_process_single_sample_streaming`; a task of `Failing` may raise before it posts |
| `MonLoop`, `MonWake`, `MonAsk`, `MonDecide`, `MonResume` | `_async_monitor_loop` |
| `MainSentinel`, `MainStop` | `finally` of `_streaming_generation_main` |
| `MainClear` | `finally` of `_run_training_loop` (`fully_async_main.py`) |
| `TrainerGet`, `TrainerStep`, `TrainerSync`, `TrainerFinish` | `fully_async_trainer.py`: `_get_samples_from_queue`, `fit_step`, `_fit_update_weights`, the end of `fit` |
| `ResetPark`, `ResetBegin`, `ResetAsk`, `ResetSet` | `reset_staleness` |
| `Put` | `put_sample` of `message_queue.py` |

Left out: the content of samples, metrics, validation (it only delays the
trainer), profiling, exceptions of the data loader or of a remote call to the
queue, and replicas (a generation is one step of unknown duration). `MaxRequired`
is the exact product where `set_max_required_samples` takes `int()` of a product of
floats (l.531). The two tests of `self.paused` outside the drain find `FALSE`, which the invariant
`PausedWhileDraining` proves, so that no action models their other branch.

*The abstract pipeline.* `Pipeline` knows nothing of coroutines, locks, counters
or remote calls: a producer makes sample after sample within a window that the
consumer renews, the consumer uses each once, samples may be given up, and the
consumer is told that the stream is over only when nothing is on its way, unless
something broke. The mapping `Pipe` takes `made` from `taken`, `flight` from the
sample in hand, the running tasks and the queue, `kept` from the batch and what
was trained, `over` from the trainer having got the end marker, and the window
from `max_required_samples` and the one sample in hand. `ProcDecide`/`ProcTake`
are `Make`, `TrainerGet` is `Use` or `Finish`, a `put_sample` that drops and a
processor that dies with a sample in hand are `Lose`, a generation that raises is
`Break`, `ResetSet` with the update is `Renew`, the driver's clean-up is
`Discard`; all others stutter.

### Serving and the code

| action | code |
|---|---|
| `Acquire`, `Release` | `acquire_server`, `release_server`; the release is a message nobody awaits (`pend`) |
| `Arrive`, `Token`, `Ended`, `Limit` | `generate` of `vllm_async_server.py`: a paused engine holds the call back, a sleeping one fails; `max_tokens` from the length of the prompt |
| `Receive`, `Merge` | the loop of `FullyAsyncLLMServerClient.generate`, around the `finally` of `LLMServerClient.generate` |
| `Sync` | `_fit_update_weights`, with or without `_fit_validate` behind it; its calls are the scripts `Update` and `Validate` (`HybridUpdate` is `update_weights` of `engine_workers.py`, what the first call of `Validate` does on a hybrid server) |
| `Init` | the driver's synchronisation before training, done, and its validation before training (`val_before_train`), still to come or not asked for |
| `Instruct` | the next call, made when all servers have answered the last one (`asyncio.gather`) |
| `Operate` | one server carries out one operation: `Abort`, `Resume`, and what changes weights, memory and `global_steps` (`Device`) |

A token is the version of the weights it was computed with; `Mixed` are weights
being overwritten or released. What vLLM does (a paused engine blocks new calls,
an abort ends the running ones with what they have, an engine asleep fails) is
taken from how the code uses it. Four points deserve a word.

*Late calls.* Nothing orders a call that a client has sent with what the trainer
does meanwhile: `Arrive` may come after any number of the trainer's calls, and
`Sync` asks for nothing but the end of the last synchronisation. A server of the
rollouter is stopped before its weights are overwritten and holds a late call
back. A hybrid server is not: `_trainer_side_validate` loads it (l.566) without
stopping it, and has resumed it while it slept (l.593). What protects it is that
`update_weights` of `engine_workers.py` restores the memory of the weights, loads
them, names their version, and restores the KV cache last (l.705-742): before
that the engine is not awake and a call fails. This rests on
`free_cache_engine`, which is on by default; without it a hybrid server never
sleeps. A call that such an engine kept waiting instead of failing it would
be served as one that arrives after the cache is back, which is a behaviour of the
model too; only `RequestsEnd` depends on its failing, and the safety properties do
not. A request that is held back by a hybrid server when that falls asleep fails as
well, and the rollouter's task of `FullyAsync` then raises.

*Labels.* `generate` of `vllm_async_server.py` labels an answer with
`global_steps`, unless the final output has no `outputs` at all (l.547). A call
that is cut off before its first token may end either way, and `Ended` leaves open
which. The client may then have a `min_global_steps` of a version that none of its
tokens was computed with, but never a younger one than its first token's; this is
what `LabelsBracket` says.

*Validation before training.* Its requests are the validation's in the code, since
the rollouter is not running yet; the clients of the model may be any, which adds
behaviours only.

*Lengths.* With `Slack > 0` (a prompt shorter than `prompt_length`) a resumed
response may exceed `response_length`, never the sum, and the agent loop truncates
it. `Limit` leaves out the clamp by `max_model_len` and the error of a prompt that
exceeds it (l.471-477, 495), which only make the code stricter.

### Checkpoint and the code

| action | code |
|---|---|
| `Feed` | `_feed_samples`, as far as the pending queue, the tasks and the message queue hold it (`Room`) |
| `Step`, `Advance`, `Stop` | `fit_step` with `_fit_update_local_step` and the test of `_fit_save_checkpoint`; the end of `fit` with its forced save |
| `BeginActor`, `EndActor` | `save_checkpoint` of the FSDP manager, between `ensure_checkpoint_capacity` (`Surplus`) and `register_checkpoint` (`Excess`) |
| `SaveData` | the rollouter's `save_checkpoint` |
| `OpenTracker`, `WriteTracker` | `open(..., "w")` and the write of `latest_checkpointed_iteration.txt` |
| `Crash` | the processes end between any two of these |
| `Start`, `Resume` | `load_checkpoint` of trainer and rollouter; `stuck` is a run that cannot be resumed |

Weights are the set of samples they were trained on, so that "trained twice" and
"what a version number means" can be said. Two things to know of the code show
in the model and are stated by its properties, not hidden by them. With
`max_actor_ckpt_to_keep = 1` the shards the tracker names are removed before the
tracker is rewritten, and a crash there cannot be resumed from automatically,
though a whole checkpoint is on disk (`TrackedComplete` excludes this setting,
`SomeCheckpoint` holds for it). And the tracker, "for atomic usage" in a
comment, is emptied before it is written: a crash in between leaves a file in
which `int()` finds no number. The length of a run shows in the types: the feeder
tests `global_steps` after it has put a sample, so that a run that had ended feeds
one sample more than `total_rollout_steps` whenever it is started again, and with
batches of one trains it (`Versions` and `steps` in `TypeOK`).

### Data generation, preparation, grading and the code

`Launch`, `Draw`, `Write` and `Crash` of `DataGen` are `main`, one turn of the
loop, the write of one file and the death of a process. Both generation loops
are one: a pass writes all its modes from the same chains, `--all_nests` being a
single pass. A chain is what determines it, `[seed, past, op]`: the identifier
that seeds the generators, the draws since, and the operations asked for; so two
chains are equal when the program must produce the same text. A refused number
of operations draws a chain and raises, which the loop swallows. A text is
appended to the file of its operation and process, and a line without a newline
runs into the next one. `PrepareRlvr` reads the flat layout only, up to
`--max-files-per-op` files, and a torn line ends it before it writes;
`PrepareSft` reads both layouts and skips such lines. What a script reads is
the set of lines of its files, each known by its place (`Rows`); a data set is a
function from places to lines. The shuffle and the split are the choice of a set of
records of the size the fraction gives (`Split`), so that every shuffle is covered.
The order in which the lines are read (`Before`) matters where a limit cuts a mode
off: a line is kept when fewer lines of its mode than the limit come before it.
`Grading` keeps of a text
what the regular expressions tell apart. Left out: wording, `id` (Python's
randomised hash), `--force`, and names of files beyond ten processes
(`RlvrFiles` orders by number what `collect_files` sorts as strings; the two differ
from eleven processes on).

### The solution writers and the code

A linear form `a * X + b` is a pair. `Backward` rewrites it node by node
(`Start`, `Rewrite`, `PutIn`). `Grouped` keeps, instead of the text of an
expression, the pair `<<rest, last>>` of what a reader computes from it with the
usual precedence (`rest + last`, `last` being the product it ends in), so that a
missing parenthesis shows as a wrong value. `Hierarchical` collects every
equation the text states and every value it tells; the recursions of the code
over lists of segments are recursive functions over runs of segments
(`ChainRight`) and over the length of a prefix (`ResolveTree`). The value and the variable
form of an expression are built by the same loop twice in the code and once in
the model. Names, distractor sentences and wording are left out.

## Runs

| run | instance | properties | what it shows |
|---|---|---|---|
| `FullyAsync_safety` | 5 samples, batch 1, update after every batch, threshold 1, 2 slots, sample 2 may fail; 534 thousand states | `FreshInv`, `FreshnessBound`, `EverySampleInOnePlace`, `StopIsComplete`, `SentinelSurvives`, `ImplementsPipeline` | how far the rollouter runs ahead, where every sample is, and what the end marker promises |
| `FullyAsync_zero` | threshold 0, two batches per update; 31 thousand states | `SynchronousWhenZero` | threshold 0 is synchronous training, as documented, although nothing waits for it |
| `FullyAsync_live` | 4 samples, one slot, sample 3 may fail; 43 thousand states | `DrainEnds`, `TrainerStops` | a drain always ends and training ends |
| `FullyAsync_bound` | one slot | `RolloutNumBound` (violated) | the documented number of samples is exceeded by one |
| `FullyAsync_stall` | two slots against one stale sample | `TrainerStops` (violated) | training may stand still for ever |
| `Backward` | all chains of 3 operations, modulus 5 | `BackwardInv`, `EveryLineTrue`, `AnswerAgrees`, `Canonical` | backward solutions are true line by line |
| `Grouped` | all chains of 4 operations, groups of 1, 2, 3, 4 and 6; 500 thousand states | `GroupedInv`, `ExpressionMeansNode` | composed expressions mean what they say |
| `Hierarchical` | all chains of 8 operations with constants 1 and 2; 4.9 million states | `TypeOK`, `LinesTrue`, `TreeAgrees` | hierarchical solutions are true line by line |
| `DataPrep` | 5 kinds of commands, 2 commands, one death, 2 preparations, one evaluation; 258 thousand states | `GenTypeOK`, `QuotaMet`, `ModesShareChains`, `OneLinePerCrash`, `ValidationUnseen`, `SftServesFiles`, `GradedAlike`, `ReturnsIffProductive` | what is generated, what re-runs and deaths leave in the files, which commands return, and what becomes of the files |
| `Serving` | 2 requests of 2 tokens, one server and one hybrid server, a validation before training or none, an update with or without validation; 1.09 million states | `TypeOK`, `LoadCounted`, `TransferAlone`, `LabelsBracket`, `ResponseFits`, `RoutedAwake`, `RequestsEnd` | interruptions anywhere neither lose a request nor mislabel or mix what it is made of, and the load balancer counts right |
| `Serving_stream` | without partial rollout, one update | `NotCutShort` (violated) | responses are cut off where the documentation says they are waited for |
| `Checkpoint` | 7 samples in batches of one, 2 batches a version, every version saved, 2 crashes, keeping all, two or one; 645 thousand states | `TypeOK`, `TrackedComplete`, `SomeCheckpoint`, `NoSampleTwice`, `LabelHonest`, `SkippedBound`, `TrainingEnds` | what a crash leaves, and what is trained after it |

*Why the bounds are enough.* With a maximum of two outstanding samples five
samples suffice for pauses in mid-stream, a reset that races the processor, an
overflow of the message queue (also behind the end marker, when the processor
died and its orphaned tasks go on), and two more rounds after each. Eight
operations are the smallest chain whose tree resolves a left half and folds a
right half of two segments. The modulus of the runs is 5 where the code uses
23; the proofs hold for every modulus. In `Serving` a response of two
tokens can have one of each of two versions, both servers to move between and a call
aborted before, between and after them; a hybrid server is loaded, lent and put to
sleep twice, so that calls of the first validation arrive in the second; and the
other request competes for the load. A second update, which takes TLC far longer,
repeats the first; the proofs cover any number. In `Checkpoint` three versions exceed every retention setting but "all",
and the second crash may hit a run resumed from what the first one left. In
`DataPrep` a second command meets the files of the first, whole or torn; a
process draws at most five chains in a pass, which only the commands that never
return reach.

*Fairness.* Coroutines and remote calls are scheduled sooner or later: weak
fairness. The processor, the monitor and the trainer queue up for one lock;
`asyncio.Lock` serves its waiters in order, so each gets it: strong fairness
for these three. A generation is assumed to end (`Task`); the code has no
timeout for one that does not. `Serving`: remote calls are answered and the
trainer goes through with a synchronisation it began, but need not begin one (one
weak fairness: it either has a call to make or waits for operations, and those of
one call are finitely many); its clients are single coroutines, so one weak fairness
each. `Checkpoint`: a
run that crashed is started again. `DataPrep`: a process keeps running; nobody
has to type a command.

*The three findings.* `reset_staleness` sets the count to
`len(active_tasks) + queue size`. It misses the sample the processor has in
hand (`FullyAsync_bound`; `FreshnessBound` shows that it is one and never
more), and it counts tasks that are done but not yet reaped
(`FullyAsync_stall`). The second matters when the rollouter has as many slots
as `max_required_samples`: the count reaches the maximum with nothing
outstanding, the processor pauses, the monitor tests the same count and does not
resume, and the trainer waits for ever. With fewer slots than stale samples
allowed the reset leaves room and `FullyAsync_live` shows progress. The third is
about the stream mode without partial rollout: the documentation has the
rollouter wait for its running tasks when weights are synchronised, the code
aborts them and takes the truncated output for the response
(`Serving_stream`).

## Proofs

All theorems hold for every value of the constants within the named
assumptions: `ParametersAssumption` (positive batch, period, capacity and so
on, a rational threshold of zero or more), `ModAssumption`, `ChainAssumption`
and `NestsAssumption` (positive modulus, length and group sizes),
`ServingAssumption` (finitely many requests and servers, at least one that is not
hybrid), `CheckpointAssumption` (positive batch, period and frequency),
`ModulusAssumption` and `TextsAssumption`, and for the generation workers
`DataGenAssumption` (a command has at least one entry, pass, process and item, a
layout, and either one pass, as with `--all_nests`, or passes of one mode each, none
of them implicit, which are the `choices` of `--modes`)
and `MalformedAssumption` (a torn line is no line of an item).

- `FullyAsync_proofs`: `TypeCorrect`, and `Freshness` (`Spec => []FreshnessBound`).
  `FreshnessBound` is not inductive, for it says nothing of `staleness_samples`.
  The invariant `FreshInv` adds what the counter knows: it undercounts by the
  sample in hand at most, a processor that waits for an item decided to do so
  with room for one (`CountsCover`), the sum `reset_staleness` builds covers what
  it read although it read it at two moments (`ResetCovers`; nothing is submitted
  in between because the lock is held, `LockHolder`), running tasks are in
  `active_tasks` (`RunningIsActive`), and the end of the stream comes after the
  processor (`ProcessorEnds`). Each part has a lemma of its own; footprint
  lemmas say which actions touch the state a part speaks of. The counting lemmas
  `PutType`, `TaskCount`, `DispatchCount` and `UsedShrinks` carry the argument.
  `Implements` is the refinement, `Spec => Pipe!Spec`; with it come
  `SamplesInOnePlace`, `MarkerSurvives`, `NothingOnItsWay` and `CountersCover`.
  The invariant `PlaceInv` goes with `FreshInv`: no entry is queued twice
  (`NoDuplicate`), the six places share no sample (`Disjoint`) and cover what was
  taken (`Covered`), the end marker is in the queue until the trainer has it, and
  behind it there is room for every task that may still post (`Marker`: this is
  why a full queue never drops it, for a processor that died left a slot of
  `max_concurrent_samples` unused), and a processor that is through has no task
  (`ProcessorOver`). `FreshnessBound` is what makes every `Make` fit the window.
  The `Sets...` lemmas say what each step moves, the `...Refines` lemmas which
  abstract step it is, by way of the `...Maps` lemmas.
  `ZeroIsSynchronous` (`SynchronousWhenZero`) needs one invariant more, `SyncInv`:
  the samples fetched since the last reset are those of the batches since then
  (`BatchesFetched`), and without staleness the counter never falls behind what is
  fetched and outstanding (`NeverBehind`), for at a reset nothing is left that it
  could overlook.
- `Chain_proofs`: the laws of `%`, and that substitution into a form agrees with
  one operation of the chain. `Backward_proofs`: `LinesAreTrue`, `AnswersAgree`,
  `FormsAreCanonical`, by the invariant that the current form yields the target
  at the current node.
- `Grouped_proofs`: `ExpressionsMeanNodes`. The invariant needs
  `NoParensNeeded`: a text that is not marked as needing parentheses is a single
  product.
- `Hierarchical_proofs`: `EquationsAreOfNodes`, `EquationsAreTrue`, `TreeIsRight`,
  for every length of chain, by `HierarchicalInv`: the segments tile the chain in
  steps of two (`Cut`), and every equation stated is true and of nodes in order
  (`Sound`). What the two recursive functions of the tree compute is shown for a
  run by a least counterexample: that the functions satisfy their equations is
  `ChainRightIs` and `ResolveTreeIs`, that a form composed of two halves leads from
  its pivot to its end and the value of a prefix is its last node's is
  `TreesAreResolved`.

- `Checkpoint_proofs`, all invariants of the module: `TrackedIsComplete`,
  `OneCheckpointLeft`, `NeverTwice`, `SkipsAWindow`, `LabelsAreHonest`, `Typed`. The
  invariant `CkptInv` relates memory and disk: while a run is up the tracker is
  the version it saved last or torn (`TrackerOK`), the manager's list is ascending
  and ends at or before it (`SavedOK`), so that what rotation removes is never
  what is tracked (`DiskOK`), and a data loader saved after the weights is past
  all of their samples (`SamplesOK`). Three more invariants count on top of it, and
  in each what is on disk may be worse by one save than what the property allows,
  because it is only used after a crash, which allows it: by a window in `SkipInv`
  (`Lost` is what the data loader has given and the weights do not hold), by the
  local steps of an early save in `LabelInv`, and in `FedInv` by the one sample
  that the feeder puts before it tests its count. The products are handled by the
  lemmas `Batches`, `Slack` and `AdvanceCounts`.
- `Serving_proofs`: `LoadIsCounted`, `ResponseStaysWithin`. A request holds a server
  or owes it a release, never both (`ClientOK`), and hybrid servers alone come and
  go (`ScriptOK`); a generation that is to go on has room for a token and its call
  a limit that keeps to it (`Budget`). `TransfersAlone` and `AlwaysRoutedAwake` rest
  on `PhaseInv`, what a server is between two calls of the trainer: `Ordered` says
  what the order of the calls on the script guarantees and is kept by taking calls
  off its front; `StandaloneOK` and `HybridOK` relate a server's state to the calls
  still to come; `NothingServed`, a server that is stopped or asleep generates
  nothing. From these `TransferAlone` follows: a server whose weights are `Mixed` is
  stopped if it is the rollouter's and asleep if it is hybrid. No assumption on
  requests that are on their way is needed.
  `LabelsAreRight` (`LabelsBracket`) and `ServingTyped` rest on `AgeInv`. A server
  that generates has the weights of `Cur`, the version before the one the trainer
  is about to load until that call is made; a weight is loaded once in a script,
  before the hybrid servers are woken (`LoadedOnce`), and a hybrid server is awake
  only with the last version (`HybridAge`); so the tokens a client collects never
  decrease, those of one call are of one version, which is the label of its answer
  if it has one, and the first version noted is no younger than any token
  (`RequestAge`).
- `DataPrep_proofs`: `GradersAlwaysAgree`, for every text, gold answer and modulus,
  and with it `GradesAgree`. The two graders do not agree on every text, and the
  theorem does not say so: the reward is the more lenient one and takes `answer: 1`,
  `Answer: 24` or a bare `1` for the gold answer 1, which the evaluation rejects. It
  says that a text that commits itself once and passes the evaluation is rewarded,
  that the verdicts are the same on a text whose one answer is spelled `Answer:`,
  alone on its line and reduced (`WellPut`), and that a recorded solution passes
  both (`ScoreMatches` is the way from the reward to the evaluation). `WorkersTyped` and `CrashesSpoilOneLine` (`OneLinePerCrash`) by
  `GenInv`: there is at most one spoilt line per crash, where spoilt is also the
  whole line at the end of a file that has yet to be ended, since the next text is
  glued to it (`Spoilt`); an append moves that mark or clears it and never adds one.
  `QuotasAreMet` (`QuotaMet`) by `QuotaInv`, which speaks of runs nobody died in:
  the lines of a mode in a file are as many as what was delivered of what all
  commands ordered for it (`FilesCounted`, `Delivered`), and a process that writes
  has num_per_worker chains for every entry, no more and no less (`EntriesOK`; an
  operation given twice is why it must say more than that: its second entry gets
  no chains, and the pass never ends). `ConcatCount` and
  `FlattenCount` count the lines of a concatenation.
  `PreparedFilesServe` (`SftServesFiles`) and `ValidationIsUnseen`
  (`ValidationUnseen`) rest on `OccurInv`, which also holds when processes die: a
  line is in its file at most as often as its mode was given to it (`OccursAtMost`,
  `Given`), because the chains of an entry differ, each being drawn later than the
  last (`ChainsOK`), and a file holds lines of its own operation and process only
  (`OwnLines`), so that no other file has the line. `SftInv` and `UnseenInv` carry
  this over to the prepared files, of which only the lines are known by then.
  `ModesStateTheSame` (`ModesShareChains`) rests on `ShareInv`, for a first command
  nobody died in. A process serves its entries in turn (`Dealing`), unless an
  operation is given twice or refused, where it never gets to write (`Stuck`,
  `TurnsOK`). What its generator has drawn before a chain is then fixed by round and
  entry (`PastOf`, `Dealt`), in every pass alike since all shuffle equally often
  (`ShufflesAlike`), and a mode with one place has in its file the problems that
  were dealt, or none yet (`ProblemsOK`). `FewestIsNext` shows that the entry with
  the fewest chains is the next in turn; `ConcatProblems` and `FlattenProblems` say
  which problems a concatenation states.

Every safety invariant that a passing run checks has a theorem. Only model-checked
are the liveness properties `DrainEnds`, `TrainerStops`, `RequestsEnd`,
`TrainingEnds` and `ReturnsIffProductive`: fairness is out of the prover's reach.

## Not modelled

- Third-party and numerical code: the engines, kernels, models and data structures
  of verl, its synchronous trainers, and LLaMA-Factory. It is by far the largest
  part of the repository (which is why the modelled lines are a small share of
  it), and what can go wrong in it is arithmetic on tensors and devices, not an
  order of steps that a model checker explores.
- The agent loops and the rate-limited reward manager: tools, reward services and
  limits come from configuration outside of the code.
- Within modelled components: eviction of sessions from the load balancer's LRU
  cache (at ten thousand requests), vLLM before 0.12 and the other inference
  backends, a weight transfer that fails, the critic's checkpoints, remote
  directories and `resume_path`, SFT preparation without `--overwrite`,
  evaluation of answers that are no integers, exceptions of the data loader.
- `test_freq = 0`, for which the end of `fit` divides by zero, and what becomes of
  the local steps behind the last synchronisation other than their checkpoint.
- The run scripts have no control flow.
