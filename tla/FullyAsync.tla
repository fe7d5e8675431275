----------------------------- MODULE FullyAsync -----------------------------
(***************************************************************************)
(* The streaming core of verl's fully asynchronous policy: a rollouter     *)
(* (one asyncio event loop running a feeder, a processor, one task per     *)
(* sample and a monitor), the MessageQueue actor, and a trainer.  They     *)
(* share nothing but remote calls; each call takes effect at one point and *)
(* its answer is used at a later one.                                      *)
(*                                                                         *)
(* Within the event loop an action is what a coroutine runs from one       *)
(* suspension to the next: awaiting a remote call, an empty queue, tasks,  *)
(* an event, or a lock that is not to be had at once.  asyncio.Lock is     *)
(* taken without suspending when it is free and nobody waits for it; when  *)
(* somebody does, a newcomer queues up behind him (see Busy).              *)
(*                                                                         *)
(* Samples are the numbers 1 .. N in the order in which they are fed.  The *)
(* end-of-stream marker (Python's None, in pending_queue and again in the  *)
(* message queue) is N + 1.  pending_queue is a FIFO of consecutive items, *)
(* so it is the interval taken + 1 .. fed.                                 *)
(***************************************************************************)
EXTENDS Integers, Sequences, FiniteSets

CONSTANTS
    N,              \* total_rollout_steps: samples the feeder produces
    PendingCap,     \* maxsize of pending_queue (128 in the code)
    R,              \* required_samples: one trainer batch
    T,              \* trigger_parameter_sync_step
    StaleNum,       \* staleness_threshold is the fraction StaleNum / StaleDen
    StaleDen,
    Slots,          \* 16 per rollout replica
    TestFreq,       \* trainer.test_freq
    Failing         \* samples whose generation may raise

ASSUME ParametersAssumption ==
    /\ N \in Nat \ {0} /\ PendingCap \in Nat \ {0}
    /\ R \in Nat \ {0} /\ T \in Nat \ {0}
    /\ StaleNum \in Nat /\ StaleDen \in Nat \ {0}
    /\ Slots \in Nat \ {0} /\ TestFreq \in Nat \ {0}
    /\ Failing \subseteq 1 .. N

None == N + 1
Sample == 1 .. N

\* set_max_required_samples: int(required * (threshold + 1) * sync_step)
MaxRequired == (R * T * (StaleDen + StaleNum)) \div StaleDen
\* min(16 per replica, max_required_samples)
MaxConcurrent == IF Slots < MaxRequired THEN Slots ELSE MaxRequired
MaxQueue == MaxRequired

VARIABLES
    fed,            \* items put into pending_queue (N + 1 once None is in)
    taken,          \* items taken out of it
    active,         \* active_tasks
    running,        \* tasks whose put_sample has not been executed yet
    posted,         \* tasks whose put_sample has not been answered yet
    failed,         \* tasks that ended with an exception
    staleness,      \* staleness_samples
    paused,
    event,          \* _resume_event
    lock,           \* holder of the rollouter's lock across an await
    procPC, procQ,  \* the processor, and the queue size it was told
    reaping,        \* the done tasks it is about to discard while draining
    monPC, monQ,    \* the monitor, and the queue size it was told
    alive,          \* self.running of the rollouter
    mainPC,         \* _streaming_generation_main and the driver
    queue, lost,    \* the MessageQueue actor and the samples it dropped
    trPC, batch, trained,
    local,          \* local_trigger_step
    version,        \* current_param_version
    resetN,         \* the sum reset_staleness is computing
    stopping,       \* fit() has left its loop
    fetched         \* history: samples fetched since staleness was last reset

pendVars == <<fed, taken>>
taskVars == <<active, running, posted, failed>>
gateVars == <<paused, event>>
sharedVars == <<gateVars, staleness, lock>>
procVars == <<procPC, procQ, reaping>>
monVars  == <<monPC, monQ>>
mainVars == <<mainPC, alive>>
mqVars   == <<queue, lost>>
stepVars == <<batch, trained, local, version>>
trVars   == <<trPC, stepVars, resetN, stopping, fetched>>
rollVars == <<pendVars, taskVars, sharedVars, procVars>>
outside  == <<monVars, mainVars, mqVars, trVars>>
vars == <<rollVars, outside>>

-----------------------------------------------------------------------------
(* MessageQueue *)

\* mutant: a full queue turns the new sample away and says nothing
PutRefused(x) ==
    /\ queue' = IF Len(queue) >= MaxQueue THEN queue ELSE Append(queue, x)
    /\ lost' = lost

\* put_sample: a full queue gives up its oldest entry first
Put(x) ==
    /\ queue' = Append(IF Len(queue) >= MaxQueue THEN Tail(queue) ELSE queue, x)
    /\ lost' = IF Len(queue) >= MaxQueue THEN lost \cup {Head(queue)} ELSE lost

\* mutant: pauses one sample too late
ShouldPauseLate(q) == q > MaxQueue \/ staleness > MaxRequired

\* the test behind _should_pause_generation, on a queue size already received
ShouldPause(q) == q >= MaxQueue \/ staleness >= MaxRequired

Done == active \ (running \cup posted)

-----------------------------------------------------------------------------
(* The rollouter's lock *)

ProcWaits == procPC \in {"pausing", "reap", "submit", "finish"}
MonWaits == monPC \in {"loop", "resume"}
ResetWaits == trPC = "resetLock"

\* the lock has an owner, or somebody is waiting for it already
Busy == lock # "free" \/ ProcWaits \/ MonWaits \/ ResetWaits

(* Feeder *)

\* put() does not suspend before pending_queue is full
Feed ==
    /\ mainPC = "stream"
    /\ fed < None /\ fed - taken < PendingCap
    /\ fed' = IF taken + PendingCap < None THEN taken + PendingCap ELSE None
    /\ UNCHANGED <<taken, taskVars, sharedVars, procVars, outside>>

(* Processor *)

\* the call in _should_pause_generation arrives at the message queue
ProcAsk ==
    /\ procPC = "ask"
    /\ procQ' = Len(queue)
    /\ procPC' = "decide"
    /\ UNCHANGED <<pendVars, taskVars, sharedVars, reaping, outside>>

\* mutant: the end of the stream does not wait for the tasks
DispatchNoWait(t, A, held, busy) ==
    LET full == t # None /\ Cardinality(A) >= MaxConcurrent
        create == t # None /\ ~full /\ ~busy
    IN  /\ active' = IF create THEN A \cup {t} ELSE A
        /\ running' = IF create THEN running \cup {t} ELSE running
        /\ lock' = IF full /\ ~busy THEN "proc" ELSE held
        /\ procPC' = IF t = None THEN "finished"
                     ELSE IF busy THEN "submit"
                     ELSE IF full THEN "submitWait" ELSE "ask"

\* Item t is in hand and A are the tasks not reaped so far: wait for a task
\* with the lock held, or make t a task, or, at the end of the stream, be
\* through.  "held" is the lock's owner if it is not taken now.
Dispatch(t, A, held, busy) ==
    LET full == IF t = None THEN A # {} ELSE Cardinality(A) >= MaxConcurrent
        create == t # None /\ ~full /\ ~busy
    IN  /\ active' = IF create THEN A \cup {t} ELSE A
        /\ running' = IF create THEN running \cup {t} ELSE running
        /\ lock' = IF full /\ ~busy THEN "proc" ELSE held
        /\ procPC' = IF t = None
                     THEN IF ~full THEN "finished"
                          ELSE IF busy THEN "finish" ELSE "finishWait"
                     ELSE IF busy THEN "submit"
                          ELSE IF full THEN "submitWait" ELSE "ask"

\* mutant: the sample is counted by nobody
TakeUncounted ==
    /\ taken' = taken + 1
    /\ staleness' = staleness
    /\ Dispatch(taken + 1, active, lock, Busy)

\* pending_queue.get() returned: staleness counts the end marker like a sample
Take ==
    /\ taken' = taken + 1
    /\ staleness' = staleness + 1
    /\ Dispatch(taken + 1, active, lock, Busy)

\* the answer arrived: go on to the next item, if there is one
ProcDecide ==
    /\ procPC = "decide" /\ ~ShouldPause(procQ)
    /\ IF taken < fed
       THEN Take
       ELSE /\ procPC' = "take"
            /\ UNCHANGED <<taken, staleness, active, running, lock>>
    /\ procQ' = 0
    /\ UNCHANGED <<fed, posted, failed, gateVars, reaping, outside>>

ProcTake ==
    /\ procPC = "take" /\ taken < fed
    /\ Take
    /\ UNCHANGED <<fed, posted, failed, gateVars, procQ, reaping, outside>>

\* the answer arrived, or the lock came free: pause and start to drain
ProcPause ==
    /\ \/ procPC = "decide" /\ ShouldPause(procQ) /\ ~Busy
       \/ procPC = "pausing" /\ lock = "free"
    /\ paused' = TRUE /\ event' = FALSE
    /\ procPC' = "drain"
    /\ procQ' = 0
    /\ UNCHANGED <<pendVars, taskVars, staleness, lock, reaping, outside>>

\* the processor queues up for the lock: to pause, or to discard done tasks
ProcPark ==
    /\ Busy
    /\ \/ /\ procPC = "decide" /\ ShouldPause(procQ)
          /\ procPC' = "pausing" /\ UNCHANGED reaping
       \/ /\ procPC = "drain" /\ Done # {}
          /\ procPC' = "reap" /\ reaping' = Done
    /\ procQ' = 0
    /\ UNCHANGED <<pendVars, taskVars, sharedVars, outside>>

\* Done tasks are discarded one by one; the first that raised ends the
\* processor, and the ones behind it stay in active_tasks.
ProcDrainReap ==
    \E D \in {Done, reaping} \ {{}} : \E X \in SUBSET D :
        /\ \/ procPC = "drain" /\ D = Done /\ ~Busy
           \/ procPC = "reap" /\ D = reaping /\ lock = "free"
        /\ IF D \cap failed = {} THEN X = D ELSE Cardinality(X \cap failed) = 1
        /\ active' = active \ X
        /\ procPC' = IF D \cap failed # {} THEN "failed"
                     ELSE IF event THEN "ask" ELSE "drain"
        /\ reaping' = {}
        /\ UNCHANGED <<pendVars, running, posted, failed, sharedVars, procQ,
                       outside>>

\* the resume signal ends the drain though tasks are still running
ProcDrainResume ==
    /\ procPC = "drain" /\ event /\ Done = {}
    /\ procPC' = "ask"
    /\ UNCHANGED <<pendVars, taskVars, sharedVars, procQ, reaping, outside>>

\* the lock it queued up for with an item in hand
ProcLock ==
    /\ procPC \in {"submit", "finish"} /\ lock = "free"
    /\ Dispatch(taken, active, lock, FALSE)
    /\ UNCHANGED <<pendVars, posted, failed, gateVars, staleness, procQ,
                   reaping, outside>>

\* asyncio.wait(active_tasks) returns every task that is done.  The lock is
\* released, and has to be queued up for again if somebody waits for it.
ProcReap ==
    /\ procPC \in {"submitWait", "finishWait"} /\ Done # {}
    /\ IF Done \cap failed = {}
       THEN Dispatch(taken, active \ Done, "free", MonWaits \/ ResetWaits)
       ELSE /\ active' = active \ Done
            /\ lock' = "free"
            /\ procPC' = "failed"
            /\ UNCHANGED running
    /\ UNCHANGED <<pendVars, posted, failed, gateVars, staleness, procQ,
                   reaping, outside>>

Processor ==
    \/ ProcAsk \/ ProcDecide \/ ProcTake \/ ProcPause \/ ProcPark
    \/ ProcDrainReap \/ ProcDrainResume \/ ProcLock \/ ProcReap

(* One task per sample *)

TaskPost(i) ==
    /\ i \in running
    /\ Put(i)
    /\ running' = running \ {i}
    /\ posted' = posted \cup {i}
    /\ UNCHANGED <<pendVars, active, failed, sharedVars, procVars, monVars,
                   mainVars, trVars>>

TaskEnd(i) ==
    /\ \/ /\ i \in posted
          /\ posted' = posted \ {i}
          /\ UNCHANGED <<running, failed>>
       \/ /\ i \in running \cap Failing
          /\ running' = running \ {i}
          /\ failed' = failed \cup {i}
          /\ UNCHANGED posted
    /\ UNCHANGED <<pendVars, active, sharedVars, procVars, outside>>

Task(i) == TaskPost(i) \/ TaskEnd(i)

(* Monitor *)

\* the top of the loop, with or without queueing up for the lock
MonTop(busy) ==
    monPC' = IF busy THEN "loop" ELSE IF alive THEN "sleep" ELSE "exit"

MonLoop ==
    /\ monPC = "loop" /\ lock = "free"
    /\ MonTop(FALSE)
    /\ UNCHANGED <<rollVars, monQ, mainVars, mqVars, trVars>>

MonWake ==
    /\ monPC = "sleep"
    /\ IF paused THEN monPC' = "ask" ELSE MonTop(Busy)
    /\ UNCHANGED <<rollVars, monQ, mainVars, mqVars, trVars>>

MonAsk ==
    /\ monPC = "ask"
    /\ monQ' = Len(queue)
    /\ monPC' = "decide"
    /\ UNCHANGED <<rollVars, mainVars, mqVars, trVars>>

MonDecide ==
    /\ monPC = "decide"
    /\ \/ ShouldPause(monQ) /\ MonTop(Busy)
       \/ ~ShouldPause(monQ) /\ Busy /\ monPC' = "resume"
    /\ monQ' = 0
    /\ UNCHANGED <<rollVars, mainVars, mqVars, trVars>>

\* mutant: the flag is reset and nobody is woken
MonResumeSilent ==
    /\ \/ monPC = "decide" /\ ~ShouldPause(monQ) /\ ~Busy
       \/ monPC = "resume" /\ lock = "free"
    /\ paused' = FALSE
    /\ MonTop(ProcWaits \/ ResetWaits)
    /\ monQ' = 0
    /\ UNCHANGED <<pendVars, taskVars, event, staleness, lock, procVars,
                   mainVars, mqVars, trVars>>

\* the monitor wakes the processor up
MonResume ==
    /\ \/ monPC = "decide" /\ ~ShouldPause(monQ) /\ ~Busy
       \/ monPC = "resume" /\ lock = "free"
    /\ paused' = FALSE /\ event' = TRUE
    /\ MonTop(ProcWaits \/ ResetWaits)
    /\ monQ' = 0
    /\ UNCHANGED <<pendVars, taskVars, staleness, lock, procVars, mainVars,
                   mqVars, trVars>>

Monitor == MonLoop \/ MonWake \/ MonAsk \/ MonDecide \/ MonResume

(* _streaming_generation_main, then the driver once both fits returned *)

\* mutant: an exception of the processor skips the end marker
MainSentinelSkipped ==
    /\ mainPC = "stream" /\ procPC \in {"finished", "failed"}
    /\ IF procPC = "finished" THEN Put(None) ELSE UNCHANGED mqVars
    /\ mainPC' = "stop"
    /\ UNCHANGED <<rollVars, monVars, alive, trVars>>

\* mutant: the end marker is put once the samples are fed
MainSentinelEarly ==
    /\ mainPC = "stream" /\ fed = None
    /\ Put(None)
    /\ mainPC' = "stop"
    /\ UNCHANGED <<rollVars, monVars, alive, trVars>>

\* the end marker is put whatever ended the processor
MainSentinel ==
    /\ mainPC = "stream" /\ procPC \in {"finished", "failed"}
    /\ Put(None)
    /\ mainPC' = "stop"
    /\ UNCHANGED <<rollVars, monVars, alive, trVars>>

MainStop ==
    /\ mainPC = "stop" /\ lock = "free"
    /\ alive' = FALSE
    /\ mainPC' = "end"
    /\ UNCHANGED <<rollVars, monVars, mqVars, trVars>>

MainClear ==
    /\ mainPC = "end" /\ monPC = "exit" /\ trPC = "stopped"
    /\ queue' = <<>>
    /\ mainPC' = "cleared"
    /\ UNCHANGED <<rollVars, monVars, alive, lost, trVars>>

Main == MainSentinel \/ MainStop \/ MainClear

(* Trainer *)

TrainerGet ==
    /\ trPC = "get" /\ queue # <<>>
    /\ queue' = Tail(queue)
    /\ IF Head(queue) = None
       THEN trPC' = "finish" /\ UNCHANGED <<batch, fetched>>
       ELSE /\ batch' = batch \cup {Head(queue)}
            /\ fetched' = fetched + 1
            /\ trPC' = IF Cardinality(batch') = R THEN "train" ELSE "get"
    /\ UNCHANGED <<rollVars, monVars, mainVars, lost, trained, local, version,
                   resetN, stopping>>

\* fit_step after the batch is complete, up to _fit_update_local_step
TrainerStep ==
    /\ trPC = "train"
    /\ trained' = trained \cup batch
    /\ batch' = {}
    /\ IF local < T
       THEN local' = local + 1 /\ trPC' = "get" /\ UNCHANGED version
       ELSE local' = 1 /\ trPC' = "sync" /\ version' = version + 1
    /\ UNCHANGED <<rollVars, monVars, mainVars, mqVars, resetN, stopping,
                   fetched>>

\* checkpoint_manager.update_weights
TrainerSync ==
    /\ trPC = "sync"
    /\ trPC' = "reset"
    /\ UNCHANGED <<rollVars, monVars, mainVars, mqVars, stepVars, resetN,
                   stopping, fetched>>

\* reset_staleness: resume first, count the tasks, then ask for the queue size
ResetBegin ==
    /\ \/ trPC = "reset" /\ ~Busy
       \/ trPC = "resetLock" /\ lock = "free"
    /\ lock' = "reset"
    /\ paused' = FALSE /\ event' = TRUE
    /\ resetN' = Cardinality(active)
    /\ trPC' = "resetAsk"
    /\ UNCHANGED <<pendVars, taskVars, staleness, procVars, monVars, mainVars,
                   mqVars, stepVars, stopping, fetched>>

ResetPark ==
    /\ trPC = "reset" /\ Busy
    /\ trPC' = "resetLock"
    /\ UNCHANGED <<rollVars, monVars, mainVars, mqVars, stepVars, resetN,
                   stopping, fetched>>

ResetAsk ==
    /\ trPC = "resetAsk"
    /\ resetN' = resetN + Len(queue)
    /\ trPC' = "resetSet"
    /\ UNCHANGED <<rollVars, monVars, mainVars, mqVars, stepVars, stopping,
                   fetched>>

ResetSet ==
    /\ trPC = "resetSet"
    /\ staleness' = resetN
    /\ fetched' = 0 /\ resetN' = 0
    /\ lock' = "free"
    /\ trPC' = IF stopping THEN "stopped" ELSE "get"
    /\ UNCHANGED <<pendVars, taskVars, gateVars, procVars, monVars, mainVars,
                   mqVars, stepVars, stopping>>

\* the end of fit(): _fit_update_weights returns at once unless local = 1
TrainerFinish ==
    /\ trPC = "finish"
    /\ stopping' = TRUE
    /\ trPC' = IF version % TestFreq # 0 /\ local = 1 THEN "sync" ELSE "stopped"
    /\ UNCHANGED <<rollVars, monVars, mainVars, mqVars, stepVars, resetN,
                   fetched>>

Trainer ==
    \/ TrainerGet \/ TrainerStep \/ TrainerSync
    \/ ResetPark \/ ResetBegin \/ ResetAsk \/ ResetSet \/ TrainerFinish

-----------------------------------------------------------------------------
Init ==
    /\ fed = 0 /\ taken = 0
    /\ active = {} /\ running = {} /\ posted = {} /\ failed = {}
    /\ staleness = 0 /\ paused = FALSE /\ event = TRUE /\ lock = "free"
    /\ procPC = "ask" /\ procQ = 0 /\ reaping = {}
    /\ monPC = "loop" /\ monQ = 0
    /\ mainPC = "stream" /\ alive = TRUE
    /\ queue = <<>> /\ lost = {}
    /\ trPC = "get" /\ batch = {} /\ trained = {}
    /\ local = 1 /\ version = 0 /\ resetN = 0 /\ stopping = FALSE
    /\ fetched = 0

\* everything has returned; the system stands still
Terminated == mainPC = "cleared" /\ UNCHANGED vars

Next ==
    \/ Feed
    \/ Processor
    \/ \E i \in Sample : Task(i)
    \/ Monitor
    \/ Main
    \/ Trainer
    \/ Terminated

Spec == Init /\ [][Next]_vars

(***************************************************************************)
(* Every coroutine and every remote call makes progress.  Whoever waits    *)
(* for the lock gets it, because asyncio.Lock wakes its waiters in order:  *)
(* hence strong fairness for the three parties that queue up for it.       *)
(***************************************************************************)
Fairness ==
    /\ WF_vars(Feed)
    /\ \A i \in Sample : WF_vars(Task(i))
    /\ WF_vars(Main)
    /\ SF_vars(Processor)
    /\ SF_vars(Monitor)
    /\ SF_vars(Trainer)

FairSpec == Spec /\ Fairness

-----------------------------------------------------------------------------
(* Properties *)

RollouterType ==
    /\ fed \in 0 .. None /\ taken \in 0 .. None
    /\ active \in SUBSET Sample /\ running \in SUBSET Sample
    /\ posted \in SUBSET Sample /\ failed \in SUBSET Sample
    /\ staleness \in Nat /\ paused \in BOOLEAN /\ event \in BOOLEAN
    /\ lock \in {"free", "proc", "reset"} /\ procQ \in Nat
    /\ reaping \in SUBSET Sample
    /\ procPC \in {"ask", "decide", "take", "pausing", "drain", "reap", "submit",
                   "submitWait", "finish", "finishWait", "finished", "failed"}
    /\ procPC \in {"submit", "submitWait"} => taken \in Sample
    /\ procPC \in {"finish", "finishWait"} => taken = None

MonitorType ==
    /\ monPC \in {"loop", "sleep", "ask", "decide", "resume", "exit"}
    /\ monQ \in Nat
    /\ mainPC \in {"stream", "stop", "end", "cleared"} /\ alive \in BOOLEAN

QueueType == queue \in Seq(1 .. None) /\ lost \in SUBSET (1 .. None)

TrainerType ==
    /\ trPC \in {"get", "train", "sync", "reset", "resetLock", "resetAsk",
                 "resetSet", "finish", "stopped"}
    /\ batch \in SUBSET Sample /\ trained \in SUBSET Sample
    /\ local \in 1 .. T /\ version \in Nat /\ resetN \in Nat
    /\ stopping \in BOOLEAN /\ fetched \in Nat

TypeOK == RollouterType /\ MonitorType /\ QueueType /\ TrainerType

\* the sample the processor took out of pending_queue but has not submitted
InHand == IF procPC \in {"submit", "submitWait"} THEN {taken} ELSE {}

Held == IF procPC \in {"submit", "submitWait"} THEN 1 ELSE 0

\* samples taken by the rollouter that the trainer has not fetched: held by
\* the processor, being generated, or waiting in the message queue
Outstanding == Held + Cardinality(running) + Len(queue)

\* The freshness control of set_max_required_samples, _should_pause_generation
\* and reset_staleness: what was fetched since the last reset together with
\* what is still to be fetched exceeds max_required_samples by one at most.
\* The one is a sample in the processor's hand, which neither active_tasks nor
\* the queue shows to reset_staleness.
FreshnessBound ==
    mainPC = "stream" => fetched + Outstanding <= MaxRequired + 1

\* What docs/advance/fully_async.md says: between two parameter updates at most
\* (1 + staleness_threshold) * sync_step * required samples, less the stale
\* ones left over from the previous rollout.
RolloutNumBound ==
    mainPC = "stream" => fetched + Outstanding <= MaxRequired

\* staleness_threshold = 0 is synchronous training: when the trainer has
\* finished the steps of one version and updates the weights, the rollouter
\* holds no sample of the old version (no race of the pause, the drain and the
\* reset lets it run ahead).
SynchronousWhenZero ==
    StaleNum = 0 /\ trPC \in {"sync", "reset", "resetLock"} /\ mainPC = "stream"
        => Outstanding = 0

Queued == {queue[k] : k \in 1 .. Len(queue)}

\* Nothing is lost silently and nothing is trained twice: until the driver
\* clears the queue, every sample taken from pending_queue is in exactly one
\* place (in hand, being generated, queued, in the trainer's batch, trained,
\* dropped by put_sample's overflow, or failed).  The one exception is the
\* sample in the hand of a processor that dies of another sample's exception.
EverySampleInOnePlace ==
    LET places == <<InHand, running, Queued \ {None}, batch, trained, lost,
                    failed>>
        abandoned == IF procPC = "failed" THEN {taken} \ {None} ELSE {}
    IN  mainPC # "cleared" =>
        /\ (UNION {places[k] : k \in DOMAIN places}) \cup abandoned
              = (1 .. taken) \ {None}
        /\ \A j, k \in DOMAIN places : j # k => places[j] \cap places[k] = {}
        /\ Cardinality(Queued) = Len(queue)

\* The end marker is the last thing the rollouter says: when the trainer has
\* seen it and no generation failed, every sample was fetched or had been
\* dropped by an overflow; none is still on its way.
StopIsComplete ==
    failed = {} /\ (trPC \in {"finish", "stopped"} \/ stopping)
        => trained \cup batch \cup lost = Sample

\* The end marker itself is never the entry an overflow drops, not even when
\* the processor died and its orphaned tasks go on posting behind the marker:
\* until the trainer takes it, it is in the queue.
SentinelSurvives ==
    /\ None \notin lost
    /\ /\ mainPC \in {"stop", "end"}
       /\ trPC \notin {"finish", "stopped"} /\ ~stopping
       => None \in Queued

\* The abstract pipeline this specification implements.  In flight is what the
\* processor holds, what is being generated and what is queued; the stream is
\* over for a trainer that fetched the end marker.
InFlight == InHand \cup running \cup (Queued \ {None})
Told == stopping \/ trPC \in {"finish", "stopped"}

Pipe == INSTANCE Pipeline WITH
    Total <- N,
    Window <- MaxRequired + 1,
    made <- IF taken = None THEN N ELSE taken,
    flight <- InFlight,
    kept <- batch \cup trained,
    fetched <- fetched,
    broken <- (failed # {}),
    over <- Told

\* Whatever its coroutines, lock and remote calls do, the pipeline is a bounded
\* producer and consumer: no sample is used twice or after it was given up, the
\* rollouter starts none beyond the allowance, and the trainer is told that the
\* stream is over only when nothing is on its way or a generation failed.
ImplementsPipeline == Pipe!Spec

\* A rollouter that paused and drains is woken up again: by reset_staleness,
\* or, when the processor's stale decision wiped out that wake-up, by the
\* monitor.
DrainEnds == procPC = "drain" ~> procPC \notin {"drain", "reap"}

\* The trainer gets to the end of the stream.
TrainerStops == <>(trPC = "stopped")

-----------------------------------------------------------------------------
(* The inductive invariant behind FreshnessBound *)

LockHolder ==
    /\ lock = "reset" <=> trPC \in {"resetAsk", "resetSet"}
    /\ lock = "proc" <=> procPC \in {"submitWait", "finishWait"}

\* staleness_samples undercounts by the sample in hand at most; a decision to
\* take one more was made on a count that had room for it
CountsCover ==
    mainPC = "stream" =>
        /\ fetched + Outstanding <= staleness + 1
        /\ procPC = "take" => fetched + Outstanding <= MaxRequired

\* the two numbers reset_staleness adds up were read at different times, and
\* still cover what is running or queued when it stores the sum
ResetCovers ==
    mainPC = "stream" =>
        /\ trPC = "resetAsk" => Cardinality(running) <= resetN
        /\ trPC = "resetSet" => Cardinality(running) + Len(queue) <= resetN

\* the end marker is sent once the processor is through
ProcessorEnds == mainPC = "stream" \/ procPC \in {"finished", "failed"}

\* The processor alone pauses, and it goes on only when it was woken: the two
\* tests of self.paused outside the drain (before it asks for the queue size,
\* and before it submits) find FALSE, and the actions leave them out.
PausedWhileDraining == paused => procPC \in {"drain", "reap", "failed"} /\ ~event

\* a task that runs is in active_tasks, and not among those to be discarded
RunningIsActive ==
    /\ running \subseteq active
    /\ running \cap reaping = {}
    /\ procPC # "reap" => reaping = {}

FreshInv ==
    /\ TypeOK
    /\ PausedWhileDraining
    /\ RunningIsActive
    /\ ProcessorEnds
    /\ LockHolder
    /\ CountsCover
    /\ ResetCovers
    /\ FreshnessBound
=============================================================================
