-------------------------- MODULE FullyAsync_proofs --------------------------
(***************************************************************************)
(* FullyAsync, proved for every number of samples, batch size,             *)
(* synchronisation period, staleness threshold and concurrency: first its  *)
(* types and FreshnessBound; then that every sample is in one place, that  *)
(* an overflow never drops the end marker, and that nothing is on its way  *)
(* when the trainer has seen it; with them that it implements Pipeline;    *)
(* last that training without staleness is synchronous.                    *)
(***************************************************************************)
EXTENDS FullyAsync, TLAPS, FiniteSetTheorems, SequenceTheorems

USE DEF sharedVars, stepVars, rollVars, outside

\* Arithmetic: a product of positive numbers is positive.
LEMMA MulPos ==
    ASSUME NEW a \in Nat \ {0}, NEW b \in Nat \ {0}
    PROVE  a * b \in Nat \ {0}
OBVIOUS

\* Arithmetic: a quotient of at least one is positive.
LEMMA DivPos ==
    ASSUME NEW a \in Nat, NEW b \in Nat \ {0}, a >= b
    PROVE  a \div b \in Nat \ {0}
OBVIOUS

\* int(required * (threshold + 1) * sync_step) is a positive integer.
LEMMA MaxRequiredPositive == MaxRequired \in Nat \ {0}
<1> DEFINE k == R * T
           w == StaleDen + StaleNum
<1>1. k \in Nat \ {0}
  BY ParametersAssumption, MulPos
<1>2. w \in Nat \ {0} /\ w >= StaleDen /\ StaleDen \in Nat \ {0}
  BY ParametersAssumption
<1> HIDE DEF k, w
<1>3. k * w \in Nat /\ k * w >= w
  BY <1>1, <1>2
<1>4. (k * w) \div StaleDen \in Nat \ {0}
  BY <1>2, <1>3, DivPos
<1>5. QED
  BY <1>4 DEF MaxRequired, k, w

-----------------------------------------------------------------------------
(* Sets of samples are finite, so that they can be counted. *)

\* Every set of samples is finite and has a cardinality, so the model may count
\* active_tasks and the batch as the code does with len().
LEMMA SampleSets ==
    ASSUME NEW S \in SUBSET Sample
    PROVE  IsFiniteSet(S) /\ Cardinality(S) \in Nat
<1>1. IsFiniteSet(Sample)
  BY FS_Interval, ParametersAssumption DEF Sample
<1>2. QED
  BY <1>1, FS_Subset, FS_CardinalityType

-----------------------------------------------------------------------------
(* Types, one part of the state at a time *)

\* put_sample keeps the queue a queue and adds at most one entry to it.
LEMMA PutType ==
    ASSUME QueueType, NEW x \in 1 .. None, Put(x)
    PROVE  QueueType' /\ Len(queue') <= Len(queue) + 1
<1>1. queue \in Seq(1 .. None) /\ lost \in SUBSET (1 .. None)
  BY DEF QueueType
<1>2. Len(queue) \in Nat
  BY <1>1
<1>3. CASE Len(queue) >= MaxQueue
  <2>1. queue # <<>>
    BY <1>1, <1>3, MaxRequiredPositive DEF MaxQueue
  <2>2. /\ Head(queue) \in 1 .. None
        /\ Tail(queue) \in Seq(1 .. None) /\ Len(Tail(queue)) = Len(queue) - 1
    BY <1>1, <2>1, HeadTailProperties
  <2>3. queue' = Append(Tail(queue), x) /\ lost' = lost \cup {Head(queue)}
    BY <1>3 DEF Put
  <2>4. queue' \in Seq(1 .. None) /\ Len(queue') = Len(Tail(queue)) + 1
    BY <2>2, <2>3, AppendProperties
  <2>5. lost' \in SUBSET (1 .. None)
    BY <1>1, <2>2, <2>3
  <2>6. Len(queue') <= Len(queue) + 1
    BY <1>2, <2>2, <2>4
  <2>7. QED
    BY <2>4, <2>5, <2>6 DEF QueueType
<1>4. CASE ~(Len(queue) >= MaxQueue)
  <2>1. queue' = Append(queue, x) /\ lost' = lost
    BY <1>4 DEF Put
  <2>2. queue' \in Seq(1 .. None) /\ Len(queue') = Len(queue) + 1
    BY <1>1, <2>1, AppendProperties
  <2>3. QED
    BY <1>1, <1>2, <2>1, <2>2 DEF QueueType
<1>5. QED
  BY <1>3, <1>4

\* Only the trainer's actions touch its variables.
LEMMA TrainerFootprint == [Next]_vars => Trainer \/ UNCHANGED trVars
  BY DEF Next, Processor, Task, Monitor, Main, Feed, ProcAsk, ProcDecide, ProcTake, Take, Dispatch, ProcPause,
         ProcPark, ProcDrainReap, ProcDrainResume, ProcLock, ProcReap, TaskPost, TaskEnd, MonLoop, MonWake,
         MonAsk, MonDecide, MonResume, MonTop, MainSentinel, MainStop, MainClear,
         Terminated, vars

\* The trainer's variables keep their types: fit_step never trains past a
\* batch of samples, and local_trigger_step stays in 1 .. T.
LEMMA TrainerTypeStep == TypeOK /\ [Next]_vars => TrainerType'
<1> SUFFICES ASSUME TypeOK, [Next]_vars PROVE TrainerType'
  OBVIOUS
<1> USE DEF TrainerType
<1>1. TrainerType /\ QueueType /\ RollouterType
  BY DEF TypeOK
<1>2. CASE UNCHANGED trVars
  BY <1>1, <1>2 DEF trVars
<1>3. CASE TrainerGet
  <2>1. Head(queue) \in 1 .. None
    BY <1>1, <1>3, HeadTailProperties DEF TrainerGet, QueueType
  <2>2. Head(queue) # None => Head(queue) \in Sample
    BY <2>1, ParametersAssumption DEF None, Sample
  <2>3. QED
    BY <1>1, <1>3, <2>2 DEF TrainerGet
<1>4. CASE TrainerStep
  BY <1>1, <1>4, ParametersAssumption DEF TrainerStep
<1>5. CASE TrainerSync \/ ResetPark
  BY <1>1, <1>5 DEF TrainerSync, ResetPark
<1>6. CASE ResetBegin
  <2>1. Cardinality(active) \in Nat
    BY <1>1, SampleSets DEF RollouterType
  <2>2. QED
    BY <1>1, <1>6, <2>1 DEF ResetBegin
<1>7. CASE ResetAsk
  <2>1. Len(queue) \in Nat
    BY <1>1 DEF QueueType
  <2>2. QED
    BY <1>1, <1>7, <2>1 DEF ResetAsk
<1>8. CASE ResetSet
  BY <1>1, <1>8 DEF ResetSet
<1>9. CASE TrainerFinish
  BY <1>1, <1>9 DEF TrainerFinish
<1>10. QED
  BY <1>2, <1>3, <1>4, <1>5, <1>6, <1>7, <1>8, <1>9, TrainerFootprint
     DEF Trainer

\* Only put_sample, get_sample and clear_queue change the message queue.
LEMMA QueueFootprint ==
    [Next]_vars => \/ \E i \in Sample : TaskPost(i)
                   \/ MainSentinel \/ MainClear \/ TrainerGet
                   \/ UNCHANGED mqVars
  BY DEF Next, Processor, Task, Monitor, Main, Feed, ProcAsk, ProcDecide, ProcTake, Take, Dispatch, ProcPause,
         ProcPark, ProcDrainReap, ProcDrainResume, ProcLock, ProcReap, TaskEnd, MonLoop, MonWake,
         MonAsk, MonDecide, MonResume, MonTop, MainStop,
         Terminated, vars, Trainer, TrainerStep, TrainerSync,
         ResetPark, ResetBegin, ResetAsk, ResetSet, TrainerFinish

\* The message queue holds samples and end markers only.
LEMMA QueueTypeStep == TypeOK /\ [Next]_vars => QueueType'
<1> SUFFICES ASSUME TypeOK, [Next]_vars PROVE QueueType'
  OBVIOUS
<1>1. QueueType
  BY DEF TypeOK
<1>2. CASE UNCHANGED mqVars
  BY <1>1, <1>2 DEF mqVars, QueueType
<1>3. ASSUME NEW i \in Sample, TaskPost(i) PROVE QueueType'
  BY <1>1, <1>3, PutType, ParametersAssumption DEF TaskPost, None, Sample
<1>4. CASE MainSentinel
  BY <1>1, <1>4, PutType, ParametersAssumption DEF MainSentinel, None
<1>5. CASE MainClear
  BY <1>1, <1>5 DEF MainClear, QueueType
<1>6. CASE TrainerGet
  <2>1. Tail(queue) \in Seq(1 .. None)
    BY <1>1, <1>6, HeadTailProperties DEF TrainerGet, QueueType
  <2>2. QED
    BY <1>1, <1>6, <2>1 DEF TrainerGet, QueueType
<1>7. QED
  BY <1>2, <1>3, <1>4, <1>5, <1>6, QueueFootprint

\* Only the monitor and _streaming_generation_main touch their variables.
LEMMA MonitorFootprint ==
    [Next]_vars => \/ Monitor \/ Main
                   \/ UNCHANGED <<monVars, mainVars>>
  BY DEF Next, Processor, Task, Feed, ProcAsk, ProcDecide, ProcTake, Take, Dispatch, ProcPause,
         ProcPark, ProcDrainReap, ProcDrainResume, ProcLock, ProcReap, TaskPost, TaskEnd, 
         Terminated, vars, Trainer, TrainerGet, TrainerStep, TrainerSync,
         ResetPark, ResetBegin, ResetAsk, ResetSet, TrainerFinish

\* The variables of the monitor and of _streaming_generation_main keep their
\* types.
LEMMA MonitorTypeStep == TypeOK /\ [Next]_vars => MonitorType'
<1> SUFFICES ASSUME TypeOK, [Next]_vars PROVE MonitorType'
  OBVIOUS
<1> USE DEF MonitorType
<1>1. MonitorType /\ Len(queue) \in Nat
  BY DEF TypeOK, QueueType
<1>2. CASE UNCHANGED <<monVars, mainVars>>
  BY <1>1, <1>2 DEF monVars, mainVars
<1>3. CASE Monitor
  BY <1>1, <1>3 DEF Monitor, MonLoop, MonWake, MonAsk, MonDecide, MonResume, MonTop,
                    mainVars
<1>4. CASE Main
  BY <1>1, <1>4 DEF Main, MainSentinel, MainStop, MainClear, monVars
<1>5. QED
  BY <1>2, <1>3, <1>4, MonitorFootprint

\* The rollouter's own state changes by its feeder, processor and tasks, by
\* the monitor's resume and by the trainer's reset_staleness, and by nothing else.
LEMMA RollouterFootprint ==
    [Next]_vars => \/ Feed \/ Processor \/ \E i \in Sample : Task(i)
                   \/ MonResume \/ ResetBegin \/ ResetSet
                   \/ UNCHANGED <<pendVars, taskVars, gateVars, staleness, lock,
                                  procVars>>
  BY DEF Next, Monitor, Main, MonLoop, MonWake, MonAsk, MonDecide, MonTop,
         MainSentinel, MainStop, MainClear, Terminated, vars, Trainer,
         TrainerGet, TrainerStep, TrainerSync, ResetPark, ResetAsk, TrainerFinish

\* Dispatch makes the item in hand a task, keeps it in hand, or is through.
LEMMA DispatchType ==
    ASSUME RollouterType, NEW t \in 1 .. None, NEW A \in SUBSET Sample,
           NEW held \in {"free", "proc", "reset"}, NEW busy \in BOOLEAN,
           Dispatch(t, A, held, busy)
    PROVE  /\ active' \in SUBSET Sample /\ running' \in SUBSET Sample
           /\ lock' \in {"free", "proc", "reset"}
           /\ procPC' \in {"ask", "submit", "submitWait", "finish",
                           "finishWait", "finished"}
           /\ procPC' \in {"submit", "submitWait"} => t \in Sample
           /\ procPC' \in {"finish", "finishWait"} => t = None
<1>1. t # None => t \in Sample
  BY ParametersAssumption DEF None, Sample
<1>2. running \in SUBSET Sample
  BY DEF RollouterType
<1> DEFINE full == IF t = None THEN A # {} ELSE Cardinality(A) >= MaxConcurrent
           create == t # None /\ ~full /\ ~busy
<1>3. /\ active' = IF create THEN A \cup {t} ELSE A
      /\ running' = IF create THEN running \cup {t} ELSE running
      /\ lock' = IF full /\ ~busy THEN "proc" ELSE held
      /\ procPC' = IF t = None
                   THEN IF ~full THEN "finished"
                        ELSE IF busy THEN "finish" ELSE "finishWait"
                   ELSE IF busy THEN "submit"
                        ELSE IF full THEN "submitWait" ELSE "ask"
  BY DEF Dispatch
<1> HIDE DEF full
<1>4. QED
  BY <1>1, <1>2, <1>3

\* Taking an item out of pending_queue keeps the types of the rollouter.
LEMMA TakeType ==
    ASSUME RollouterType, Take, taken < fed, procQ' \in Nat,
           UNCHANGED <<fed, posted, failed, gateVars, reaping>>
    PROVE  RollouterType'
<1>1. /\ taken + 1 \in 1 .. None /\ taken' = taken + 1
      /\ staleness' \in Nat /\ Dispatch(taken + 1, active, lock, Busy)
  BY ParametersAssumption DEF Take, RollouterType, None
<1>2. active \in SUBSET Sample /\ lock \in {"free", "proc", "reset"}
  BY DEF RollouterType
<1>3. Busy \in BOOLEAN
  BY DEF Busy, ProcWaits, MonWaits, ResetWaits
<1>4. /\ active' \in SUBSET Sample /\ running' \in SUBSET Sample
      /\ lock' \in {"free", "proc", "reset"}
      /\ procPC' \in {"ask", "submit", "submitWait", "finish",
                      "finishWait", "finished"}
      /\ procPC' \in {"submit", "submitWait"} => taken + 1 \in Sample
      /\ procPC' \in {"finish", "finishWait"} => taken + 1 = None
  BY <1>1, <1>2, <1>3, DispatchType
<1>5. taken' \in 0 .. None
  BY <1>1
<1>6. QED
  BY <1>1, <1>4, <1>5 DEF RollouterType, gateVars

\* The rollouter's variables keep their types; an item the processor waits
\* with is a sample before "submit" and the end marker before "finish".
LEMMA RollouterTypeStep == TypeOK /\ [Next]_vars => RollouterType'
<1> SUFFICES ASSUME TypeOK, [Next]_vars PROVE RollouterType'
  OBVIOUS
<1> USE DEF RollouterType
<1>1. RollouterType /\ resetN \in Nat /\ Len(queue) \in Nat
  BY DEF TypeOK, QueueType, TrainerType
<1>2. CASE UNCHANGED rollVars
  BY <1>1, <1>2 DEF pendVars, taskVars, gateVars, procVars
<1>3. CASE Feed
  BY <1>1, <1>3, ParametersAssumption DEF Feed, taskVars, gateVars, procVars, None
<1>4. CASE ProcAsk
  BY <1>1, <1>4 DEF ProcAsk, pendVars, taskVars, gateVars
<1>5. CASE ProcDecide
  <2>1. CASE taken < fed
    <3>1. Take /\ procQ' = 0
          /\ UNCHANGED <<fed, posted, failed, gateVars, reaping>>
      BY <1>5, <2>1 DEF ProcDecide
    <3>2. QED
      BY <1>1, <2>1, <3>1, TakeType
  <2>2. CASE ~(taken < fed)
    BY <1>1, <1>5, <2>2 DEF ProcDecide, gateVars
  <2>3. QED
    BY <2>1, <2>2
<1>6. CASE ProcTake
  <2>1. /\ Take /\ taken < fed
        /\ UNCHANGED <<fed, posted, failed, gateVars, procQ, reaping>>
    BY <1>6 DEF ProcTake
  <2>2. QED
    BY <1>1, <2>1, TakeType
<1>7. CASE ProcPause
  BY <1>1, <1>7 DEF ProcPause, pendVars, taskVars
<1>12. CASE ProcPark
  <2>1. Done \in SUBSET Sample
    BY <1>1 DEF Done
  <2>2. /\ reaping' \in SUBSET Sample /\ procPC' \in {"pausing", "reap"}
        /\ procQ' = 0
        /\ UNCHANGED <<pendVars, taskVars, gateVars, staleness, lock>>
    BY <1>1, <1>12, <2>1 DEF ProcPark
  <2>3. QED
    BY <1>1, <2>2 DEF pendVars, taskVars, gateVars
<1>8. CASE ProcDrainReap
  BY <1>1, <1>8 DEF ProcDrainReap, pendVars, gateVars
<1>9. CASE ProcDrainResume
  BY <1>1, <1>9 DEF ProcDrainResume, pendVars, taskVars, gateVars
<1>10. CASE ProcLock
  <2>1. Dispatch(taken, active, lock, FALSE)
    BY <1>10 DEF ProcLock
  <2>2. taken \in 1 .. None
    BY <1>1, <1>10, ParametersAssumption DEF ProcLock, Sample, None
  <2>3. UNCHANGED <<pendVars, posted, failed, gateVars, staleness, procQ, reaping>>
    BY <1>10 DEF ProcLock
  <2>4. QED
    BY <1>1, <2>1, <2>2, <2>3, DispatchType DEF pendVars, gateVars
<1>11. CASE ProcReap
  <2>1. UNCHANGED <<pendVars, posted, failed, gateVars, staleness, procQ, reaping>>
    BY <1>11 DEF ProcReap
  <2>2. taken \in 1 .. None
    BY <1>1, <1>11, ParametersAssumption DEF ProcReap, Sample, None
  <2>3. CASE Done \cap failed = {}
    <3>1. Dispatch(taken, active \ Done, "free", MonWaits \/ ResetWaits)
      BY <1>11, <2>3 DEF ProcReap
    <3>2. QED
      BY <1>1, <2>1, <2>2, <3>1, DispatchType DEF pendVars, gateVars
  <2>4. CASE Done \cap failed # {}
    BY <1>1, <1>11, <2>1, <2>4 DEF ProcReap, pendVars, gateVars
  <2>5. QED
    BY <2>3, <2>4
<1>14. ASSUME NEW i \in Sample, Task(i) PROVE RollouterType'
  <2>1. CASE TaskPost(i)
    BY <1>1, <2>1 DEF TaskPost, pendVars, gateVars, procVars
  <2>2. CASE TaskEnd(i)
    <3>1. /\ running' \in SUBSET Sample /\ posted' \in SUBSET Sample
          /\ failed' \in SUBSET Sample
      BY <1>1, <2>2 DEF TaskEnd
    <3>2. QED
      BY <1>1, <2>2, <3>1 DEF TaskEnd, pendVars, gateVars, procVars
  <2>3. QED
    BY <1>14, <2>1, <2>2 DEF Task
<1>15. CASE MonResume
  BY <1>1, <1>15 DEF MonResume, pendVars, taskVars, procVars
<1>16. CASE ResetBegin
  BY <1>1, <1>16 DEF ResetBegin, pendVars, taskVars, procVars
<1>17. CASE ResetSet
  BY <1>1, <1>17 DEF ResetSet, pendVars, taskVars, gateVars, procVars
<1>18. QED
  BY <1>2, <1>3, <1>4, <1>5, <1>6, <1>7, <1>8, <1>9, <1>10, <1>11, <1>12, <1>14,
     <1>15, <1>16, <1>17, RollouterFootprint
     DEF Processor

\* The types hold initially.
LEMMA InitType == Init => TypeOK
<1> SUFFICES ASSUME Init PROVE TypeOK
  OBVIOUS
<1>1. 0 \in 0 .. None /\ 1 \in 1 .. T
  BY ParametersAssumption DEF None
<1>2. RollouterType
  BY <1>1 DEF Init, RollouterType
<1>3. MonitorType /\ QueueType
  BY DEF Init, MonitorType, QueueType
<1>4. TrainerType
  BY <1>1 DEF Init, TrainerType
<1>5. QED
  BY <1>2, <1>3, <1>4 DEF TypeOK

\* Type correctness of the whole pipeline.
THEOREM TypeCorrect == Spec => []TypeOK
<1>1. Init => TypeOK
  BY InitType
<1>2. TypeOK /\ [Next]_vars => TypeOK'
  BY TrainerTypeStep, QueueTypeStep, MonitorTypeStep, RollouterTypeStep
     DEF TypeOK
<1>3. QED
  BY <1>1, <1>2, PTL DEF Spec

-----------------------------------------------------------------------------
(* The simple parts of FreshInv *)

\* A task that is created is in active_tasks; one that is done does not run.
LEMMA RunningStep == FreshInv /\ [Next]_vars => RunningIsActive'
<1> SUFFICES ASSUME FreshInv, [Next]_vars PROVE RunningIsActive'
  OBVIOUS
<1> USE DEF RunningIsActive
<1>1. RunningIsActive
  BY DEF FreshInv
<1>2. CASE UNCHANGED rollVars
  BY <1>1, <1>2 DEF taskVars, procVars
<1>3. CASE Feed \/ MonResume \/ ResetBegin \/ ResetSet
  BY <1>1, <1>3 DEF Feed, MonResume, ResetBegin, ResetSet, taskVars, procVars
<1>4. CASE ProcAsk \/ ProcPause \/ ProcPark \/ ProcDrainResume
  BY <1>1, <1>4 DEF ProcAsk, ProcPause, ProcPark, ProcDrainResume, taskVars, Done
<1>5. CASE ProcDecide \/ ProcTake
  BY <1>1, <1>5 DEF ProcDecide, ProcTake, Take, Dispatch
<1>6. CASE ProcDrainReap
  BY <1>1, <1>6 DEF ProcDrainReap, Done
<1>7. CASE ProcLock
  BY <1>1, <1>7 DEF ProcLock, Dispatch
<1>8. CASE ProcReap
  BY <1>1, <1>8 DEF ProcReap, Dispatch, Done
<1>9. ASSUME NEW i \in Sample, Task(i) PROVE RunningIsActive'
  BY <1>1, <1>9 DEF Task, TaskPost, TaskEnd, procVars
<1>10. QED
  BY <1>2, <1>3, <1>4, <1>5, <1>6, <1>7, <1>8, <1>9, RollouterFootprint
     DEF Processor

\* Only the processor pauses, and only a resume lets it leave the drain.
LEMMA PausedStep == FreshInv /\ [Next]_vars => PausedWhileDraining'
<1> SUFFICES ASSUME FreshInv, [Next]_vars PROVE PausedWhileDraining'
  OBVIOUS
<1> USE DEF PausedWhileDraining
<1>1. PausedWhileDraining /\ paused \in BOOLEAN
  BY DEF FreshInv, TypeOK, RollouterType
<1>2. CASE UNCHANGED rollVars
  BY <1>1, <1>2 DEF gateVars, procVars
<1>3. CASE Feed \/ MonResume \/ ResetBegin \/ ResetSet
  BY <1>1, <1>3 DEF Feed, MonResume, ResetBegin, ResetSet, gateVars, procVars
<1>4. CASE ProcAsk \/ ProcDecide \/ ProcTake \/ ProcLock \/ ProcReap
  BY <1>1, <1>4 DEF ProcAsk, ProcDecide, ProcTake, ProcLock, ProcReap, gateVars
<1>5. CASE ProcPause \/ ProcPark \/ ProcDrainReap \/ ProcDrainResume
  BY <1>1, <1>5 DEF ProcPause, ProcPark, ProcDrainReap, ProcDrainResume, gateVars
<1>6. ASSUME NEW i \in Sample, Task(i) PROVE PausedWhileDraining'
  BY <1>1, <1>6 DEF Task, TaskPost, TaskEnd, gateVars, procVars
<1>7. QED
  BY <1>2, <1>3, <1>4, <1>5, <1>6, RollouterFootprint DEF Processor

\* Who changes the control state that the counts depend on.
LEMMA ControlFootprint ==
    [Next]_vars => \/ Processor \/ Trainer \/ Main
                   \/ UNCHANGED <<lock, procPC, trPC, mainPC>>
  BY DEF Next, Feed, Task, TaskPost, TaskEnd, Monitor, MonLoop, MonWake, MonAsk,
         MonDecide, MonResume, MonTop, Terminated, vars, procVars, trVars, mainVars

\* _streaming_generation_main leaves "stream" only after the processor has
\* ended, and the processor does not come back.
LEMMA ProcessorEndsStep == FreshInv /\ [Next]_vars => ProcessorEnds'
<1> SUFFICES ASSUME FreshInv, [Next]_vars PROVE ProcessorEnds'
  OBVIOUS
<1> USE DEF ProcessorEnds
<1>1. ProcessorEnds
  BY DEF FreshInv
<1>2. CASE UNCHANGED <<lock, procPC, trPC, mainPC>>
  BY <1>1, <1>2
<1>3. CASE Processor
  BY <1>1, <1>3 DEF Processor, ProcAsk, ProcDecide, ProcTake, Take, Dispatch, ProcPause,
         ProcPark, ProcDrainReap, ProcDrainResume, ProcLock, ProcReap,
         mainVars
<1>4. CASE Trainer
  BY <1>1, <1>4 DEF Trainer, TrainerGet, TrainerStep, TrainerSync, ResetPark, ResetBegin,
         ResetAsk, ResetSet, TrainerFinish, mainVars, procVars
<1>5. CASE Main
  BY <1>1, <1>5 DEF Main, MainSentinel, MainStop, MainClear, procVars
<1>6. QED
  BY <1>2, <1>3, <1>4, <1>5, ControlFootprint

\* The lock has one owner at a time, and its owner is where the code holds it.
LEMMA LockHolderStep == FreshInv /\ [Next]_vars => LockHolder'
<1> SUFFICES ASSUME FreshInv, [Next]_vars PROVE LockHolder'
  OBVIOUS
<1> USE DEF LockHolder
<1>1. LockHolder
  BY DEF FreshInv
<1>2. CASE UNCHANGED <<lock, procPC, trPC, mainPC>>
  BY <1>1, <1>2
<1>3. CASE Processor
  <2>1. CASE ProcDecide \/ ProcTake
    <3>1. CASE Take
      <4>1. /\ Dispatch(taken + 1, active, lock, Busy) /\ lock # "proc"
            /\ UNCHANGED trPC
        BY <1>1, <2>1, <3>1 DEF ProcDecide, ProcTake, Take, trVars
      <4>2. lock = "free" \/ Busy
        BY DEF Busy
      <4>3. QED
        BY <1>1, <4>1, <4>2 DEF Dispatch, Busy
    <3>2. CASE ~Take
      BY <1>1, <2>1, <3>2 DEF ProcDecide, ProcTake, trVars
    <3>3. QED
      BY <3>1, <3>2
  <2>5. CASE ProcLock
    BY <1>1, <2>5 DEF ProcLock, Dispatch, trVars
  <2>6. CASE ProcReap
    BY <1>1, <2>6 DEF ProcReap, Dispatch, trVars
  <2>2. CASE ProcAsk \/ ProcPause \/ ProcPark \/ ProcDrainResume
    BY <1>1, <2>2 DEF ProcAsk, ProcPause, ProcPark, ProcDrainResume, trVars
  <2>3. CASE ProcDrainReap
    BY <1>1, <2>3 DEF ProcDrainReap, trVars
  <2>4. QED
    BY <1>3, <2>1, <2>2, <2>3, <2>5, <2>6 DEF Processor
<1>4. CASE Trainer
  <2>1. CASE TrainerGet \/ TrainerStep \/ TrainerSync \/ ResetPark \/ ResetAsk
             \/ TrainerFinish
    BY <1>1, <2>1 DEF TrainerGet, TrainerStep, TrainerSync, ResetPark, ResetAsk,
                      TrainerFinish, procVars
  <2>2. CASE ResetBegin
    BY <1>1, <2>2 DEF ResetBegin, Busy, procVars
  <2>3. CASE ResetSet
    BY <1>1, <2>3 DEF ResetSet, procVars
  <2>4. QED
    BY <1>4, <2>1, <2>2, <2>3 DEF Trainer
<1>5. CASE Main
  BY <1>1, <1>5 DEF Main, MainSentinel, MainStop, MainClear, procVars, trVars
<1>6. QED
  BY <1>2, <1>3, <1>4, <1>5, ControlFootprint

-----------------------------------------------------------------------------
(* The counts *)

countVars == <<mainPC, fetched, running, queue, staleness, procPC, trPC, resetN>>

CountInv == CountsCover /\ ResetCovers /\ FreshnessBound

\* Who changes the numbers that staleness_samples stands for.
LEMMA CountFootprint ==
    [Next]_vars => \/ Processor \/ Trainer \/ Main \/ \E i \in Sample : Task(i)
                   \/ UNCHANGED countVars
  BY DEF Next, Feed, Monitor, MonLoop, MonWake, MonAsk, MonDecide, MonResume, MonTop,
         Terminated, vars, procVars, trVars, mainVars, mqVars, taskVars,
         countVars

\* A task that posts moves its sample from running to the queue.
LEMMA TaskCount ==
    ASSUME TypeOK, NEW i \in Sample, Task(i)
    PROVE  /\ Cardinality(running') <= Cardinality(running)
           /\ Cardinality(running') + Len(queue') <= Cardinality(running) + Len(queue)
<1>1. /\ IsFiniteSet(running) /\ Cardinality(running) \in Nat
      /\ QueueType /\ Len(queue) \in Nat
  BY SampleSets DEF TypeOK, RollouterType, QueueType
<1>2. i \in running => Cardinality(running \ {i}) = Cardinality(running) - 1
  BY <1>1, FS_RemoveElement
<1>3. CASE TaskPost(i)
  <2>1. QueueType' /\ Len(queue') <= Len(queue) + 1
    BY <1>1, <1>3, PutType, ParametersAssumption DEF TaskPost, None, Sample
  <2>2. i \in running /\ running' = running \ {i}
    BY <1>3 DEF TaskPost
  <2>3. Len(queue') \in Nat
    BY <2>1 DEF QueueType
  <2>4. QED
    BY <1>1, <1>2, <2>1, <2>2, <2>3
<1>4. CASE TaskEnd(i)
  <2>1. queue' = queue
    BY <1>4 DEF TaskEnd, mqVars
  <2>2. running' = running \/ (i \in running /\ running' = running \ {i})
    BY <1>4 DEF TaskEnd
  <2>3. \/ Cardinality(running') = Cardinality(running)
        \/ Cardinality(running') = Cardinality(running) - 1
    BY <1>2, <2>2
  <2>4. Len(queue') = Len(queue)
    BY <2>1
  <2>5. QED
    BY <1>1, <2>3, <2>4
<1>5. QED
  BY <1>3, <1>4 DEF Task

\* The item in hand is counted once, in hand or as a running task.
LEMMA DispatchCount ==
    ASSUME TypeOK, NEW t \in 1 .. None, NEW A \in SUBSET Sample,
           NEW held \in {"free", "proc", "reset"}, NEW busy \in BOOLEAN,
           Dispatch(t, A, held, busy)
    PROVE  /\ Cardinality(running') \in Nat
           /\ Held' + Cardinality(running')
                 <= Cardinality(running) + (IF t = None THEN 0 ELSE 1)
           /\ procPC' # "take"
<1>1. IsFiniteSet(running) /\ Cardinality(running) \in Nat
  BY SampleSets DEF TypeOK, RollouterType
<1>2. \/ Cardinality(running \cup {t}) = Cardinality(running)
      \/ Cardinality(running \cup {t}) = Cardinality(running) + 1
  BY <1>1, FS_AddElement
<1>3. \/ running' = running \cup {t} /\ t # None /\ procPC' = "ask"
      \/ /\ running' = running
         /\ procPC' \in {"submit", "submitWait"} /\ t # None
      \/ /\ running' = running
         /\ procPC' \in {"finish", "finishWait", "finished"}
  BY DEF Dispatch
<1>4. QED
  BY <1>1, <1>2, <1>3 DEF Held

\* fetched since the last reset, or still to be fetched
Used == fetched + Outstanding

\* The number of outstanding samples is a natural number.
LEMMA UsedType ==
    ASSUME TypeOK
    PROVE  Used \in Nat /\ Held \in {0, 1}
<1>1. Cardinality(running) \in Nat /\ Len(queue) \in Nat /\ fetched \in Nat
  BY SampleSets DEF TypeOK, RollouterType, QueueType, TrainerType
<1>2. Held \in {0, 1}
  BY DEF Held
<1>3. QED
  BY <1>1, <1>2 DEF Used, Outstanding

\* The same of the next state.
LEMMA UsedTypeNext ==
    ASSUME TypeOK'
    PROVE  Used' \in Nat
<1>1. Cardinality(running') \in Nat /\ Len(queue') \in Nat /\ fetched' \in Nat
  BY SampleSets DEF TypeOK, RollouterType, QueueType, TrainerType
<1>2. Held' \in {0, 1}
  BY DEF Held
<1>3. Used' = fetched' + (Held' + Cardinality(running') + Len(queue'))
  BY DEF Used, Outstanding
<1> HIDE DEF Used
<1>4. QED
  BY <1>1, <1>2, <1>3

\* What a step does to the counts: it adds to neither of them, or puts one more
\* sample and counts it, or stores the sum that reset_staleness made.
Adds == Used' <= Used + 1 /\ staleness' = staleness + 1 /\ procPC' # "take"
Room == procPC = "take" \/ (procPC = "decide" /\ ~ShouldPause(procQ))
Keeps == /\ Used' <= Used /\ staleness' = staleness
         /\ procPC' = "take" => Room

\* An item taken out of pending_queue is counted by staleness_samples as well.
LEMMA TakeAdds ==
    ASSUME FreshInv, TypeOK', Take, procPC \in {"decide", "take"}, taken < fed,
           UNCHANGED <<mqVars, trVars>>
    PROVE  Adds
<1>1. /\ staleness' = staleness + 1 /\ taken + 1 \in 1 .. None /\ TypeOK
      /\ Dispatch(taken + 1, active, lock, Busy) /\ UNCHANGED <<fetched, queue>>
      /\ Held = 0
  BY ParametersAssumption
     DEF FreshInv, Take, TypeOK, RollouterType, None, Held, mqVars, trVars
<1>2. /\ Busy \in BOOLEAN /\ active \in SUBSET Sample /\ lock \in {"free", "proc", "reset"}
  BY <1>1 DEF Busy, ProcWaits, MonWaits, ResetWaits, TypeOK, RollouterType
<1>3. /\ Cardinality(running') \in Nat /\ procPC' # "take"
      /\ Held' + Cardinality(running')
            <= Cardinality(running) + (IF taken + 1 = None THEN 0 ELSE 1)
  BY <1>1, <1>2, DispatchCount
<1>4. /\ Held' \in {0, 1} /\ Cardinality(running) \in Nat
      /\ Len(queue) \in Nat /\ fetched \in Nat
  <2>1. Held' \in {0, 1}  BY DEF Held
  <2>2. Cardinality(running) \in Nat
    BY <1>1, SampleSets DEF TypeOK, RollouterType
  <2>3. Len(queue) \in Nat /\ fetched \in Nat
    BY <1>1 DEF TypeOK, QueueType, TrainerType
  <2> QED  BY <2>1, <2>2, <2>3
<1>5. Used' = fetched + (Held' + Cardinality(running') + Len(queue))
  BY <1>1 DEF Used, Outstanding
<1> HIDE DEF Held
<1>6. Used = fetched + (0 + Cardinality(running) + Len(queue))
  BY <1>1 DEF Used, Outstanding
<1> HIDE DEF Used
<1>7. Used' <= Used + 1  BY <1>3, <1>4, <1>5, <1>6
<1> QED  BY <1>1, <1>3, <1>7 DEF Adds

\* An item in hand that becomes a task, or stays in hand, is counted once.
LEMMA SubmitKeeps ==
    ASSUME FreshInv, TypeOK', NEW A \in SUBSET Sample, NEW held \in {"free", "proc", "reset"},
           NEW busy \in BOOLEAN, Dispatch(taken, A, held, busy),
           procPC \in {"submit", "submitWait", "finish", "finishWait"},
           UNCHANGED <<mqVars, trVars, staleness>>
    PROVE  Keeps
<1>1. /\ TypeOK /\ taken \in 1 .. None /\ Held = IF taken = None THEN 0 ELSE 1
      /\ UNCHANGED <<fetched, queue>>
  BY ParametersAssumption
     DEF FreshInv, TypeOK, RollouterType, None, Sample, Held, mqVars, trVars
<1>2. /\ Cardinality(running') \in Nat /\ procPC' # "take"
      /\ Held' + Cardinality(running') <= Cardinality(running) + (IF taken = None THEN 0 ELSE 1)
  BY <1>1, DispatchCount
<1>3. /\ Held' \in {0, 1} /\ Cardinality(running) \in Nat /\ Len(queue) \in Nat /\ fetched \in Nat
  BY <1>1, SampleSets DEF Held, TypeOK, RollouterType, QueueType, TrainerType
<1>4. Used' = fetched + (Held' + Cardinality(running') + Len(queue))
  BY <1>1 DEF Used, Outstanding
<1>5. Used = fetched + (Held + Cardinality(running) + Len(queue))
  BY DEF Used, Outstanding
<1> HIDE DEF Held
<1> QED
  BY <1>1, <1>2, <1>3, <1>4, <1>5 DEF Keeps

\* A step of the processor takes an item it had room for, or adds nothing.
LEMMA ProcessorCounts ==
    ASSUME FreshInv, TypeOK', Processor
    PROVE  Keeps \/ (Adds /\ Room)
<1>1. TypeOK /\ active \in SUBSET Sample /\ Used \in Nat
  BY UsedType DEF FreshInv, TypeOK, RollouterType
<1>2. UNCHANGED <<mqVars, trVars>>
  BY DEF Processor, ProcAsk, ProcDecide, ProcTake, ProcPause, ProcPark, ProcDrainReap,
         ProcDrainResume, ProcLock, ProcReap
<1>3. CASE ProcAsk \/ ProcPause \/ ProcPark \/ ProcDrainReap \/ ProcDrainResume
  <2>1. /\ UNCHANGED <<running, staleness, fetched, queue>>
        /\ procPC' \notin {"take", "submit", "submitWait"}
        /\ procPC \notin {"submit", "submitWait"}
    BY <1>3, <1>2 DEF ProcAsk, ProcPause, ProcPark, ProcDrainReap, ProcDrainResume, taskVars,
                      mqVars, trVars
  <2>2. Used' = Used
    BY <2>1 DEF Used, Outstanding, Held
  <2> QED
    BY <1>1, <2>1, <2>2 DEF Keeps
<1>4. CASE ProcDecide
  <2>1. procPC = "decide" /\ ~ShouldPause(procQ)
    BY <1>4 DEF ProcDecide
  <2>2. CASE taken < fed
    <3>1. Take
      BY <1>4, <2>2 DEF ProcDecide
    <3> QED
      BY <1>2, <2>1, <2>2, <3>1, TakeAdds DEF Room
  <2>3. CASE ~(taken < fed)
    <3>1. procPC' = "take" /\ UNCHANGED <<running, staleness, fetched, queue>>
      BY <1>2, <1>4, <2>3 DEF ProcDecide, mqVars, trVars
    <3>2. Used' = Used
      BY <2>1, <3>1 DEF Used, Outstanding, Held
    <3> QED
      BY <1>1, <2>1, <3>1, <3>2 DEF Keeps, Room
  <2> QED
    BY <2>2, <2>3
<1>5. CASE ProcTake
  BY <1>2, <1>5, TakeAdds DEF ProcTake, Room
<1>6. CASE ProcLock
  BY <1>1, <1>2, <1>6, SubmitKeeps DEF ProcLock
<1>7. CASE ProcReap
  <2>1. CASE Done \cap failed = {}
    <3>1. /\ Dispatch(taken, active \ Done, "free", MonWaits \/ ResetWaits)
          /\ procPC \in {"submitWait", "finishWait"} /\ staleness' = staleness
          /\ (MonWaits \/ ResetWaits) \in BOOLEAN /\ active \ Done \in SUBSET Sample
      BY <1>1, <1>7, <2>1 DEF ProcReap, MonWaits, ResetWaits
    <3> QED
      BY <1>2, <3>1, SubmitKeeps
  <2>2. CASE Done \cap failed # {}
    <3>1. procPC' = "failed" /\ UNCHANGED <<running, staleness, fetched, queue>>
      BY <1>2, <1>7, <2>2 DEF ProcReap, mqVars, trVars
    <3>2. /\ Held' = 0 /\ Held \in {0, 1} /\ Cardinality(running) \in Nat /\ Len(queue) \in Nat
          /\ fetched \in Nat
      BY <1>1, <3>1, SampleSets DEF Held, TypeOK, RollouterType, QueueType, TrainerType
    <3>3. Used' = fetched + (0 + Cardinality(running) + Len(queue))
      BY <3>1, <3>2 DEF Used, Outstanding
    <3>4. Used = fetched + (Held + Cardinality(running) + Len(queue))
      BY DEF Used, Outstanding
    <3> HIDE DEF Used, Held
    <3> QED
      BY <3>1, <3>2, <3>3, <3>4 DEF Keeps
  <2> QED
    BY <2>1, <2>2
<1> QED
  BY <1>3, <1>4, <1>5, <1>6, <1>7 DEF Processor

\* As long as samples are fed, only a taken item adds to what is fetched and
\* outstanding, and only reset_staleness lowers the counter.
LEMMA UsedStep ==
    ASSUME FreshInv, [Next]_vars, mainPC' = "stream"
    PROVE  /\ mainPC = "stream" /\ TypeOK'
           /\ Keeps \/ (Adds /\ Room) \/ ResetSet
<1>1. TypeOK'
  BY TrainerTypeStep, QueueTypeStep, MonitorTypeStep, RollouterTypeStep DEF FreshInv, TypeOK
<1>2. TypeOK /\ Used \in Nat
  BY UsedType DEF FreshInv
<1>3. /\ Cardinality(running) \in Nat /\ Len(queue) \in Nat /\ fetched \in Nat
      /\ Held \in {0, 1}
  BY <1>2, SampleSets DEF Held, TypeOK, RollouterType, QueueType, TrainerType
<1>4. Used = fetched + (Held + Cardinality(running) + Len(queue))
  BY DEF Used, Outstanding
<1>5. /\ Cardinality(running') \in Nat /\ Len(queue') \in Nat /\ fetched' \in Nat
      /\ Held' \in {0, 1}
  BY <1>1, SampleSets DEF Held, TypeOK, RollouterType, QueueType, TrainerType
<1>6. Used' = fetched' + (Held' + Cardinality(running') + Len(queue'))
  BY DEF Used, Outstanding
<1>7. mainPC = "stream"
  BY MonitorFootprint DEF Monitor, Main, MonLoop, MonWake, MonAsk, MonDecide, MonResume,
                          MainSentinel, MainStop, MainClear, mainVars
<1>8. procPC' = procPC => Held' = Held
  BY DEF Held
<1>9. CASE UNCHANGED countVars
  <2>1. UNCHANGED <<fetched, running, queue, staleness, procPC>>
    BY <1>9 DEF countVars
  <2>2. Used' = Used
    BY <2>1 DEF Used, Outstanding, Held
  <2> QED
    BY <1>1, <1>2, <1>7, <2>1, <2>2 DEF Keeps, Room
<1>11. CASE Processor
  BY <1>1, <1>7, <1>11, ProcessorCounts
<1>12. ASSUME NEW i \in Sample, Task(i) PROVE Keeps
  <2>1. Cardinality(running') + Len(queue') <= Cardinality(running) + Len(queue)
    BY <1>2, <1>12, TaskCount
  <2>2. UNCHANGED <<fetched, staleness, procPC>>
    BY <1>12 DEF Task, TaskPost, TaskEnd, procVars, trVars
  <2> HIDE DEF Held, Used
  <2> QED
    BY <1>3, <1>4, <1>5, <1>6, <1>8, <2>1, <2>2 DEF Keeps, Room
<1>13. CASE Main
  BY <1>7, <1>13 DEF Main, MainSentinel, MainStop, MainClear
<1>14. CASE TrainerGet
  <2>1. Len(queue') = Len(queue) - 1
    BY <1>2, <1>14, HeadTailProperties DEF TrainerGet, TypeOK, QueueType
  <2>2. /\ fetched' <= fetched + 1 /\ UNCHANGED <<running, staleness, procPC>>
    BY <1>3, <1>14 DEF TrainerGet, procVars, taskVars
  <2>3. Held' = Held /\ Cardinality(running') = Cardinality(running)
    BY <1>8, <2>2
  <2>4. Used' <= Used
    <3> HIDE DEF Held, Used
    <3> QED
      BY <1>3, <1>4, <1>5, <1>6, <2>1, <2>2, <2>3
  <2> QED
    BY <1>1, <1>7, <2>2, <2>4 DEF Keeps, Room
<1>15. CASE TrainerStep \/ TrainerSync \/ ResetPark \/ TrainerFinish \/ ResetBegin \/ ResetAsk
  <2>1. UNCHANGED <<fetched, running, queue, staleness, procPC>>
    BY <1>15 DEF TrainerStep, TrainerSync, ResetPark, TrainerFinish, ResetBegin, ResetAsk,
                 mqVars, procVars, taskVars
  <2>2. Used' = Used
    BY <2>1 DEF Used, Outstanding, Held
  <2> QED
    BY <1>1, <1>2, <1>7, <2>1, <2>2 DEF Keeps, Room
<1> QED
  BY <1>1, <1>7, <1>9, <1>11, <1>12, <1>13, <1>14, <1>15, CountFootprint DEF Trainer

\* While reset_staleness holds the lock nothing is submitted, and a sample that
\* leaves the running tasks goes to the queue at most.
LEMMA ResetStep ==
    ASSUME FreshInv, [Next]_vars, mainPC' = "stream"
    PROVE  ResetCovers'
<1>1. TypeOK /\ LockHolder /\ RunningIsActive /\ ResetCovers /\ mainPC = "stream" /\ TypeOK'
  BY UsedStep DEF FreshInv
<1>2. /\ Cardinality(running) \in Nat /\ Cardinality(active) \in Nat /\ Len(queue) \in Nat
      /\ resetN \in Nat /\ IsFiniteSet(running) /\ IsFiniteSet(active)
      /\ Cardinality(running') \in Nat /\ Len(queue') \in Nat
  <2>1. running' \in SUBSET Sample /\ queue' \in Seq(1 .. None)
    BY <1>1 DEF TypeOK, RollouterType, QueueType
  <2>2. Cardinality(running') \in Nat /\ Len(queue') \in Nat
    <3>1. Cardinality(running') \in Nat
      BY <2>1, SampleSets
    <3> QED
      BY <2>1, <3>1
  <2>3. running \in SUBSET Sample /\ active \in SUBSET Sample /\ resetN \in Nat /\ Len(queue) \in Nat
    <3>1. RollouterType /\ QueueType /\ TrainerType
      BY <1>1 DEF TypeOK
    <3> QED
      BY <3>1 DEF RollouterType, QueueType, TrainerType
  <2>4. /\ IsFiniteSet(running) /\ IsFiniteSet(active)
        /\ Cardinality(running) \in Nat /\ Cardinality(active) \in Nat
    BY <2>3, SampleSets
  <2> QED
    BY <2>2, <2>3, <2>4
<1>3. CASE UNCHANGED countVars
  BY <1>1, <1>3 DEF countVars, ResetCovers
<1>4. CASE Processor /\ trPC \in {"resetAsk", "resetSet"}
  <2>1. lock = "reset" /\ UNCHANGED <<queue, trPC, resetN>>
    BY <1>1, <1>4 DEF LockHolder, Processor, ProcAsk, ProcDecide, ProcTake, ProcPause, ProcPark,
                      ProcDrainReap, ProcDrainResume, ProcLock, ProcReap, mqVars, trVars
  <2>2. running' = running
    BY <1>1, <1>4, <2>1
       DEF LockHolder, Processor, ProcAsk, ProcDecide, ProcTake, Take, Dispatch, Busy, ProcPause,
           ProcPark, ProcDrainReap, ProcDrainResume, ProcLock, ProcReap, taskVars
  <2> QED
    BY <1>1, <2>1, <2>2 DEF ResetCovers
<1>5. CASE Processor /\ trPC \notin {"resetAsk", "resetSet"}
  BY <1>5 DEF Processor, ProcAsk, ProcDecide, ProcTake, ProcPause, ProcPark, ProcDrainReap,
              ProcDrainResume, ProcLock, ProcReap, trVars, ResetCovers
<1>6. ASSUME NEW i \in Sample, Task(i) PROVE ResetCovers'
  <2>1. /\ Cardinality(running') <= Cardinality(running)
        /\ Cardinality(running') + Len(queue') <= Cardinality(running) + Len(queue)
    BY <1>1, <1>6, TaskCount
  <2>2. UNCHANGED <<trPC, resetN>>
    BY <1>6 DEF Task, TaskPost, TaskEnd, trVars
  <2> QED
    BY <1>1, <1>2, <2>1, <2>2 DEF ResetCovers
<1>7. CASE Main
  BY <1>1, <1>7 DEF Main, MainSentinel, MainStop, MainClear
<1>8. CASE ResetBegin
  <2>1. Cardinality(running) <= Cardinality(active)
    BY <1>1, <1>2, FS_Subset DEF RunningIsActive
  <2> QED
    BY <1>8, <2>1 DEF ResetBegin, taskVars, ResetCovers
<1>9. CASE ResetAsk
  BY <1>1, <1>2, <1>9 DEF ResetAsk, mqVars, taskVars, ResetCovers
<1>10. CASE TrainerGet \/ TrainerStep \/ TrainerSync \/ ResetPark \/ TrainerFinish \/ ResetSet
  BY <1>10 DEF TrainerGet, TrainerStep, TrainerSync, ResetPark, TrainerFinish, ResetSet,
               ResetCovers
<1> QED
  BY <1>3, <1>4, <1>5, <1>6, <1>7, <1>8, <1>9, <1>10, CountFootprint DEF Trainer

\* The counts are kept by every step: staleness_samples stays behind what is
\* outstanding by one at most, also while reset_staleness adds up its two numbers.
LEMMA CountStep == FreshInv /\ [Next]_vars => CountInv'
<1> SUFFICES ASSUME FreshInv, [Next]_vars, mainPC' = "stream" PROVE CountInv'
  BY DEF CountInv, CountsCover, ResetCovers, FreshnessBound
<1>1. /\ mainPC = "stream" /\ TypeOK /\ TypeOK'
      /\ Keeps \/ (Adds /\ Room) \/ ResetSet
  BY UsedStep DEF FreshInv
<1>2. /\ Used \in Nat /\ Used' \in Nat /\ staleness \in Nat /\ procQ \in Nat
      /\ MaxRequired \in Nat
  BY <1>1, UsedType, UsedTypeNext, MaxRequiredPositive DEF TypeOK, RollouterType
<1>3. /\ Used <= staleness + 1 /\ Used <= MaxRequired + 1
      /\ procPC = "take" => Used <= MaxRequired
  BY <1>1 DEF FreshInv, CountsCover, FreshnessBound, Used
<1>4. Room => Used <= MaxRequired
  BY <1>2, <1>3 DEF Room, ShouldPause
<1>5. /\ Used' <= staleness' + 1 /\ Used' <= MaxRequired + 1
      /\ procPC' = "take" => Used' <= MaxRequired
  <2>1. CASE Keeps \/ (Adds /\ Room)
    <3> HIDE DEF Used
    <3> QED
      BY <1>2, <1>3, <1>4, <2>1 DEF Keeps, Adds
  <2>2. CASE ResetSet
    <3>1. /\ Cardinality(running) \in Nat /\ Len(queue) \in Nat /\ fetched \in Nat
          /\ Held \in {0, 1} /\ resetN \in Nat /\ Cardinality(running) + Len(queue) <= resetN
      BY <1>1, <2>2, SampleSets
         DEF Held, TypeOK, RollouterType, QueueType, TrainerType, FreshInv, ResetCovers, ResetSet
    <3>2. /\ UNCHANGED <<running, queue, procPC>> /\ fetched' = 0 /\ staleness' = resetN
      BY <2>2 DEF ResetSet, taskVars, mqVars, procVars
    <3>3. Held' = Held
      BY <3>2 DEF Held
    <3>4. Used = fetched + (Held + Cardinality(running) + Len(queue))
      BY DEF Used, Outstanding
    <3>5. Used' = 0 + (Held + Cardinality(running) + Len(queue))
      BY <3>2, <3>3 DEF Used, Outstanding
    <3> HIDE DEF Held, Used
    <3> QED
      BY <1>2, <1>3, <3>1, <3>2, <3>4, <3>5
  <2> QED
    BY <1>1, <2>1, <2>2
<1> QED
  BY <1>5, ResetStep DEF CountInv, CountsCover, FreshnessBound, Used

\* The inductive invariant holds initially.
LEMMA FreshInit == Init => FreshInv
<1> SUFFICES ASSUME Init PROVE FreshInv
  OBVIOUS
<1>1. Cardinality({}) = 0 /\ Len(<<>>) = 0
  BY FS_EmptySet
<1>2. MaxRequired \in Nat
  BY MaxRequiredPositive
<1>3. CountsCover /\ ResetCovers /\ FreshnessBound
  BY <1>1, <1>2 DEF Init, CountsCover, ResetCovers, FreshnessBound,
                    Outstanding, Held
<1>4. /\ ProcessorEnds /\ LockHolder /\ RunningIsActive
      /\ PausedWhileDraining
  BY DEF Init, ProcessorEnds, LockHolder, RunningIsActive, PausedWhileDraining
<1>5. QED
  BY <1>3, <1>4, InitType DEF FreshInv

\* The rollouter never runs further ahead of the trainer than
\* max_required_samples plus the one sample in the processor's hand, whatever
\* the interleaving of pause, drain, reset and task completion.
THEOREM Freshness == Spec => []FreshnessBound
<1>1. Init => FreshInv
  BY FreshInit
<1>2. FreshInv /\ [Next]_vars => FreshInv'
  BY TrainerTypeStep, QueueTypeStep, MonitorTypeStep, RollouterTypeStep,
     RunningStep, PausedStep, ProcessorEndsStep, LockHolderStep, CountStep
     DEF FreshInv, TypeOK, CountInv
<1>3. FreshInv => FreshnessBound
  BY DEF FreshInv
<1>4. QED
  BY <1>1, <1>2, <1>3, PTL DEF Spec

-----------------------------------------------------------------------------
(* The inductive invariant *)

\* The processor is through only with all its tasks, and dies only of a failed
\* one, which then holds a slot that no running task has.
ProcessorOver ==
    /\ procPC = "finished" => active = {} /\ taken = None
    /\ procPC = "failed" => failed # {} /\ Cardinality(running) < MaxConcurrent
    /\ Cardinality(active) <= MaxConcurrent
    /\ reaping \subseteq active

\* a trainer that was told does not fetch again
TrainerOver ==
    /\ stopping => trPC \notin {"get", "train", "finish"}
    /\ trPC = "stopped" => stopping
    /\ Told => mainPC # "stream"
    /\ mainPC = "cleared" => Told

\* no entry is queued twice
NoDuplicate == \A j, k \in 1 .. Len(queue) : queue[j] = queue[k] => j = k

\* no two of the places share a sample
Disjoint ==
    /\ InHand \cap (running \cup Queued \cup batch \cup trained \cup lost \cup failed) = {}
    /\ running \cap (Queued \cup batch \cup trained \cup lost \cup failed) = {}
    /\ Queued \cap (batch \cup trained \cup lost \cup failed) = {}
    /\ batch \cap (trained \cup lost \cup failed) = {}
    /\ trained \cap (lost \cup failed) = {}
    /\ lost \cap failed = {}

Abandoned == IF procPC = "failed" THEN {taken} \ {None} ELSE {}

\* every sample taken is in one of them
Covered ==
    mainPC # "cleared" =>
        InHand \cup running \cup (Queued \ {None}) \cup batch \cup trained
            \cup lost \cup failed \cup Abandoned = (1 .. taken) \ {None}

\* The end marker is queued once and not dropped: fewer tasks than the queue
\* has entries run behind it.  If nothing failed none does, and the marker is
\* the last entry until the trainer takes it.
Marker ==
    /\ mainPC = "stream" => None \notin Queued
    /\ None \notin lost
    /\ mainPC \in {"stop", "end"} /\ ~Told => None \in Queued
    /\ \A k \in 1 .. Len(queue) : queue[k] = None =>
          Len(queue) - k + Cardinality(running) < MaxConcurrent
    /\ failed = {} /\ mainPC # "stream" =>
          IF Told THEN queue = <<>>
                  ELSE queue # <<>> /\ queue[Len(queue)] = None

PlaceInv ==
    /\ ProcessorOver /\ TrainerOver
    /\ NoDuplicate /\ Disjoint /\ Covered /\ Marker
    /\ StopIsComplete

-----------------------------------------------------------------------------
(* The queue as a set *)

\* get_sample takes out the head and nothing else.
LEMMA GetEffect ==
    ASSUME QueueType, NoDuplicate, queue # <<>>, queue' = Tail(queue)
    PROVE  /\ Head(queue) \in Queued /\ Head(queue) = queue[1]
           /\ Queued' = Queued \ {Head(queue)}
           /\ NoDuplicate'
           /\ Len(queue) \in Nat \ {0} /\ Len(queue') = Len(queue) - 1
           /\ \A k \in 1 .. Len(queue) - 1 : queue'[k] = queue[k + 1]
<1>1. queue \in Seq(1 .. None) /\ Len(queue) \in Nat /\ Len(queue) # 0
  BY EmptySeq, LenProperties DEF QueueType
<1>2. Len(queue') = Len(queue) - 1 /\ Head(queue) = queue[1]
  BY <1>1, HeadTailProperties
<1>3. \A k \in 1 .. Len(queue) - 1 : queue'[k] = queue[k + 1]
  BY <1>1
<1>4. NoDuplicate'
  <2> SUFFICES ASSUME NEW j \in 1 .. Len(queue) - 1, NEW k \in 1 .. Len(queue) - 1,
                      queue'[j] = queue'[k]
               PROVE  j = k
    BY <1>2 DEF NoDuplicate
  <2>1. j + 1 \in 1 .. Len(queue) /\ k + 1 \in 1 .. Len(queue)
    BY <1>1
  <2>2. j + 1 = k + 1
    BY <1>3, <2>1 DEF NoDuplicate
  <2> QED
    BY <1>1, <2>2
<1>5. Queued' \subseteq Queued \ {Head(queue)}
  <2> SUFFICES ASSUME NEW k \in 1 .. Len(queue) - 1
               PROVE  queue'[k] \in Queued \ {Head(queue)}
    BY <1>2 DEF Queued
  <2>1. k + 1 \in 1 .. Len(queue) /\ k + 1 # 1 /\ 1 \in 1 .. Len(queue)
    BY <1>1
  <2>2. queue'[k] = queue[k + 1] /\ queue[k + 1] # queue[1]
    BY <1>3, <2>1 DEF NoDuplicate
  <2> QED
    BY <1>2, <2>1, <2>2 DEF Queued
<1>6. Queued \ {Head(queue)} \subseteq Queued'
  <2> SUFFICES ASSUME NEW k \in 1 .. Len(queue), queue[k] # Head(queue)
               PROVE  queue[k] \in Queued'
    BY DEF Queued
  <2>1. k - 1 \in 1 .. Len(queue) - 1 /\ (k - 1) + 1 = k
    BY <1>1, <1>2
  <2>2. queue'[k - 1] = queue[k] /\ k - 1 \in 1 .. Len(queue')
    BY <1>2, <1>3, <2>1
  <2> QED
    BY <2>2 DEF Queued
<1>7. Head(queue) \in Queued
  BY <1>1, <1>2 DEF Queued
<1> QED
  BY <1>1, <1>2, <1>3, <1>4, <1>5, <1>6, <1>7

\* what an entry at the end of a sequence of other entries does to it
LEMMA AppendEffect ==
    ASSUME NEW q \in Seq(1 .. None), NEW x \in 1 .. None,
           \A j, k \in 1 .. Len(q) : q[j] = q[k] => j = k,
           \A k \in 1 .. Len(q) : q[k] # x
    PROVE  /\ Len(Append(q, x)) = Len(q) + 1 /\ Len(q) \in Nat
           /\ \A k \in 1 .. Len(q) : Append(q, x)[k] = q[k]
           /\ Append(q, x)[Len(q) + 1] = x
           /\ \A j, k \in 1 .. Len(q) + 1 : Append(q, x)[j] = Append(q, x)[k] => j = k
           /\ {Append(q, x)[k] : k \in 1 .. Len(q) + 1} = {q[k] : k \in 1 .. Len(q)} \cup {x}
<1>1. /\ Len(Append(q, x)) = Len(q) + 1 /\ Len(q) \in Nat
      /\ \A k \in 1 .. Len(q) : Append(q, x)[k] = q[k]
      /\ Append(q, x)[Len(q) + 1] = x
  BY AppendProperties, LenProperties
<1>2. \A k \in 1 .. Len(q) + 1 : k \in 1 .. Len(q) \/ k = Len(q) + 1
  BY <1>1
<1>3. 1 .. Len(q) \subseteq 1 .. Len(q) + 1 /\ Len(q) + 1 \in 1 .. Len(q) + 1
  BY <1>1
<1> DEFINE a == Append(q, x)
<1> HIDE DEF a
<1>4. /\ \A k \in 1 .. Len(q) : a[k] = q[k]
      /\ a[Len(q) + 1] = x
  BY <1>1 DEF a
<1>5. \A j, k \in 1 .. Len(q) + 1 : a[j] = a[k] => j = k
  BY <1>2, <1>4, Zenon
<1>6. {a[k] : k \in 1 .. Len(q) + 1} = {q[k] : k \in 1 .. Len(q)} \cup {x}
  <2>1. ASSUME NEW k \in 1 .. Len(q) + 1
        PROVE  a[k] \in {q[i] : i \in 1 .. Len(q)} \cup {x}
    BY <1>2, <1>4
  <2>2. ASSUME NEW k \in 1 .. Len(q)
        PROVE  q[k] \in {a[i] : i \in 1 .. Len(q) + 1}
    BY <1>3, <1>4
  <2>3. x \in {a[i] : i \in 1 .. Len(q) + 1}
    BY <1>3, <1>4
  <2>4. {a[k] : k \in 1 .. Len(q) + 1} \subseteq {q[k] : k \in 1 .. Len(q)} \cup {x}
    BY <2>1
  <2>5. {q[k] : k \in 1 .. Len(q)} \cup {x} \subseteq {a[k] : k \in 1 .. Len(q) + 1}
    BY <2>2, <2>3
  <2> QED
    BY <2>4, <2>5
<1> QED
  BY <1>1, <1>5, <1>6 DEF a

\* put_sample adds its sample, and takes out the head if the queue is full.
LEMMA PutEffect ==
    ASSUME QueueType, NoDuplicate, NEW x \in 1 .. None, x \notin Queued, Put(x)
    PROVE  /\ NoDuplicate'
           /\ Len(queue) \in Nat /\ queue' # <<>> /\ queue'[Len(queue')] = x
           /\ \/ /\ Queued' = Queued \cup {x} /\ lost' = lost
                 /\ Len(queue') = Len(queue) + 1
                 /\ \A k \in 1 .. Len(queue) : queue'[k] = queue[k]
              \/ /\ Len(queue) >= MaxQueue /\ queue # <<>>
                 /\ Head(queue) \in Queued /\ Head(queue) = queue[1]
                 /\ Queued' = (Queued \ {Head(queue)}) \cup {x}
                 /\ lost' = lost \cup {Head(queue)}
                 /\ Len(queue') = Len(queue)
                 /\ \A k \in 1 .. Len(queue) - 1 : queue'[k] = queue[k + 1]
<1>1. queue \in Seq(1 .. None) /\ Len(queue) \in Nat
  BY LenProperties DEF QueueType
<1>2. CASE ~(Len(queue) >= MaxQueue)
  <2>1. queue' = Append(queue, x) /\ lost' = lost
    BY <1>2 DEF Put
  <2>2. \A k \in 1 .. Len(queue) : queue[k] # x
    BY DEF Queued
  <2>3. /\ Len(queue') = Len(queue) + 1
        /\ \A k \in 1 .. Len(queue) : queue'[k] = queue[k]
        /\ queue'[Len(queue) + 1] = x
        /\ \A j, k \in 1 .. Len(queue) + 1 : queue'[j] = queue'[k] => j = k
        /\ {queue'[k] : k \in 1 .. Len(queue) + 1} = Queued \cup {x}
    BY <1>1, <2>1, <2>2, AppendEffect DEF NoDuplicate, Queued
  <2>4. NoDuplicate' /\ Queued' = Queued \cup {x}
    BY <2>3 DEF NoDuplicate, Queued
  <2>5. queue' # <<>>
    BY <1>1, <2>3
  <2> QED
    BY <1>1, <2>1, <2>3, <2>4, <2>5
<1>3. CASE Len(queue) >= MaxQueue
  <2>1. queue # <<>>
    BY <1>1, <1>3, MaxRequiredPositive DEF MaxQueue
  <2>2. PICK q \in Seq(1 .. None) : q = Tail(queue)
    BY <1>1, <2>1, HeadTailProperties
  <2>3. queue' = Append(q, x) /\ lost' = lost \cup {Head(queue)}
    BY <1>3, <2>2 DEF Put
  <2>4. /\ Head(queue) = queue[1] /\ Len(q) = Len(queue) - 1
        /\ \A k \in 1 .. Len(q) : q[k] = queue[k + 1]
        /\ Len(queue) \in Nat \ {0}
    BY <1>1, <2>1, <2>2, HeadTailProperties, EmptySeq
  <2>5. \A k \in 1 .. Len(q) : k + 1 \in 1 .. Len(queue) /\ k + 1 # 1
    BY <2>4
  <2>6. 1 \in 1 .. Len(queue)
    BY <2>4
  <2>7. \A j, k \in 1 .. Len(q) : q[j] = q[k] => j = k
    <3> SUFFICES ASSUME NEW j \in 1 .. Len(q), NEW k \in 1 .. Len(q), q[j] = q[k]
                 PROVE  j = k
      OBVIOUS
    <3>1. j + 1 = k + 1
      BY <2>4, <2>5 DEF NoDuplicate
    <3> QED
      BY <3>1
  <2>8. \A k \in 1 .. Len(q) : q[k] # x /\ q[k] \in Queued /\ q[k] # Head(queue)
    BY <2>4, <2>5, <2>6 DEF Queued, NoDuplicate
  <2>9. {q[k] : k \in 1 .. Len(q)} = Queued \ {Head(queue)}
    <3>1. ASSUME NEW k \in 1 .. Len(queue), queue[k] # Head(queue)
          PROVE  queue[k] \in {q[i] : i \in 1 .. Len(q)}
      <4>1. k - 1 \in 1 .. Len(q) /\ (k - 1) + 1 = k
        BY <2>4, <3>1
      <4>2. q[k - 1] = queue[k]
        BY <2>4, <4>1
      <4> QED
        BY <4>1, <4>2
    <3> QED
      BY <2>8, <3>1 DEF Queued
  <2>10. /\ Len(queue') = Len(q) + 1
         /\ \A k \in 1 .. Len(q) : queue'[k] = q[k]
         /\ queue'[Len(q) + 1] = x
         /\ \A j, k \in 1 .. Len(q) + 1 : queue'[j] = queue'[k] => j = k
         /\ {queue'[k] : k \in 1 .. Len(q) + 1} = (Queued \ {Head(queue)}) \cup {x}
    BY <2>3, <2>7, <2>8, <2>9, AppendEffect
  <2>11. Len(queue') = Len(queue) /\ Len(q) + 1 = Len(queue)
    BY <2>4, <2>10
  <2>12. NoDuplicate' /\ Queued' = (Queued \ {Head(queue)}) \cup {x}
    BY <2>10, <2>11 DEF NoDuplicate, Queued
  <2>13. queue' # <<>> /\ queue'[Len(queue')] = x
    BY <2>4, <2>10, <2>11
  <2>14. \A k \in 1 .. Len(queue) - 1 : queue'[k] = queue[k + 1]
    BY <2>4, <2>10
  <2>15. Head(queue) \in Queued
    BY <2>4, <2>6 DEF Queued
  <2> QED
    BY <1>1, <1>3, <2>1, <2>3, <2>4, <2>11, <2>12, <2>13, <2>14, <2>15
<1> QED
  BY <1>2, <1>3

-----------------------------------------------------------------------------
(* Who is through, and of what *)

\* Samples and the end marker are different.
LEMMA SampleOrNone ==
    /\ None \notin Sample /\ Sample \subseteq 1 .. None /\ None \in 1 .. None
    /\ \A t \in 1 .. None : t # None => t \in Sample
  BY ParametersAssumption DEF None, Sample

\* Dispatch leaves the item in hand or makes it a task, and is through with the
\* end marker only when no task is left.
LEMMA DispatchEffect ==
    ASSUME RollouterType, NEW t \in 1 .. None, taken' = t,
           NEW A \in SUBSET Sample, Cardinality(A) <= MaxConcurrent,
           NEW held, NEW busy \in BOOLEAN, Dispatch(t, A, held, busy)
    PROVE  /\ procPC' \in {"ask", "submit", "submitWait", "finish", "finishWait", "finished"}
           /\ procPC' = "finished" => t = None /\ active' = {}
           /\ Cardinality(active') <= MaxConcurrent
           /\ \/ t = None /\ running' = running /\ InHand' = {}
              \/ t \in Sample /\ running' = running /\ InHand' = {t}
              \/ t \in Sample /\ running' = running \cup {t} /\ InHand' = {}
<1>1. IsFiniteSet(A) /\ Cardinality(A) \in Nat /\ MaxConcurrent \in Int
  BY SampleSets, MaxRequiredPositive, ParametersAssumption DEF MaxConcurrent
<1>2. \/ Cardinality(A \cup {t}) = Cardinality(A)
      \/ Cardinality(A \cup {t}) = Cardinality(A) + 1
  BY <1>1, FS_AddElement
<1>3. Cardinality(A) < MaxConcurrent => Cardinality(A \cup {t}) <= MaxConcurrent
  BY <1>1, <1>2
<1>4. CASE t = None
  BY <1>4 DEF Dispatch, InHand
<1>5. CASE t # None
  <2>1. t \in Sample
    BY <1>5, SampleOrNone
  <2>2. CASE busy
    BY <1>5, <2>1, <2>2 DEF Dispatch, InHand
  <2>3. CASE ~busy /\ Cardinality(A) >= MaxConcurrent
    BY <1>5, <2>1, <2>3 DEF Dispatch, InHand
  <2>4. CASE ~busy /\ ~(Cardinality(A) >= MaxConcurrent)
    <3>1. active' = A \cup {t} /\ running' = running \cup {t} /\ procPC' = "ask"
      BY <1>5, <2>4 DEF Dispatch
    <3>2. Cardinality(A) < MaxConcurrent
      BY <1>1, <2>4
    <3> QED
      BY <1>3, <2>1, <3>1, <3>2 DEF InHand
  <2> QED
    BY <2>2, <2>3, <2>4
<1> QED
  BY <1>4, <1>5

\* What taking the next item does.
LEMMA TakeEffect ==
    ASSUME RollouterType, ProcessorOver, taken < fed, Take
    PROVE  /\ taken' = taken + 1 /\ taken + 1 \in 1 .. None
           /\ procPC' \in {"ask", "submit", "submitWait", "finish", "finishWait", "finished"}
           /\ procPC' = "finished" => taken' = None /\ active' = {}
           /\ Cardinality(active') <= MaxConcurrent
           /\ \/ taken + 1 = None /\ running' = running /\ InHand' = {}
              \/ taken + 1 \in Sample /\ running' = running /\ InHand' = {taken + 1}
              \/ /\ taken + 1 \in Sample
                 /\ running' = running \cup {taken + 1} /\ InHand' = {}
<1>1. /\ taken + 1 \in 1 .. None /\ taken' = taken + 1
      /\ Dispatch(taken + 1, active, lock, Busy)
  BY ParametersAssumption DEF Take, RollouterType, None
<1>2. active \in SUBSET Sample /\ Cardinality(active) <= MaxConcurrent
  BY DEF RollouterType, ProcessorOver
<1>3. Busy \in BOOLEAN
  BY DEF Busy, ProcWaits, MonWaits, ResetWaits
<1> QED
  BY <1>1, <1>2, <1>3, DispatchEffect

\* What going on with the item in hand does, with or without reaping.
LEMMA HandEffect ==
    ASSUME RollouterType, ProcessorOver,
           ProcLock \/ (ProcReap /\ Done \cap failed = {})
    PROVE  /\ UNCHANGED <<taken, failed, mqVars, monVars, mainVars, trVars>>
           /\ procPC' \in {"ask", "submit", "submitWait", "finish", "finishWait", "finished"}
           /\ procPC' = "finished" => taken' = None /\ active' = {}
           /\ Cardinality(active') <= MaxConcurrent
           /\ \/ running' = running /\ InHand' = InHand
              \/ running' = running \cup InHand /\ InHand' = {}
<1>1. /\ taken \in 1 .. None /\ taken' = taken
      /\ InHand = {taken} \ {None}
      /\ UNCHANGED <<failed, mqVars, monVars, mainVars, trVars>>
  <2>1. /\ procPC \in {"submit", "submitWait", "finish", "finishWait"}
        /\ UNCHANGED <<taken, failed, mqVars, monVars, mainVars, trVars>>
    BY DEF ProcLock, ProcReap, pendVars
  <2>2. CASE procPC \in {"submit", "submitWait"}
    BY <2>1, <2>2, SampleOrNone DEF RollouterType, InHand
  <2>3. CASE procPC \in {"finish", "finishWait"}
    BY <2>1, <2>3, SampleOrNone DEF RollouterType, InHand
  <2> QED
    BY <2>1, <2>2, <2>3
<1>2. active \in SUBSET Sample /\ Cardinality(active) <= MaxConcurrent
  BY DEF RollouterType, ProcessorOver
<1>3. PICK A \in SUBSET Sample, h \in {"free", "proc", "reset"}, b \in BOOLEAN :
         A \subseteq active /\ Dispatch(taken, A, h, b)
  <2>1. CASE ProcLock
    BY <1>2, <2>1 DEF ProcLock, RollouterType
  <2>2. CASE ProcReap /\ Done \cap failed = {}
    <3>1. Dispatch(taken, active \ Done, "free", MonWaits \/ ResetWaits)
      BY <2>2 DEF ProcReap
    <3>2. (MonWaits \/ ResetWaits) \in BOOLEAN /\ active \ Done \in SUBSET Sample
      BY <1>2
    <3> QED
      BY <3>1, <3>2
  <2> QED
    BY <2>1, <2>2
<1>4. Cardinality(A) <= MaxConcurrent
  <2>1. IsFiniteSet(active) /\ Cardinality(active) \in Nat /\ Cardinality(A) \in Nat
        /\ MaxConcurrent \in Int
    BY <1>2, SampleSets, MaxRequiredPositive, ParametersAssumption DEF MaxConcurrent
  <2>2. Cardinality(A) <= Cardinality(active)
    BY <1>3, <2>1, FS_Subset
  <2> QED
    BY <1>2, <2>1, <2>2
<1>5. /\ procPC' \in {"ask", "submit", "submitWait", "finish", "finishWait", "finished"}
      /\ procPC' = "finished" => taken = None /\ active' = {}
      /\ Cardinality(active') <= MaxConcurrent
      /\ \/ taken = None /\ running' = running /\ InHand' = {}
         \/ taken \in Sample /\ running' = running /\ InHand' = {taken}
         \/ taken \in Sample /\ running' = running \cup {taken} /\ InHand' = {}
  BY <1>1, <1>3, <1>4, DispatchEffect
<1>6. taken \in Sample => InHand = {taken}
  BY <1>1, SampleOrNone
<1>7. taken = None => InHand = {}
  BY <1>1
<1>8. \/ running' = running /\ InHand' = InHand
      \/ running' = running \cup InHand /\ InHand' = {}
  BY <1>5, <1>6, <1>7, Zenon
<1> QED
  BY <1>1, <1>5, <1>8, Zenon

\* A task that is reaped holds a slot which no running task has.
LEMMA ReapEffect ==
    ASSUME RollouterType, ProcessorOver, RunningIsActive,
           NEW X \in SUBSET active, NEW x \in X, running \cap X = {}
    PROVE  /\ Cardinality(active \ X) <= MaxConcurrent
           /\ Cardinality(running) < MaxConcurrent
<1>1. /\ active \in SUBSET Sample /\ IsFiniteSet(active) /\ Cardinality(active) \in Nat
      /\ MaxConcurrent \in Int /\ Cardinality(active) <= MaxConcurrent
  BY SampleSets, MaxRequiredPositive, ParametersAssumption
     DEF MaxConcurrent, RollouterType, ProcessorOver
<1>2. /\ IsFiniteSet(active \ {x})
      /\ Cardinality(active \ {x}) = Cardinality(active) - 1
  BY <1>1, FS_RemoveElement
<1>3. /\ active \ X \subseteq active \ {x}
      /\ running \subseteq active \ {x}
  BY DEF RunningIsActive
<1>4. /\ Cardinality(active \ X) <= Cardinality(active \ {x})
      /\ Cardinality(running) <= Cardinality(active \ {x})
      /\ Cardinality(active \ X) \in Nat /\ Cardinality(running) \in Nat
  BY <1>2, <1>3, FS_Subset, FS_CardinalityType
<1> QED
  BY <1>1, <1>2, <1>4

\* The processor is through only with all its tasks; it dies of a failed one.
LEMMA ProcessorOverStep == FreshInv /\ PlaceInv /\ [Next]_vars => ProcessorOver'
<1> SUFFICES ASSUME FreshInv, PlaceInv, [Next]_vars PROVE ProcessorOver'
  OBVIOUS
<1>1. RollouterType /\ ProcessorOver /\ RunningIsActive
  BY DEF FreshInv, TypeOK, PlaceInv
<1>2. /\ IsFiniteSet(active) /\ Cardinality(active) \in Nat /\ MaxConcurrent \in Int
      /\ IsFiniteSet(running) /\ Cardinality(running) \in Nat
  BY <1>1, SampleSets, MaxRequiredPositive, ParametersAssumption
     DEF MaxConcurrent, RollouterType
<1>3. CASE UNCHANGED <<taken, taskVars, procPC, reaping>>
  BY <1>1, <1>3 DEF ProcessorOver, taskVars
<1>4. CASE \/ Feed \/ MonResume \/ ResetBegin \/ ResetSet
           \/ UNCHANGED <<pendVars, taskVars, gateVars, staleness, lock, procVars>>
  <2>1. UNCHANGED <<taken, taskVars, procPC, reaping>>
    BY <1>4 DEF Feed, MonResume, ResetBegin, ResetSet, pendVars, procVars, taskVars
  <2> QED
    BY <1>3, <2>1
<1>5. CASE ProcAsk \/ ProcPause \/ ProcPark \/ ProcDrainResume
  <2>1. /\ active' = active /\ procPC' \notin {"finished", "failed"}
        /\ reaping' \in {reaping, Done}
    BY <1>5 DEF ProcAsk, ProcPause, ProcPark, ProcDrainResume, taskVars
  <2> QED
    BY <1>1, <2>1 DEF ProcessorOver, Done
<1>6. CASE ProcDecide \/ ProcTake
  <2>1. reaping = {} /\ reaping' = {}
    BY <1>1, <1>6 DEF ProcDecide, ProcTake, RunningIsActive
  <2>2. CASE taken < fed /\ Take
    BY <1>1, <2>1, <2>2, TakeEffect DEF ProcessorOver
  <2>3. CASE ~(taken < fed /\ Take)
    <3>1. active' = active /\ procPC' = "take"
      BY <1>6, <2>3 DEF ProcDecide, ProcTake
    <3> QED
      BY <1>1, <2>1, <3>1 DEF ProcessorOver
  <2> QED
    BY <2>2, <2>3
<1>7. CASE ProcDrainReap
  <2>0. PICK D \in {Done, reaping} \ {{}} : \E X \in SUBSET D :
          /\ IF D \cap failed = {} THEN X = D ELSE Cardinality(X \cap failed) = 1
          /\ active' = active \ X
          /\ procPC' = IF D \cap failed # {} THEN "failed"
                       ELSE IF event THEN "ask" ELSE "drain"
          /\ reaping' = {} /\ running' = running /\ failed' = failed
    BY <1>7 DEF ProcDrainReap
  <2>1. PICK X \in SUBSET D :
          /\ IF D \cap failed = {} THEN X = D ELSE Cardinality(X \cap failed) = 1
          /\ active' = active \ X
          /\ procPC' = IF D \cap failed # {} THEN "failed"
                       ELSE IF event THEN "ask" ELSE "drain"
          /\ reaping' = {} /\ running' = running /\ failed' = failed
    BY <2>0
  <2>2. X # {}
    BY <2>1, FS_EmptySet
  <2>3. X \in SUBSET active /\ running \cap X = {}
    BY <1>1, <2>1 DEF Done, RunningIsActive, ProcessorOver
  <2>4. PICK x \in active : x \in X
    BY <2>2, <2>3
  <2>5. /\ Cardinality(active \ X) <= MaxConcurrent
        /\ Cardinality(running) < MaxConcurrent
    BY <1>1, <2>3, <2>4, ReapEffect
  <2> QED
    BY <2>1, <2>5 DEF ProcessorOver
<1>8. CASE ProcLock \/ (ProcReap /\ Done \cap failed = {})
  <2>1. reaping = {} /\ reaping' = {}
    BY <1>1, <1>8 DEF ProcLock, ProcReap, RunningIsActive
  <2> QED
    BY <1>1, <1>8, <2>1, HandEffect DEF ProcessorOver
<1>9. CASE ProcReap /\ Done \cap failed # {}
  <2>1. /\ active' = active \ Done /\ procPC' = "failed" /\ UNCHANGED <<running, failed>>
        /\ reaping = {} /\ reaping' = {}
    BY <1>1, <1>9 DEF ProcReap, RunningIsActive
  <2>2. PICK x \in active : x \in Done
    BY <1>9 DEF Done
  <2>3. /\ Cardinality(active \ Done) <= MaxConcurrent
        /\ Cardinality(running) < MaxConcurrent
    BY <1>1, <2>2, ReapEffect DEF Done
  <2> QED
    BY <1>9, <2>1, <2>3 DEF ProcessorOver
<1>10. ASSUME NEW i \in Sample, Task(i) PROVE ProcessorOver'
  <2>1. /\ UNCHANGED <<taken, active, procPC, reaping>>
        /\ running' \subseteq running /\ failed \subseteq failed'
    BY <1>10 DEF Task, TaskPost, TaskEnd, pendVars, procVars
  <2>2. Cardinality(running') <= Cardinality(running) /\ Cardinality(running') \in Nat
    BY <1>2, <2>1, FS_Subset, FS_CardinalityType
  <2> QED
    BY <1>1, <1>2, <2>1, <2>2 DEF ProcessorOver
<1> QED
  BY <1>4, <1>5, <1>6, <1>7, <1>8, <1>9, <1>10, RollouterFootprint DEF Processor

\* Only _streaming_generation_main and the driver change where they are.
LEMMA MainFootprint == [Next]_vars => Main \/ UNCHANGED mainVars
  BY DEF Next, Processor, Task, Monitor, Trainer, Feed, ProcAsk, ProcDecide, ProcTake,
         ProcPause, ProcPark, ProcDrainReap, ProcDrainResume, ProcLock, ProcReap,
         TaskPost, TaskEnd, MonLoop, MonWake, MonAsk, MonDecide, MonResume,
         TrainerGet, TrainerStep, TrainerSync, ResetPark, ResetBegin, ResetAsk,
         ResetSet, TrainerFinish, Terminated, vars

\* A trainer that was told that the stream is over does not fetch again.
LEMMA TrainerOverStep == FreshInv /\ PlaceInv /\ [Next]_vars => TrainerOver'
<1> SUFFICES ASSUME FreshInv, PlaceInv, [Next]_vars PROVE TrainerOver'
  OBVIOUS
<1> USE DEF TrainerOver, Told
<1>1. TrainerOver /\ Marker /\ QueueType
  BY DEF FreshInv, TypeOK, PlaceInv
<1>2. CASE UNCHANGED <<trPC, stopping, mainPC>>
  BY <1>1, <1>2
<1>3. CASE TrainerGet
  <2>1. Head(queue) = None => mainPC # "stream"
    <3>1. Head(queue) = queue[1] /\ 1 \in 1 .. Len(queue)
      BY <1>1, <1>3, HeadTailProperties, EmptySeq, LenProperties DEF QueueType, TrainerGet
    <3> QED
      BY <1>1, <3>1 DEF Marker, Queued
  <2>2. /\ trPC = "get" /\ UNCHANGED <<stopping, mainPC>>
        /\ \/ Head(queue) = None /\ trPC' = "finish"
           \/ trPC' \in {"train", "get"}
    BY <1>3 DEF TrainerGet, mainVars
  <2> QED
    BY <1>1, <2>1, <2>2
<1>4. CASE Trainer /\ ~TrainerGet
  BY <1>1, <1>4 DEF Trainer, TrainerStep, TrainerSync, ResetPark, ResetBegin, ResetAsk,
                    ResetSet, TrainerFinish, mainVars
<1>5. CASE Main
  BY <1>1, <1>5 DEF Main, MainSentinel, MainStop, MainClear, trVars
<1> QED
  BY <1>2, <1>3, <1>4, <1>5, TrainerFootprint, MainFootprint DEF trVars, mainVars

-----------------------------------------------------------------------------
(* Where the samples are *)

PlaceSets == NoDuplicate /\ Disjoint /\ Covered /\ Marker

\* Steps that move no sample and tell nobody anything.
LEMMA SetsKept ==
    ASSUME PlaceSets, UNCHANGED <<taken, running, failed, mqVars, batch, trained>>,
           InHand' = InHand, Abandoned' = Abandoned, Told' = Told,
           mainPC' = mainPC \/ (mainPC = "stop" /\ mainPC' = "end")
    PROVE  PlaceSets'
<1>1. UNCHANGED <<queue, lost, Queued>>
  BY DEF mqVars, Queued
<1>2. NoDuplicate' /\ Disjoint'
  BY <1>1 DEF PlaceSets, NoDuplicate, Disjoint
<1>3. Covered'
  BY <1>1 DEF PlaceSets, Covered
<1>4. Marker'
  BY <1>1 DEF PlaceSets, Marker
<1> QED
  BY <1>2, <1>3, <1>4 DEF PlaceSets

\* The next item goes from pending_queue to the processor's hand or to a task.
LEMMA SetsTake ==
    ASSUME FreshInv, PlaceInv, PlaceSets, procPC \in {"decide", "take"}, taken < fed, Take,
           UNCHANGED <<failed, outside>>
    PROVE  PlaceSets'
<1>1. /\ RollouterType /\ ProcessorOver /\ mainPC = "stream" /\ ~Told
      /\ taken \in Nat /\ None \in Nat
  BY ParametersAssumption
     DEF FreshInv, TypeOK, RollouterType, PlaceInv, ProcessorEnds, TrainerOver, None
<1>2. InHand = {} /\ Abandoned = {}
  BY DEF InHand, Abandoned
<1>3. /\ taken' = taken + 1
      /\ procPC' # "failed"
      /\ \/ taken + 1 = None /\ running' = running /\ InHand' = {}
         \/ taken + 1 \in Sample /\ running' = running /\ InHand' = {taken + 1}
         \/ /\ taken + 1 \in Sample
            /\ running' = running \cup {taken + 1} /\ InHand' = {}
  BY <1>1, TakeEffect
<1>4. /\ UNCHANGED <<queue, lost, Queued, batch, trained, failed, mainPC, Told>>
      /\ Abandoned' = {}
  BY <1>3 DEF mqVars, Queued, mainVars, trVars, Told, Abandoned
<1>5. running \cup (Queued \ {None}) \cup batch \cup trained \cup lost \cup failed
         = (1 .. taken) \ {None}
  BY <1>1, <1>2 DEF PlaceSets, Covered
<1>6. /\ taken + 1 \notin 1 .. taken
      /\ (1 .. taken + 1) \ {None} = ((1 .. taken) \ {None}) \cup ({taken + 1} \ {None})
  BY <1>1
<1>7. None \notin Queued /\ (taken + 1 \in Sample => taken + 1 # None)
  BY <1>1, SampleOrNone DEF PlaceSets, Marker
<1>8. taken + 1 # None =>
         taken + 1 \notin running \cup Queued \cup batch \cup trained \cup lost \cup failed
  BY <1>5, <1>6, <1>7
<1>9. NoDuplicate'
  BY <1>4 DEF PlaceSets, NoDuplicate
<1>10. Disjoint'
  BY <1>2, <1>3, <1>4, <1>7, <1>8 DEF PlaceSets, Disjoint
<1>11. Covered'
  <2>1. InHand' \cup running' = running \cup ({taken + 1} \ {None})
    BY <1>3, <1>7
  <2> QED
    BY <1>3, <1>4, <1>5, <1>6, <2>1 DEF Covered
<1>12. Marker'
  <2>1. \A k \in 1 .. Len(queue) : queue[k] # None
    BY <1>7 DEF Queued
  <2> QED
    BY <1>1, <1>4, <2>1 DEF PlaceSets, Marker
<1> QED
  BY <1>9, <1>10, <1>11, <1>12 DEF PlaceSets

\* The sample in hand stays there or becomes a task.
LEMMA SetsHand ==
    ASSUME FreshInv, PlaceInv, PlaceSets, ProcLock \/ (ProcReap /\ Done \cap failed = {})
    PROVE  PlaceSets'
<1>1. /\ RollouterType /\ ProcessorOver /\ mainPC = "stream" /\ ~Told
      /\ procPC # "failed"
  BY DEF FreshInv, TypeOK, RollouterType, PlaceInv, ProcessorEnds, TrainerOver, ProcLock, ProcReap
<1>2. /\ UNCHANGED <<taken, failed, mqVars, monVars, mainVars, trVars>>
      /\ procPC' # "failed"
      /\ \/ running' = running /\ InHand' = InHand
         \/ running' = running \cup InHand /\ InHand' = {}
  BY <1>1, HandEffect
<1>3. /\ UNCHANGED <<taken, queue, lost, Queued, batch, trained, failed, mainPC, Told, Abandoned>>
  BY <1>1, <1>2 DEF mqVars, Queued, mainVars, trVars, Told, Abandoned
<1>4. NoDuplicate' /\ Disjoint'
  BY <1>2, <1>3 DEF PlaceSets, NoDuplicate, Disjoint
<1>5. Covered'
  <2>1. InHand' \cup running' = InHand \cup running
    BY <1>2
  <2> QED
    BY <1>3, <2>1 DEF PlaceSets, Covered
<1>6. Marker'
  <2>1. \A k \in 1 .. Len(queue) : queue[k] # None
    BY <1>1 DEF PlaceSets, Marker, Queued
  <2> QED
    BY <1>1, <1>3, <2>1 DEF PlaceSets, Marker
<1> QED
  BY <1>4, <1>5, <1>6 DEF PlaceSets

\* The processor dies; what it has in hand is abandoned.
LEMMA SetsDie ==
    ASSUME FreshInv, PlaceInv, PlaceSets, procPC' = "failed", failed # {},
           procPC \in {"drain", "reap", "submitWait", "finishWait"},
           UNCHANGED <<taken, running, failed, outside>>
    PROVE  PlaceSets'
<1>1. /\ RollouterType /\ mainPC = "stream" /\ ~Told /\ taken \in Nat
  BY DEF FreshInv, TypeOK, RollouterType, PlaceInv, ProcessorEnds, TrainerOver
<1>2. /\ UNCHANGED <<queue, lost, Queued, batch, trained, mainPC, Told>>
      /\ InHand' = {} /\ Abandoned' = {taken} \ {None} /\ Abandoned = {}
      /\ InHand \subseteq {taken} \ {None}
  <2>1. InHand \subseteq {taken} \ {None}
    BY <1>1, SampleOrNone DEF InHand, RollouterType
  <2> QED
    BY <2>1 DEF mqVars, Queued, mainVars, trVars, Told, Abandoned, InHand
<1>3. InHand \cup running \cup (Queued \ {None}) \cup batch \cup trained \cup lost \cup failed
         = (1 .. taken) \ {None}
  BY <1>1, <1>2 DEF PlaceSets, Covered
<1>4. {taken} \ {None} \subseteq (1 .. taken) \ {None}
  <2>1. PICK x \in failed : x \in 1 .. taken
    BY <1>3
  <2> QED
    BY <1>1, <2>1
<1>5. NoDuplicate' /\ Disjoint'
  BY <1>2 DEF PlaceSets, NoDuplicate, Disjoint
<1>6. Covered'
  <2>1. InHand' \cup running' \cup (Queued' \ {None}) \cup batch' \cup trained'
            \cup lost' \cup failed' \cup Abandoned' = (1 .. taken') \ {None}
    BY <1>2, <1>3, <1>4
  <2> QED
    BY <2>1 DEF Covered
<1>7. Marker'
  BY <1>1, <1>2 DEF PlaceSets, Marker
<1> QED
  BY <1>5, <1>6, <1>7 DEF PlaceSets

\* The numbers the marker's place is measured with.
LEMMA PlaceNumbers ==
    ASSUME TypeOK
    PROVE  /\ MaxConcurrent \in Nat \ {0} /\ MaxConcurrent <= MaxQueue /\ MaxQueue \in Nat
           /\ IsFiniteSet(running) /\ Cardinality(running) \in Nat
           /\ \A i \in running : Cardinality(running \ {i}) = Cardinality(running) - 1
           /\ \A i \in running : Cardinality(running) >= 1
<1>1. /\ MaxConcurrent \in Nat \ {0} /\ MaxConcurrent <= MaxQueue /\ MaxQueue \in Nat
  BY MaxRequiredPositive, ParametersAssumption DEF MaxConcurrent, MaxQueue
<1>2. IsFiniteSet(running) /\ Cardinality(running) \in Nat
  BY SampleSets DEF TypeOK, RollouterType
<1>3. \A i \in running : /\ Cardinality(running \ {i}) = Cardinality(running) - 1
                         /\ Cardinality(running \ {i}) \in Nat
  BY <1>2, FS_RemoveElement, FS_CardinalityType
<1>4. ASSUME NEW i \in running PROVE Cardinality(running) >= 1
  <2>1. Cardinality(running) # 0
    BY <1>2, FS_EmptySet
  <2> QED
    BY <1>2, <2>1
<1> QED
  BY <1>1, <1>2, <1>3, <1>4

\* With nothing failed no task runs behind the end marker.
LEMMA NoneRuns ==
    ASSUME FreshInv, PlaceInv, failed = {}, mainPC # "stream"
    PROVE  running = {} /\ InHand = {} /\ taken = None /\ Abandoned = {}
  BY DEF FreshInv, PlaceInv, ProcessorEnds, ProcessorOver, RunningIsActive, InHand, Abandoned

\* A generated sample goes to the queue; an overflow drops another sample, and
\* never the end marker.
LEMMA SetsPost ==
    ASSUME FreshInv, PlaceInv, PlaceSets, NEW i \in Sample, TaskPost(i)
    PROVE  PlaceSets'
<1>1. /\ TypeOK /\ QueueType /\ NoDuplicate
      /\ i \in running /\ i \in 1 .. None /\ i # None /\ running' = running \ {i} /\ Put(i)
      /\ UNCHANGED <<taken, failed, procPC, mainPC, batch, trained, Told, InHand, Abandoned>>
  BY SampleOrNone
     DEF FreshInv, TypeOK, TaskPost, PlaceSets, pendVars, procVars, mainVars, trVars, Told,
         InHand, Abandoned
<1>2. i \notin Queued \cup InHand \cup batch \cup trained \cup lost \cup failed
  BY <1>1 DEF PlaceSets, Disjoint
<1>3. /\ MaxConcurrent \in Nat /\ MaxConcurrent <= MaxQueue /\ MaxQueue \in Nat
      /\ Cardinality(running) \in Nat /\ Cardinality(running) >= 1
      /\ Cardinality(running') = Cardinality(running) - 1
  BY <1>1, PlaceNumbers
<1>4. mainPC # "stream" => failed # {}
  BY <1>1, NoneRuns
<1>5. /\ NoDuplicate'
      /\ Len(queue) \in Nat /\ queue' # <<>> /\ queue'[Len(queue')] = i
      /\ \/ /\ Queued' = Queued \cup {i} /\ lost' = lost
            /\ Len(queue') = Len(queue) + 1
            /\ \A k \in 1 .. Len(queue) : queue'[k] = queue[k]
         \/ /\ Len(queue) >= MaxQueue /\ queue # <<>>
            /\ Head(queue) \in Queued /\ Head(queue) = queue[1]
            /\ Queued' = (Queued \ {Head(queue)}) \cup {i}
            /\ lost' = lost \cup {Head(queue)}
            /\ Len(queue') = Len(queue)
            /\ \A k \in 1 .. Len(queue) - 1 : queue'[k] = queue[k + 1]
  BY <1>1, <1>2, PutEffect
<1>6. \A k \in 1 .. Len(queue) : queue[k] = None =>
          Len(queue) - k + Cardinality(running) < MaxConcurrent
  BY DEF PlaceSets, Marker
<1>7. CASE /\ Queued' = Queued \cup {i} /\ lost' = lost
           /\ Len(queue') = Len(queue) + 1
           /\ \A k \in 1 .. Len(queue) : queue'[k] = queue[k]
  <2>1. Disjoint' /\ Covered'
    BY <1>1, <1>2, <1>7 DEF PlaceSets, Disjoint, Covered
  <2>2. ASSUME NEW k \in 1 .. Len(queue'), queue'[k] = None
        PROVE  Len(queue') - k + Cardinality(running') < MaxConcurrent
    <3>1. k \in 1 .. Len(queue)
      BY <1>1, <1>5, <1>7, <2>2
    <3>2. Len(queue) - k + Cardinality(running) < MaxConcurrent
      BY <1>6, <1>7, <2>2, <3>1
    <3> QED
      BY <1>3, <1>5, <1>7, <3>1, <3>2
  <2>3. Marker'
    BY <1>1, <1>4, <1>7, <2>2 DEF PlaceSets, Marker
  <2> QED
    BY <1>5, <2>1, <2>3 DEF PlaceSets
<1>8. CASE /\ Len(queue) >= MaxQueue /\ queue # <<>>
           /\ Head(queue) \in Queued /\ Head(queue) = queue[1]
           /\ Queued' = (Queued \ {Head(queue)}) \cup {i}
           /\ lost' = lost \cup {Head(queue)}
           /\ Len(queue') = Len(queue)
           /\ \A k \in 1 .. Len(queue) - 1 : queue'[k] = queue[k + 1]
  <2>1. Head(queue) # None
    <3> SUFFICES ASSUME Head(queue) = None PROVE FALSE
      OBVIOUS
    <3>1. Len(queue) >= 1
      BY <1>5, <1>8 DEF Queued
    <3>2. Len(queue) - 1 + Cardinality(running) < MaxConcurrent
      BY <1>5, <1>6, <1>8, <3>1
    <3> QED
      BY <1>3, <1>5, <1>8, <3>2
  <2>2. Disjoint' /\ Covered'
    BY <1>1, <1>2, <1>8, <2>1 DEF PlaceSets, Disjoint, Covered
  <2>3. ASSUME NEW k \in 1 .. Len(queue'), queue'[k] = None
        PROVE  Len(queue') - k + Cardinality(running') < MaxConcurrent
    <3>1. k \in 1 .. Len(queue) - 1 /\ k + 1 \in 1 .. Len(queue)
      BY <1>1, <1>5, <1>8, <2>3
    <3>2. Len(queue) - (k + 1) + Cardinality(running) < MaxConcurrent
      BY <1>6, <1>8, <2>3, <3>1
    <3> QED
      BY <1>3, <1>5, <1>8, <3>1, <3>2
  <2>4. Marker'
    BY <1>1, <1>4, <1>8, <2>1, <2>3 DEF PlaceSets, Marker
  <2> QED
    BY <1>5, <2>2, <2>4 DEF PlaceSets
<1> QED
  BY <1>5, <1>7, <1>8

\* A generation that raises leaves its sample among the failed ones.
LEMMA SetsFail ==
    ASSUME FreshInv, PlaceInv, PlaceSets, NEW i \in running,
           running' = running \ {i}, failed' = failed \cup {i},
           UNCHANGED <<taken, procPC, mainPC, mqVars, batch, trained, trPC, stopping>>
    PROVE  PlaceSets'
<1>1. /\ UNCHANGED <<queue, lost, Queued, Told, InHand, Abandoned>>
  BY DEF mqVars, Queued, Told, InHand, Abandoned
<1>2. NoDuplicate' /\ Disjoint' /\ Covered'
  BY <1>1 DEF PlaceSets, NoDuplicate, Disjoint, Covered
<1>3. /\ Cardinality(running) \in Nat /\ Cardinality(running') = Cardinality(running) - 1
      /\ MaxConcurrent \in Nat
  BY PlaceNumbers DEF FreshInv
<1>4. \A k \in 1 .. Len(queue) : queue[k] = None =>
          Len(queue) - k + Cardinality(running') < MaxConcurrent
  <2> SUFFICES ASSUME NEW k \in 1 .. Len(queue), queue[k] = None
               PROVE  Len(queue) - k + Cardinality(running') < MaxConcurrent
    OBVIOUS
  <2>1. Len(queue) - k + Cardinality(running) < MaxConcurrent
    BY DEF PlaceSets, Marker
  <2>2. Len(queue) \in Nat
    BY LenProperties DEF FreshInv, TypeOK, QueueType
  <2> QED
    BY <1>3, <2>1, <2>2
<1>5. Marker'
  BY <1>1, <1>4 DEF PlaceSets, Marker
<1> QED
  BY <1>2, <1>5 DEF PlaceSets

\* The end marker goes in behind everything that was generated.
LEMMA SetsSentinel ==
    ASSUME FreshInv, PlaceInv, PlaceSets, MainSentinel
    PROVE  PlaceSets'
<1>1. /\ TypeOK /\ QueueType /\ NoDuplicate /\ None \in 1 .. None
      /\ mainPC = "stream" /\ mainPC' = "stop" /\ Put(None)
      /\ procPC \in {"finished", "failed"} /\ ~Told /\ None \notin Queued
      /\ UNCHANGED <<taken, running, failed, batch, trained, Told, InHand, Abandoned>>
  BY SampleOrNone
     DEF FreshInv, TypeOK, MainSentinel, PlaceInv, PlaceSets, Marker, TrainerOver, pendVars,
         taskVars, procVars, trVars, Told, InHand, Abandoned
<1>2. Cardinality(running) < MaxConcurrent
  <2>1. CASE procPC = "finished"
    <3>1. running = {}
      BY <2>1 DEF FreshInv, RunningIsActive, PlaceInv, ProcessorOver
    <3> QED
      BY <1>1, <3>1, FS_EmptySet, PlaceNumbers
  <2>2. CASE procPC = "failed"
    BY <2>2 DEF PlaceInv, ProcessorOver
  <2> QED
    BY <1>1, <2>1, <2>2
<1>3. /\ NoDuplicate'
      /\ Len(queue) \in Nat /\ queue' # <<>> /\ queue'[Len(queue')] = None
      /\ \/ /\ Queued' = Queued \cup {None} /\ lost' = lost
            /\ Len(queue') = Len(queue) + 1
         \/ /\ Len(queue) >= MaxQueue /\ queue # <<>>
            /\ Head(queue) \in Queued
            /\ Queued' = (Queued \ {Head(queue)}) \cup {None}
            /\ lost' = lost \cup {Head(queue)}
            /\ Len(queue') = Len(queue)
  BY <1>1, PutEffect
<1>4. Disjoint' /\ Covered'
  <2>1. None \notin InHand \cup running \cup batch \cup trained \cup failed
    BY <1>1, SampleOrNone DEF TypeOK, RollouterType, TrainerType, InHand
  <2>2. None \notin lost
    BY DEF PlaceSets, Marker
  <2> QED
    BY <1>1, <1>3, <2>1, <2>2 DEF PlaceSets, Disjoint, Covered
<1>5. \A k \in 1 .. Len(queue') : queue'[k] = None =>
         Len(queue') - k + Cardinality(running') < MaxConcurrent
  <2> SUFFICES ASSUME NEW k \in 1 .. Len(queue'), queue'[k] = None
               PROVE  Len(queue') - k + Cardinality(running') < MaxConcurrent
    OBVIOUS
  <2>1. Len(queue') \in Nat /\ Len(queue') \in 1 .. Len(queue')
    BY <1>3
  <2>2. k = Len(queue')
    BY <1>3, <2>1 DEF NoDuplicate
  <2>3. Cardinality(running) \in Nat /\ MaxConcurrent \in Nat
    BY <1>1, PlaceNumbers
  <2> QED
    BY <1>1, <1>2, <2>1, <2>2, <2>3
<1>6. Marker'
  BY <1>1, <1>3, <1>5 DEF PlaceSets, Marker
<1> QED
  BY <1>3, <1>4, <1>6 DEF PlaceSets

\* The driver empties the queue when everybody has returned.
LEMMA SetsClear ==
    ASSUME FreshInv, PlaceInv, PlaceSets, MainClear
    PROVE  PlaceSets'
<1>1. /\ queue' = <<>> /\ mainPC' = "cleared" /\ Told /\ Told'
      /\ UNCHANGED <<taken, running, failed, lost, batch, trained, InHand>>
  BY DEF MainClear, pendVars, taskVars, procVars, trVars, Told, InHand
<1>2. Len(queue') = 0 /\ Queued' = {}
  BY <1>1 DEF Queued
<1>3. NoDuplicate' /\ Disjoint' /\ Covered'
  BY <1>1, <1>2 DEF PlaceSets, NoDuplicate, Disjoint, Covered
<1>4. Marker'
  BY <1>1, <1>2 DEF PlaceSets, Marker
<1> QED
  BY <1>3, <1>4 DEF PlaceSets

\* The trainer moves the head of the queue to its batch, or hears of the end.
LEMMA SetsGet ==
    ASSUME FreshInv, PlaceInv, PlaceSets, TrainerGet
    PROVE  PlaceSets'
<1>1. /\ QueueType /\ NoDuplicate /\ queue # <<>> /\ queue' = Tail(queue)
      /\ ~Told /\ mainPC # "cleared"
      /\ UNCHANGED <<taken, running, failed, lost, trained, mainPC, InHand, Abandoned>>
  BY DEF FreshInv, TypeOK, TrainerGet, PlaceInv, PlaceSets, TrainerOver, pendVars, taskVars,
         procVars, mainVars, Told, InHand, Abandoned
<1>2. /\ Head(queue) \in Queued /\ Head(queue) = queue[1]
      /\ Queued' = Queued \ {Head(queue)}
      /\ NoDuplicate'
      /\ Len(queue) \in Nat \ {0} /\ Len(queue') = Len(queue) - 1
      /\ \A k \in 1 .. Len(queue) - 1 : queue'[k] = queue[k + 1]
  BY <1>1, GetEffect
<1>3. \A k \in 1 .. Len(queue') : queue'[k] = None =>
         Len(queue') - k + Cardinality(running') < MaxConcurrent
  <2> SUFFICES ASSUME NEW k \in 1 .. Len(queue'), queue'[k] = None
               PROVE  Len(queue') - k + Cardinality(running') < MaxConcurrent
    OBVIOUS
  <2>1. k + 1 \in 1 .. Len(queue) /\ queue[k + 1] = None
    BY <1>2
  <2>2. Len(queue) - (k + 1) + Cardinality(running) < MaxConcurrent
    BY <2>1 DEF PlaceSets, Marker
  <2>3. Len(queue) - (k + 1) = Len(queue') - k
    BY <1>2
  <2> QED
    BY <1>1, <2>2, <2>3
<1>4. failed = {} /\ mainPC # "stream" => queue[Len(queue)] = None
  BY <1>1 DEF PlaceSets, Marker
<1>5. CASE Head(queue) = None
  <2>1. Told' /\ batch' = batch
    BY <1>5 DEF TrainerGet, Told
  <2>2. mainPC # "stream"
    BY <1>2, <1>5 DEF PlaceSets, Marker
  <2>3. failed = {} => queue' = <<>>
    <3> SUFFICES ASSUME failed = {} PROVE queue' = <<>>
      OBVIOUS
    <3>1. Len(queue) \in 1 .. Len(queue) /\ 1 \in 1 .. Len(queue)
      BY <1>2
    <3>2. Len(queue) = 1
      BY <1>2, <1>4, <1>5, <2>2, <3>1 DEF PlaceSets, NoDuplicate
    <3>3. queue' \in Seq(1 .. None) /\ Len(queue') = 0
      BY <1>1, <1>2, <3>2, HeadTailProperties DEF QueueType
    <3> QED
      BY <3>3, EmptySeq
  <2>4. Disjoint' /\ Covered'
    BY <1>1, <1>2, <1>5, <2>1 DEF PlaceSets, Disjoint, Covered
  <2>5. Marker'
    BY <1>1, <1>3, <2>1, <2>2, <2>3 DEF PlaceSets, Marker
  <2> QED
    BY <1>2, <2>4, <2>5 DEF PlaceSets
<1>6. CASE Head(queue) # None
  <2>1. batch' = batch \cup {Head(queue)} /\ ~Told'
    BY <1>1, <1>6 DEF TrainerGet, Told
  <2>2. ASSUME failed = {}, mainPC # "stream"
        PROVE  queue' # <<>> /\ queue'[Len(queue')] = None
    <3>1. Len(queue) # 1
      BY <1>2, <1>4, <1>6, <2>2
    <3>2. Len(queue') \in 1 .. Len(queue) - 1 /\ Len(queue') + 1 = Len(queue)
      BY <1>2, <3>1
    <3>3. queue'[Len(queue')] = None
      BY <1>2, <1>4, <2>2, <3>2
    <3>4. queue' # <<>>
      BY <1>2, <3>2
    <3> QED
      BY <3>3, <3>4
  <2>3. Disjoint' /\ Covered'
    BY <1>1, <1>2, <1>6, <2>1 DEF PlaceSets, Disjoint, Covered
  <2>4. Marker'
    BY <1>1, <1>2, <1>3, <1>6, <2>1, <2>2 DEF PlaceSets, Marker
  <2> QED
    BY <1>2, <2>3, <2>4 DEF PlaceSets
<1> QED
  BY <1>5, <1>6

\* The batch is trained.
LEMMA SetsTrain ==
    ASSUME PlaceSets, TrainerStep
    PROVE  PlaceSets'
<1>1. /\ trained' = trained \cup batch /\ batch' = {} /\ Told' = Told
      /\ UNCHANGED <<taken, running, failed, queue, lost, Queued, mainPC, InHand, Abandoned>>
  BY DEF TrainerStep, pendVars, taskVars, procVars, mainVars, mqVars, Told, InHand, Abandoned,
         Queued
<1>2. NoDuplicate' /\ Disjoint' /\ Covered'
  BY <1>1 DEF PlaceSets, NoDuplicate, Disjoint, Covered
<1>3. Marker'
  BY <1>1 DEF PlaceSets, Marker
<1> QED
  BY <1>2, <1>3 DEF PlaceSets

\* Every step keeps every sample in one place and the end marker in the queue.
LEMMA PlaceSetsStep == FreshInv /\ PlaceInv /\ [Next]_vars => PlaceSets'
<1> SUFFICES ASSUME FreshInv, PlaceInv, [Next]_vars PROVE PlaceSets'
  OBVIOUS
<1>1. /\ PlaceSets /\ TrainerOver /\ ProcessorOver
  BY DEF PlaceInv, PlaceSets
<1>2. ASSUME UNCHANGED <<taken, running, failed, mqVars, batch, trained, mainPC, procPC,
                         trPC, stopping>>
      PROVE  PlaceSets'
  BY <1>1, <1>2, SetsKept DEF InHand, Abandoned, Told
<1>3. CASE Feed \/ Monitor \/ Terminated \/ UNCHANGED vars
  BY <1>2, <1>3 DEF Feed, Monitor, MonLoop, MonWake, MonAsk, MonDecide, MonResume, Terminated,
                    vars, pendVars, taskVars, procVars, mainVars, trVars, mqVars
<1>4. CASE ProcAsk \/ ProcPause \/ ProcPark \/ ProcDrainResume
  <2>1. /\ UNCHANGED <<taken, running, failed, mqVars, batch, trained, mainPC, trPC, stopping>>
        /\ procPC \in {"ask", "decide", "pausing", "drain"}
        /\ procPC' \in {"ask", "decide", "drain", "pausing", "reap"}
    BY <1>4 DEF ProcAsk, ProcPause, ProcPark, ProcDrainResume, pendVars, taskVars, mainVars,
                trVars
  <2> QED
    BY <1>1, <2>1, SetsKept DEF InHand, Abandoned, Told
<1>5. CASE ProcDecide \/ ProcTake
  <2>1. CASE taken < fed
    <3>1. Take /\ procPC \in {"decide", "take"} /\ UNCHANGED <<failed, outside>>
      BY <1>5, <2>1 DEF ProcDecide, ProcTake
    <3> QED
      BY <1>1, <2>1, <3>1, SetsTake
  <2>2. CASE ~(taken < fed)
    <3>1. /\ UNCHANGED <<taken, running, failed, mqVars, batch, trained, mainPC, trPC, stopping>>
          /\ procPC = "decide" /\ procPC' = "take"
      BY <1>5, <2>2 DEF ProcDecide, ProcTake, mainVars, trVars
    <3> QED
      BY <1>1, <3>1, SetsKept DEF InHand, Abandoned, Told
  <2> QED
    BY <2>1, <2>2
<1>6. CASE ProcDrainReap
  <2>1. /\ UNCHANGED <<taken, running, failed, outside>> /\ procPC \in {"drain", "reap"}
        /\ \/ procPC' = "failed" /\ failed # {}
           \/ procPC' \in {"ask", "drain"}
    BY <1>6 DEF ProcDrainReap, pendVars
  <2>2. CASE procPC' = "failed" /\ failed # {}
    BY <1>1, <2>1, <2>2, SetsDie
  <2>3. CASE procPC' \in {"ask", "drain"}
    BY <1>1, <2>1, <2>3, SetsKept DEF InHand, Abandoned, Told, mainVars, trVars
  <2> QED
    BY <2>1, <2>2, <2>3
<1>7. CASE ProcLock \/ (ProcReap /\ Done \cap failed = {})
  BY <1>1, <1>7, SetsHand
<1>8. CASE ProcReap /\ Done \cap failed # {}
  <2>1. /\ UNCHANGED <<taken, running, failed, outside>> /\ procPC' = "failed"
        /\ procPC \in {"submitWait", "finishWait"} /\ failed # {}
    BY <1>8 DEF ProcReap, pendVars
  <2> QED
    BY <1>1, <2>1, SetsDie
<1>9. ASSUME NEW i \in Sample, Task(i) PROVE PlaceSets'
  <2>1. CASE TaskPost(i)
    BY <1>1, <2>1, SetsPost
  <2>2. CASE TaskEnd(i)
    <3>1. UNCHANGED <<taken, procPC, mainPC, mqVars, batch, trained, trPC, stopping>>
      BY <2>2 DEF TaskEnd, pendVars, procVars, mainVars, trVars
    <3>2. CASE UNCHANGED <<running, failed>>
      BY <1>2, <3>1, <3>2
    <3>3. CASE i \in running /\ running' = running \ {i} /\ failed' = failed \cup {i}
      BY <1>1, <3>1, <3>3, SetsFail
    <3> QED
      BY <2>2, <3>2, <3>3 DEF TaskEnd
  <2> QED
    BY <1>9, <2>1, <2>2 DEF Task
<1>10. CASE Main
  <2>1. CASE MainStop
    <3>1. /\ UNCHANGED <<taken, running, failed, mqVars, batch, trained, procPC, trPC, stopping>>
          /\ mainPC = "stop" /\ mainPC' = "end"
      BY <2>1 DEF MainStop, pendVars, taskVars, procVars, trVars
    <3> QED
      BY <1>1, <3>1, SetsKept DEF InHand, Abandoned, Told
  <2> QED
    BY <1>1, <1>10, <2>1, SetsSentinel, SetsClear DEF Main
<1>11. CASE TrainerGet
  BY <1>1, <1>11, SetsGet
<1>12. CASE TrainerStep
  BY <1>1, <1>12, SetsTrain
<1>13. CASE Trainer /\ ~TrainerGet /\ ~TrainerStep
  <2>1. /\ UNCHANGED <<taken, running, failed, mqVars, batch, trained, mainPC, procPC>>
        /\ Told' = Told
    <3>1. UNCHANGED <<taken, running, failed, mqVars, batch, trained, mainPC, procPC>>
      BY <1>13 DEF Trainer, TrainerSync, ResetPark, ResetBegin, ResetAsk, ResetSet, TrainerFinish,
                   pendVars, taskVars, procVars, mainVars
    <3>2. Told' = Told
      BY <1>1, <1>13 DEF Trainer, TrainerSync, ResetPark, ResetBegin, ResetAsk, ResetSet,
                         TrainerFinish, TrainerOver, Told
    <3> QED
      BY <3>1, <3>2
  <2> QED
    BY <1>1, <2>1, SetsKept DEF InHand, Abandoned
<1> QED
  BY <1>3, <1>4, <1>5, <1>6, <1>7, <1>8, <1>9, <1>10, <1>11, <1>12, <1>13
     DEF Next, Processor

\* Before the queue is cleared, StopIsComplete says no more than the rest.
LEMMA StopComplete ==
    FreshInv /\ ProcessorOver /\ TrainerOver /\ PlaceSets /\ mainPC # "cleared"
        => StopIsComplete
<1> SUFFICES ASSUME FreshInv, ProcessorOver, TrainerOver, PlaceSets, mainPC # "cleared",
                    failed = {}, Told
             PROVE  trained \cup batch \cup lost = Sample
  BY DEF StopIsComplete, Told
<1>1. mainPC # "stream" /\ queue = <<>>
  BY DEF TrainerOver, PlaceSets, Marker
<1>2. running = {} /\ InHand = {} /\ taken = None /\ Abandoned = {}
  BY <1>1 DEF FreshInv, ProcessorEnds, ProcessorOver, RunningIsActive, InHand, Abandoned
<1>3. Queued = {}
  BY <1>1 DEF Queued
<1>4. (1 .. None) \ {None} = Sample
  BY ParametersAssumption DEF None, Sample
<1> QED
  BY <1>2, <1>3, <1>4 DEF PlaceSets, Covered

\* Nothing of it changes afterwards.
LEMMA StopIsCompleteStep ==
    ASSUME FreshInv, PlaceInv, [Next]_vars, mainPC' = "cleared", failed' = {}
    PROVE  failed = {} /\ Told /\ UNCHANGED <<trained, batch, lost>>
<1>1. mainPC # "stream" /\ Told
  <2>1. CASE UNCHANGED mainVars
    BY <2>1 DEF mainVars, PlaceInv, TrainerOver
  <2>2. CASE Main
    BY <2>2 DEF Main, MainSentinel, MainStop, MainClear, Told
  <2> QED
    BY <2>1, <2>2, MainFootprint
<1>2. failed = {}
  <2>1. failed \subseteq failed'
    BY RollouterFootprint
       DEF Feed, Processor, ProcAsk, ProcDecide, ProcTake, ProcPause, ProcPark, ProcDrainReap,
           ProcDrainResume, ProcLock, ProcReap, Task, TaskPost, TaskEnd, MonResume, ResetBegin,
           ResetSet, taskVars
  <2> QED
    BY <2>1
<1>3. running = {}
  BY <1>1, <1>2, NoneRuns
<1>4. lost' = lost
  BY <1>1, <1>3, QueueFootprint DEF TaskPost, MainSentinel, MainClear, TrainerGet, mqVars
<1>5. trPC \notin {"get", "train"}
  BY <1>1 DEF PlaceInv, TrainerOver, Told
<1>6. UNCHANGED <<trained, batch>>
  BY <1>5, TrainerFootprint
     DEF Trainer, TrainerGet, TrainerStep, TrainerSync, ResetPark, ResetBegin, ResetAsk, ResetSet,
         TrainerFinish, trVars
<1> QED
  BY <1>1, <1>2, <1>4, <1>6

\* FreshInv is inductive by itself.
LEMMA FreshStep == FreshInv /\ [Next]_vars => FreshInv'
  BY TrainerTypeStep, QueueTypeStep, MonitorTypeStep, RollouterTypeStep,
     RunningStep, PausedStep, ProcessorEndsStep, LockHolderStep, CountStep
     DEF FreshInv, TypeOK, CountInv

\* PlaceInv is inductive together with FreshInv.
LEMMA PlaceStep == FreshInv /\ PlaceInv /\ [Next]_vars => PlaceInv'
<1> SUFFICES ASSUME FreshInv, PlaceInv, [Next]_vars PROVE PlaceInv'
  OBVIOUS
<1>1. FreshInv' /\ ProcessorOver' /\ TrainerOver' /\ PlaceSets'
  BY FreshStep, ProcessorOverStep, TrainerOverStep, PlaceSetsStep
<1>2. CASE mainPC' # "cleared"
  <2>1. (FreshInv /\ ProcessorOver /\ TrainerOver /\ PlaceSets /\ mainPC # "cleared"
            => StopIsComplete)'
    BY StopComplete, PTL
  <2> QED
    BY <1>1, <1>2, <2>1 DEF PlaceInv, PlaceSets
<1>3. CASE mainPC' = "cleared"
  <2>1. failed' = {} => failed = {} /\ Told /\ UNCHANGED <<trained, batch, lost>>
    BY <1>3, StopIsCompleteStep
  <2>2. StopIsComplete'
    BY <2>1 DEF PlaceInv, StopIsComplete, Told
  <2> QED
    BY <1>1, <2>2 DEF PlaceInv, PlaceSets
<1> QED
  BY <1>2, <1>3

\* It holds initially.
LEMMA PlaceInit == Init => PlaceInv
<1> SUFFICES ASSUME Init PROVE PlaceInv
  OBVIOUS
<1>1. /\ Cardinality({}) = 0 /\ Len(<<>>) = 0 /\ MaxConcurrent \in Nat \ {0}
  BY FS_EmptySet, MaxRequiredPositive, ParametersAssumption DEF MaxConcurrent
<1>2. InHand = {} /\ Queued = {} /\ Abandoned = {} /\ ~Told
  BY <1>1 DEF Init, InHand, Queued, Abandoned, Told
<1>3. ProcessorOver /\ TrainerOver
  BY <1>1, <1>2 DEF Init, ProcessorOver, TrainerOver
<1>4. NoDuplicate /\ Disjoint /\ Marker
  BY <1>1, <1>2 DEF Init, NoDuplicate, Disjoint, Marker
<1>5. Covered
  <2>1. 1 .. 0 = {}
    OBVIOUS
  <2> QED
    BY <1>2, <2>1 DEF Init, Covered
<1>6. StopIsComplete
  BY <1>2 DEF StopIsComplete, Told
<1> QED
  BY <1>3, <1>4, <1>5, <1>6 DEF PlaceInv

\* Both inductive invariants together.
LEMMA PipelineInv == Spec => [](FreshInv /\ PlaceInv)
<1>1. Init => FreshInv /\ PlaceInv
  BY FreshInit, PlaceInit
<1>2. (FreshInv /\ PlaceInv) /\ [Next]_vars => (FreshInv /\ PlaceInv)'
  BY FreshStep, PlaceStep
<1> QED
  BY <1>1, <1>2, PTL DEF Spec

-----------------------------------------------------------------------------
(* The properties of the samples and of the end marker *)

\* The counters of the rollouter cover what is outstanding: the invariant that
\* the bound on how far it runs ahead rests on.
THEOREM CountersCover == Spec => []FreshInv
  BY PipelineInv, PTL

\* When the trainer has seen the end marker and nothing failed, every sample
\* was trained, is in the last batch, or had been dropped by an overflow.
THEOREM NothingOnItsWay == Spec => []StopIsComplete
<1>1. PlaceInv => StopIsComplete
  BY DEF PlaceInv
<1> QED
  BY <1>1, PipelineInv, PTL

\* No overflow drops the end marker.
THEOREM MarkerSurvives == Spec => []SentinelSurvives
<1>1. PlaceInv => SentinelSurvives
  BY DEF PlaceInv, Marker, SentinelSurvives, Told
<1> QED
  BY <1>1, PipelineInv, PTL

\* 1 .. n has n elements: the positions of a queue are as many as its length.
LEMMA IntervalCount == \A n \in Nat : IsFiniteSet(1 .. n) /\ Cardinality(1 .. n) = n
<1> TAKE n \in Nat
<1>1. Cardinality(1 .. n) = IF 1 > n THEN 0 ELSE n - 1 + 1
  BY FS_Interval
<1> QED
  BY <1>1, FS_Interval

\* Without duplicates the queue is as long as the set of its entries is large.
LEMMA QueuedCount ==
    ASSUME QueueType, NoDuplicate
    PROVE  Cardinality(Queued) = Len(queue) /\ IsFiniteSet(Queued)
<1>1. Len(queue) \in Nat
  BY LenProperties DEF QueueType
<1>2. IsFiniteSet(1 .. Len(queue)) /\ Cardinality(1 .. Len(queue)) = Len(queue)
  BY <1>1, IntervalCount, Zenon
<1> DEFINE f == [k \in 1 .. Len(queue) |-> queue[k]]
<1>3. f \in Bijection(1 .. Len(queue), Queued)
  BY DEF NoDuplicate, Queued, Bijection, Injection, Surjection, IsInjective
<1> QED
  BY <1>2, <1>3, FS_Bijection DEF ExistsBijection

\* Every sample is in one place, and none is lost in silence.
THEOREM SamplesInOnePlace == Spec => []EverySampleInOnePlace
<1>1. FreshInv /\ PlaceInv => EverySampleInOnePlace
  <2> SUFFICES ASSUME FreshInv, PlaceInv, mainPC # "cleared" PROVE EverySampleInOnePlace
    BY DEF EverySampleInOnePlace
  <2> DEFINE places == <<InHand, running, Queued \ {None}, batch, trained, lost, failed>>
  <2>1. Cardinality(Queued) = Len(queue)
    BY QueuedCount DEF FreshInv, TypeOK, PlaceInv
  <2>2. DOMAIN places = 1 .. 7
    OBVIOUS
  <2>3. UNION {places[k] : k \in 1 .. 7} =
           InHand \cup running \cup (Queued \ {None}) \cup batch \cup trained \cup lost
              \cup failed
    <3>1. 1 .. 7 = {1, 2, 3, 4, 5, 6, 7}
      OBVIOUS
    <3>2. /\ places[1] = InHand /\ places[2] = running /\ places[3] = Queued \ {None}
          /\ places[4] = batch /\ places[5] = trained /\ places[6] = lost
          /\ places[7] = failed
      OBVIOUS
    <3> HIDE DEF places
    <3> QED
      BY <3>1, <3>2
  <2>4. \A j, k \in 1 .. 7 : j # k => places[j] \cap places[k] = {}
    BY DEF PlaceInv, Disjoint
  <2>5. InHand \cup running \cup (Queued \ {None}) \cup batch \cup trained \cup lost
           \cup failed \cup Abandoned = (1 .. taken) \ {None}
    BY DEF PlaceInv, Covered
  <2> HIDE DEF places
  <2>6. /\ (UNION {places[k] : k \in DOMAIN places}) \cup Abandoned = (1 .. taken) \ {None}
        /\ \A j, k \in DOMAIN places : j # k => places[j] \cap places[k] = {}
    BY <2>2, <2>3, <2>4, <2>5
  <2> QED
    BY <2>1, <2>6, Zenon DEF EverySampleInOnePlace, Abandoned, places
<1> QED
  BY <1>1, PipelineInv, PTL

-----------------------------------------------------------------------------
(* The refinement *)

\* What is in flight is within the allowance.
LEMMA FlightCount ==
    ASSUME FreshInv
    PROVE  /\ Cardinality(InFlight) <= Outstanding
           /\ Cardinality(InFlight) \in Nat /\ Outstanding \in Nat
<1>1. /\ IsFiniteSet(running) /\ Cardinality(running) \in Nat /\ Len(queue) \in Nat
  BY SampleSets, LenProperties DEF FreshInv, TypeOK, RollouterType, QueueType
<1>2. IsFiniteSet(InHand) /\ Cardinality(InHand) = Held /\ Held \in {0, 1}
  BY FS_EmptySet, FS_Singleton DEF InHand, Held
<1>3. /\ IsFiniteSet(Queued \ {None}) /\ Cardinality(Queued \ {None}) <= Len(queue)
      /\ Cardinality(Queued \ {None}) \in Nat
  <2>1. IsFiniteSet(1 .. Len(queue)) /\ Cardinality(1 .. Len(queue)) = Len(queue)
    BY <1>1, IntervalCount, Zenon
  <2> DEFINE f == [k \in 1 .. Len(queue) |-> queue[k]]
  <2>2. f \in Surjection(1 .. Len(queue), Queued)
    BY DEF Surjection, Queued
  <2>3. IsFiniteSet(Queued) /\ Cardinality(Queued) <= Len(queue)
    BY <2>1, <2>2, FS_Surjection DEF ExistsSurjection
  <2>4. /\ IsFiniteSet(Queued \ {None}) /\ Cardinality(Queued \ {None}) <= Cardinality(Queued)
        /\ Cardinality(Queued) \in Nat /\ Cardinality(Queued \ {None}) \in Nat
    BY <2>3, FS_Subset, FS_CardinalityType
  <2> QED
    BY <1>1, <2>3, <2>4
<1>4. /\ IsFiniteSet(InHand \cup running) /\ Cardinality(InHand \cup running) \in Nat
      /\ Cardinality(InHand \cup running) <= Held + Cardinality(running)
  <2>1. IsFiniteSet(InHand \cup running) /\ IsFiniteSet(InHand \cap running)
    BY <1>1, <1>2, FS_Union, FS_Intersection
  <2>2. Cardinality(InHand \cup running) =
           Cardinality(InHand) + Cardinality(running) - Cardinality(InHand \cap running)
    BY <1>1, <1>2, FS_Union
  <2>3. Cardinality(InHand \cap running) \in Nat /\ Cardinality(InHand \cup running) \in Nat
    BY <2>1, FS_CardinalityType
  <2> QED
    BY <1>1, <1>2, <2>1, <2>2, <2>3
<1>5. /\ Cardinality(InFlight) \in Nat
      /\ Cardinality(InFlight) <= Cardinality(InHand \cup running) + Cardinality(Queued \ {None})
  <2> DEFINE a == InHand \cup running
             b == Queued \ {None}
  <2> HIDE DEF a, b
  <2>1. IsFiniteSet(a) /\ IsFiniteSet(b)
    BY <1>3, <1>4 DEF a, b
  <2>2. /\ IsFiniteSet(a \cup b) /\ IsFiniteSet(a \cap b)
        /\ Cardinality(a \cup b) = Cardinality(a) + Cardinality(b) - Cardinality(a \cap b)
    BY <2>1, FS_Union, FS_Intersection
  <2>3. /\ Cardinality(a) \in Nat /\ Cardinality(b) \in Nat /\ Cardinality(a \cap b) \in Nat
        /\ Cardinality(a \cup b) \in Nat
    BY <2>1, <2>2, FS_CardinalityType
  <2>4. InFlight = a \cup b
    BY DEF InFlight, a, b
  <2>5. Cardinality(a \cup b) <= Cardinality(a) + Cardinality(b)
    BY <2>2, <2>3
  <2> QED
    BY <2>3, <2>4, <2>5 DEF a, b
<1>6. Outstanding = Held + Cardinality(running) + Len(queue)
  BY DEF Outstanding
<1> QED
  BY <1>1, <1>2, <1>3, <1>4, <1>5, <1>6

Made == IF taken = None THEN N ELSE taken
Kept == batch \cup trained
Broken == failed # {}

\* Steps the abstract pipeline does not see.
LEMMA Stutters ==
    ASSUME UNCHANGED <<Made, InFlight, Kept, fetched, Broken, Told>>
    PROVE  UNCHANGED Pipe!vars
  BY DEF Pipe!vars, Made, Kept, Broken

\* One sample more handed over, within the allowance, is Make: what the
\* processor's next item is to the pipeline.
LEMMA MakeMaps ==
    ASSUME ~Told, Made < N, fetched + Cardinality(InFlight) < MaxRequired + 1,
           Made' = Made + 1, InFlight' = InFlight \cup {Made + 1},
           UNCHANGED <<Kept, fetched, Broken, Told>>
    PROVE  Pipe!Next
<1>1. Pipe!Cardinality(InFlight) = Cardinality(InFlight)
  BY Zenon DEF Pipe!Cardinality, Cardinality
<1> QED
  BY <1>1 DEF Pipe!Next, Pipe!Make, Made, Kept, Broken

\* A sample from flight to the trainer's batch is Use.
LEMMA UseMaps ==
    ASSUME ~Told, NEW i \in InFlight, InFlight' = InFlight \ {i}, Kept' = Kept \cup {i},
           fetched' = fetched + 1, UNCHANGED <<Made, Broken, Told>>
    PROVE  Pipe!Next
  BY DEF Pipe!Next, Pipe!Use, Made, Kept, Broken

\* A sample that leaves flight for nowhere is Lose.
LEMMA LoseMaps ==
    ASSUME NEW i \in InFlight, InFlight' = InFlight \ {i},
           UNCHANGED <<Made, Kept, fetched, Broken, Told>>
    PROVE  Pipe!Next
  BY DEF Pipe!Next, Pipe!Lose, Made, Kept, Broken

\* A sample that leaves flight while something fails is Break.
LEMMA BreakMaps ==
    ASSUME NEW i \in InFlight, InFlight' = InFlight \ {i}, Broken',
           UNCHANGED <<Made, Kept, fetched, Told>>
    PROVE  Pipe!Next
  BY DEF Pipe!Next, Pipe!Break, Made, Kept, Broken

\* Counting what the trainer fetched from zero is Renew.
LEMMA RenewMaps ==
    ASSUME fetched' = 0, UNCHANGED <<Made, InFlight, Kept, Broken, Told>>
    PROVE  Pipe!Next
  BY DEF Pipe!Next, Pipe!Renew, Made, Kept, Broken

\* Telling the trainer with nothing in flight, or after a failure, is Finish.
LEMMA FinishMaps ==
    ASSUME Broken \/ (Made = N /\ InFlight = {}), Told',
           UNCHANGED <<Made, InFlight, Kept, fetched, Broken>>
    PROVE  Pipe!Next
  BY DEF Pipe!Next, Pipe!Finish, Made, Kept, Broken

\* Samples that leave flight behind the end marker are discarded.
LEMMA DiscardMaps ==
    ASSUME Told, NEW S \in SUBSET InFlight, InFlight' = InFlight \ S,
           UNCHANGED <<Made, Kept, fetched, Broken, Told>>
    PROVE  Pipe!Next
  BY DEF Pipe!Next, Pipe!Discard, Made, Kept, Broken

\* A step of the pipeline, as the abstract pipeline sees it.
PipeStep == [Pipe!Next]_(Pipe!vars)

\* Steps that leave alone what the mapping reads.
LEMMA QuietStep ==
    ASSUME UNCHANGED <<taken, running, failed, queue, batch, trained, fetched>>,
           InHand' = InHand, Told' = Told
    PROVE  PipeStep
<1>1. UNCHANGED <<Made, InFlight, Kept, fetched, Broken, Told>>
  BY DEF Made, InFlight, Kept, Broken, Queued
<1> QED
  BY <1>1, Stutters DEF PipeStep

\* The next sample is started within the allowance; the end marker is no sample.
LEMMA TakeRefines ==
    ASSUME FreshInv, PlaceInv, ProcDecide \/ ProcTake, taken < fed
    PROVE  PipeStep
<1>1. /\ Take /\ procPC \in {"decide", "take"} /\ UNCHANGED <<failed, outside>>
      /\ procPC = "decide" => ~ShouldPause(procQ)
  BY DEF ProcDecide, ProcTake
<1>2. /\ RollouterType /\ ProcessorOver /\ mainPC = "stream" /\ ~Told
      /\ taken \in Nat /\ N \in Nat /\ None = N + 1 /\ InHand = {} /\ taken # None
      /\ taken < None
  <2>1. RollouterType /\ ProcessorOver /\ mainPC = "stream" /\ ~Told
    BY <1>1 DEF FreshInv, TypeOK, PlaceInv, ProcessorEnds, TrainerOver
  <2>2. /\ taken \in Nat /\ N \in Nat /\ None = N + 1 /\ taken # None /\ taken < None
    BY <2>1, ParametersAssumption DEF RollouterType, None
  <2> QED
    BY <1>1, <2>1, <2>2 DEF InHand
<1>3. /\ taken' = taken + 1
      /\ \/ taken + 1 = None /\ running' = running /\ InHand' = {}
         \/ taken + 1 \in Sample /\ running' = running /\ InHand' = {taken + 1}
         \/ /\ taken + 1 \in Sample
            /\ running' = running \cup {taken + 1} /\ InHand' = {}
  BY <1>1, <1>2, TakeEffect
<1>4. UNCHANGED <<Queued, Kept, fetched, Broken, Told>>
  BY <1>1 DEF mqVars, trVars, Queued, Kept, Broken, Told
<1>5. CASE taken + 1 = None
  <2>1. Made' = Made
    BY <1>2, <1>3, <1>5 DEF Made
  <2>2. InFlight' = InFlight
    BY <1>2, <1>3, <1>4, <1>5, SampleOrNone DEF InFlight
  <2> QED
    BY <1>4, <2>1, <2>2, Stutters DEF PipeStep
<1>6. CASE taken + 1 # None
  <2>1. taken + 1 \in Sample /\ InFlight' = InFlight \cup {taken + 1}
    BY <1>2, <1>3, <1>4, <1>6 DEF InFlight
  <2>2. Made = taken /\ Made' = Made + 1 /\ Made < N
    BY <1>2, <1>3, <1>6 DEF Made
  <2>3. fetched + Outstanding <= MaxRequired
    <3>1. CASE procPC = "take"
      BY <1>2, <3>1 DEF FreshInv, CountsCover
    <3>2. CASE procPC = "decide"
      <4>1. /\ staleness \in Nat /\ MaxRequired \in Nat /\ fetched + Outstanding \in Nat
        BY <1>2, MaxRequiredPositive, FlightCount
           DEF FreshInv, TypeOK, RollouterType, TrainerType
      <4>2. ~(staleness >= MaxRequired)
        BY <1>1, <3>2 DEF ShouldPause
      <4>3. fetched + Outstanding <= staleness + 1
        BY <1>2 DEF FreshInv, CountsCover
      <4> QED
        BY <4>1, <4>2, <4>3
    <3> QED
      BY <1>1, <3>1, <3>2
  <2>4. fetched + Cardinality(InFlight) < MaxRequired + 1
    <3>1. fetched \in Nat /\ MaxRequired \in Nat
      BY MaxRequiredPositive DEF FreshInv, TypeOK, TrainerType
    <3> QED
      BY <2>3, <3>1, FlightCount
  <2> QED
    BY <1>2, <1>4, <2>1, <2>2, <2>4, MakeMaps DEF PipeStep
<1> QED
  BY <1>5, <1>6

\* What is in hand stays in flight.
LEMMA HandRefines ==
    ASSUME FreshInv, PlaceInv, ProcLock \/ (ProcReap /\ Done \cap failed = {})
    PROVE  PipeStep
<1>1. RollouterType /\ ProcessorOver
  BY DEF FreshInv, TypeOK, PlaceInv
<1>2. /\ UNCHANGED <<taken, failed, mqVars, monVars, mainVars, trVars>>
      /\ \/ running' = running /\ InHand' = InHand
         \/ running' = running \cup InHand /\ InHand' = {}
  BY <1>1, HandEffect
<1>3. UNCHANGED <<Made, Queued, Kept, fetched, Broken, Told>>
  BY <1>2 DEF mqVars, trVars, Made, Queued, Kept, Broken, Told
<1>4. InFlight' = InFlight
  BY <1>2, <1>3 DEF InFlight
<1> QED
  BY <1>3, <1>4, Stutters DEF PipeStep

\* A processor that dies gives up what it holds.
LEMMA DieRefines ==
    ASSUME FreshInv, PlaceInv, procPC' = "failed", UNCHANGED <<taken, running, failed, outside>>
    PROVE  PipeStep
<1>1. UNCHANGED <<Made, Queued, Kept, fetched, Broken, Told, running>>
  BY DEF mqVars, trVars, Made, Queued, Kept, Broken, Told
<1>2. InHand' = {}
  BY DEF InHand
<1>3. CASE InHand = {}
  BY <1>1, <1>2, <1>3, Stutters DEF PipeStep, InFlight
<1>4. CASE InHand # {}
  <2>1. InHand = {taken}
    BY <1>4 DEF InHand
  <2>2. taken \notin running \cup Queued
    BY <2>1 DEF PlaceInv, Disjoint
  <2>3. taken \in InFlight /\ InFlight' = InFlight \ {taken}
    BY <1>1, <1>2, <2>1, <2>2 DEF InFlight
  <2> QED
    BY <1>1, <2>3, LoseMaps DEF PipeStep
<1> QED
  BY <1>3, <1>4

\* A generated sample stays in flight; an overflow gives up another one.
LEMMA PostRefines ==
    ASSUME FreshInv, PlaceInv, PlaceInv', NEW i \in Sample, TaskPost(i)
    PROVE  PipeStep
<1>1. /\ QueueType /\ NoDuplicate
      /\ i \in running /\ i \in 1 .. None /\ i # None /\ running' = running \ {i} /\ Put(i)
      /\ UNCHANGED <<Made, Kept, fetched, Broken, Told, InHand>>
  BY SampleOrNone
     DEF FreshInv, TypeOK, TaskPost, PlaceInv, pendVars, procVars, mainVars, trVars, Told,
         InHand, Made, Kept, Broken
<1>2. i \notin Queued \cup InHand
  BY <1>1 DEF PlaceInv, Disjoint
<1>3. \/ Queued' = Queued \cup {i}
      \/ /\ Head(queue) \in Queued
         /\ Queued' = (Queued \ {Head(queue)}) \cup {i}
         /\ lost' = lost \cup {Head(queue)}
  BY <1>1, <1>2, PutEffect
<1>4. CASE Queued' = Queued \cup {i}
  <2>1. InFlight' = InFlight
    BY <1>1, <1>4 DEF InFlight
  <2> QED
    BY <1>1, <2>1, Stutters DEF PipeStep
<1>5. CASE /\ Head(queue) \in Queued
           /\ Queued' = (Queued \ {Head(queue)}) \cup {i}
           /\ lost' = lost \cup {Head(queue)}
  <2>1. Head(queue) # None
    BY <1>5 DEF PlaceInv, Marker
  <2>2. Head(queue) \notin running \cup InHand
    BY <1>5 DEF PlaceInv, Disjoint
  <2>3. Head(queue) \in InFlight /\ InFlight' = InFlight \ {Head(queue)}
    BY <1>1, <1>2, <1>5, <2>1, <2>2 DEF InFlight
  <2> QED
    BY <1>1, <2>3, LoseMaps DEF PipeStep
<1> QED
  BY <1>3, <1>4, <1>5

\* A generation that raises breaks its sample.
LEMMA FailRefines ==
    ASSUME PlaceInv, NEW i \in running, running' = running \ {i}, failed' = failed \cup {i},
           UNCHANGED <<taken, procPC, mqVars, trVars>>
    PROVE  PipeStep
<1>1. UNCHANGED <<Made, Queued, Kept, fetched, Told, InHand>> /\ Broken'
  BY DEF mqVars, trVars, Made, Queued, Kept, Told, InHand, Broken
<1>2. i \notin Queued \cup InHand
  BY DEF PlaceInv, Disjoint
<1>3. i \in InFlight /\ InFlight' = InFlight \ {i}
  BY <1>1, <1>2 DEF InFlight
<1> QED
  BY <1>1, <1>3, BreakMaps DEF PipeStep

\* The end marker is no sample, but may push one out of a full queue.
LEMMA SentinelRefines ==
    ASSUME FreshInv, PlaceInv, MainSentinel
    PROVE  PipeStep
<1>1. /\ QueueType /\ NoDuplicate /\ None \in 1 .. None /\ Put(None) /\ None \notin Queued
      /\ UNCHANGED <<Made, Kept, fetched, Broken, Told, InHand, running>>
  BY SampleOrNone
     DEF FreshInv, TypeOK, MainSentinel, PlaceInv, Marker, pendVars, taskVars, procVars, trVars,
         Told, InHand, Made, Kept, Broken
<1>2. \/ Queued' = Queued \cup {None}
      \/ /\ Head(queue) \in Queued
         /\ Queued' = (Queued \ {Head(queue)}) \cup {None}
  BY <1>1, PutEffect
<1>3. CASE Queued' = Queued \cup {None}
  <2>1. InFlight' = InFlight
    BY <1>1, <1>3 DEF InFlight
  <2> QED
    BY <1>1, <2>1, Stutters DEF PipeStep
<1>4. CASE Head(queue) \in Queued /\ Queued' = (Queued \ {Head(queue)}) \cup {None}
  <2>1. Head(queue) \notin running \cup InHand
    BY <1>4 DEF PlaceInv, Disjoint
  <2>2. Head(queue) \in InFlight /\ InFlight' = InFlight \ {Head(queue)}
    BY <1>1, <1>4, <2>1 DEF InFlight
  <2> QED
    BY <1>1, <2>2, LoseMaps DEF PipeStep
<1> QED
  BY <1>2, <1>3, <1>4

\* What arrived behind the end marker is thrown away.
LEMMA ClearRefines ==
    ASSUME PlaceInv, MainClear
    PROVE  PipeStep
<1>1. /\ queue' = <<>> /\ Told
      /\ UNCHANGED <<Made, Kept, fetched, Broken, Told, InHand, running>>
  BY DEF MainClear, pendVars, taskVars, procVars, trVars, Told, InHand, Made, Kept, Broken
<1>2. Queued' = {}
  BY <1>1 DEF Queued
<1>3. (InHand \cup running) \cap Queued = {}
  BY DEF PlaceInv, Disjoint
<1>4. /\ Queued \ {None} \in SUBSET InFlight
      /\ InFlight' = InFlight \ (Queued \ {None})
  BY <1>1, <1>2, <1>3 DEF InFlight
<1> QED
  BY <1>1, <1>4, DiscardMaps DEF PipeStep

\* The trainer uses a sample, or is told that the stream is over.
LEMMA GetRefines ==
    ASSUME FreshInv, PlaceInv, PlaceInv', TrainerGet
    PROVE  PipeStep
<1>1. /\ QueueType /\ NoDuplicate /\ queue # <<>> /\ queue' = Tail(queue) /\ ~Told
      /\ UNCHANGED <<Made, running, Broken, InHand, failed, mainPC>>
  BY DEF FreshInv, TypeOK, TrainerGet, PlaceInv, TrainerOver, pendVars, taskVars, procVars,
         mainVars, Told, InHand, Made, Broken
<1>2. Head(queue) \in Queued /\ Queued' = Queued \ {Head(queue)}
  BY <1>1, GetEffect
<1>3. CASE Head(queue) = None
  <2>1. Told' /\ UNCHANGED <<Kept, fetched>>
    BY <1>3 DEF TrainerGet, Told, Kept
  <2>2. InFlight' = InFlight
    BY <1>1, <1>2, <1>3 DEF InFlight
  <2>3. Broken \/ (Made = N /\ InFlight = {})
    <3> SUFFICES ASSUME failed = {} PROVE Made = N /\ InFlight = {}
      BY DEF Broken
    <3>1. mainPC # "stream"
      BY <1>2, <1>3 DEF PlaceInv, Marker
    <3>2. running = {} /\ InHand = {} /\ taken = None
      BY <3>1, NoneRuns
    <3>3. queue' = <<>>
      BY <1>1, <2>1, <3>1 DEF PlaceInv, Marker
    <3>4. Queued' = {}
      BY <3>3 DEF Queued
    <3> QED
      BY <1>2, <1>3, <3>2, <3>4 DEF Made, InFlight
  <2> QED
    BY <1>1, <2>1, <2>2, <2>3, FinishMaps DEF PipeStep
<1>4. CASE Head(queue) # None
  <2>1. /\ batch' = batch \cup {Head(queue)} /\ fetched' = fetched + 1 /\ ~Told'
        /\ trained' = trained
    BY <1>1, <1>4 DEF TrainerGet, Told
  <2>2. Kept' = Kept \cup {Head(queue)}
    BY <2>1 DEF Kept
  <2>3. Head(queue) \notin running \cup InHand
    BY <1>2 DEF PlaceInv, Disjoint
  <2>4. Head(queue) \in InFlight /\ InFlight' = InFlight \ {Head(queue)}
    BY <1>1, <1>2, <1>4, <2>3 DEF InFlight
  <2>5. Told' = Told
    BY <1>1, <2>1 DEF Told
  <2> QED
    BY <1>1, <2>1, <2>2, <2>4, <2>5, UseMaps DEF PipeStep
<1> QED
  BY <1>3, <1>4

\* Training takes nothing from the flight, and reset_staleness renews.
LEMMA TrainerRefines ==
    ASSUME FreshInv, PlaceInv, PlaceInv', Trainer
    PROVE  PipeStep
<1>1. CASE TrainerGet
  BY <1>1, GetRefines
<1>2. CASE TrainerStep
  <2>1. /\ UNCHANGED <<Made, InFlight, fetched, Broken, Told>> /\ Kept' = Kept
    BY <1>2 DEF TrainerStep, pendVars, taskVars, procVars, mqVars, Made, InFlight, InHand, Queued,
                Broken, Told, Kept
  <2> QED
    BY <2>1, Stutters DEF PipeStep
<1>3. CASE Trainer /\ ~TrainerGet /\ ~TrainerStep
  <2>1. UNCHANGED <<taken, running, failed, queue, batch, trained, procPC>>
    BY <1>3 DEF Trainer, TrainerSync, ResetPark, ResetBegin, ResetAsk, ResetSet, TrainerFinish,
                pendVars, taskVars, procVars, mqVars
  <2>2. InHand' = InHand
    BY <2>1 DEF InHand
  <2>3. Told' = Told
    BY <1>3 DEF Trainer, TrainerSync, ResetPark, ResetBegin, ResetAsk, ResetSet,
                TrainerFinish, PlaceInv, TrainerOver, Told
  <2>4. CASE ResetSet
    <3>1. fetched' = 0 /\ UNCHANGED <<Made, InFlight, Kept, Broken, Told>>
      BY <2>1, <2>2, <2>3, <2>4 DEF ResetSet, Made, InFlight, Queued, Kept, Broken
    <3> QED
      BY <3>1, RenewMaps DEF PipeStep
  <2>5. CASE ~ResetSet
    <3>1. fetched' = fetched
      BY <1>3, <2>5 DEF Trainer, TrainerSync, ResetPark, ResetBegin, ResetAsk, TrainerFinish
    <3> QED
      BY <2>1, <2>2, <2>3, <3>1, QuietStep
  <2> QED
    BY <2>4, <2>5
<1> QED
  BY <1>1, <1>2, <1>3

\* Every step is a step of the abstract pipeline or invisible to it.
LEMMA NextRefines ==
    ASSUME FreshInv, PlaceInv, PlaceInv', [Next]_vars
    PROVE  PipeStep
<1>1. ASSUME UNCHANGED <<taken, running, failed, mqVars, procPC, trVars>>
      PROVE  PipeStep
  BY <1>1, QuietStep DEF mqVars, trVars, InHand, Told
<1>2. CASE Feed \/ Monitor \/ Terminated \/ UNCHANGED vars
  BY <1>1, <1>2 DEF Feed, Monitor, MonLoop, MonWake, MonAsk, MonDecide, MonResume, Terminated,
                    vars, pendVars, taskVars, procVars, mqVars
<1>3. CASE ProcAsk \/ ProcPause \/ ProcPark \/ ProcDrainResume
  <2>1. /\ UNCHANGED <<taken, running, failed, mqVars, trVars>>
        /\ procPC \in {"ask", "decide", "pausing", "drain"}
        /\ procPC' \in {"ask", "decide", "drain", "pausing", "reap"}
    BY <1>3 DEF ProcAsk, ProcPause, ProcPark, ProcDrainResume, pendVars, taskVars
  <2> QED
    BY <2>1, QuietStep DEF mqVars, trVars, InHand, Told
<1>4. CASE ProcDecide \/ ProcTake
  <2>1. CASE taken < fed
    BY <1>4, <2>1, TakeRefines
  <2>2. CASE ~(taken < fed)
    <3>1. /\ UNCHANGED <<taken, running, failed, mqVars, trVars>>
          /\ procPC = "decide" /\ procPC' = "take"
      BY <1>4, <2>2 DEF ProcDecide, ProcTake
    <3> QED
      BY <3>1, QuietStep DEF mqVars, trVars, InHand, Told
  <2> QED
    BY <2>1, <2>2
<1>5. CASE ProcDrainReap
  <2>1. /\ UNCHANGED <<taken, running, failed, outside>> /\ procPC \in {"drain", "reap"}
        /\ procPC' \in {"failed", "ask", "drain"}
    BY <1>5 DEF ProcDrainReap, pendVars
  <2>2. CASE procPC' = "failed"
    BY <2>1, <2>2, DieRefines
  <2>3. CASE procPC' # "failed"
    BY <2>1, <2>3, QuietStep DEF mqVars, trVars, InHand, Told
  <2> QED
    BY <2>2, <2>3
<1>6. CASE ProcLock \/ (ProcReap /\ Done \cap failed = {})
  BY <1>6, HandRefines
<1>7. CASE ProcReap /\ Done \cap failed # {}
  <2>1. UNCHANGED <<taken, running, failed, outside>> /\ procPC' = "failed"
    BY <1>7 DEF ProcReap, pendVars
  <2> QED
    BY <2>1, DieRefines
<1>8. ASSUME NEW i \in Sample, Task(i) PROVE PipeStep
  <2>1. CASE TaskPost(i)
    BY <2>1, PostRefines
  <2>2. CASE TaskEnd(i)
    <3>1. UNCHANGED <<taken, procPC, mqVars, trVars>>
      BY <2>2 DEF TaskEnd, pendVars, procVars
    <3>2. CASE UNCHANGED <<running, failed>>
      BY <1>1, <3>1, <3>2
    <3>3. CASE i \in running /\ running' = running \ {i} /\ failed' = failed \cup {i}
      BY <3>1, <3>3, FailRefines
    <3> QED
      BY <2>2, <3>2, <3>3 DEF TaskEnd
  <2> QED
    BY <1>8, <2>1, <2>2 DEF Task
<1>9. CASE Main
  <2>1. CASE MainStop
    BY <1>1, <2>1 DEF MainStop, pendVars, taskVars, procVars
  <2> QED
    BY <1>9, <2>1, SentinelRefines, ClearRefines DEF Main
<1>10. CASE Trainer
  BY <1>10, TrainerRefines
<1> QED
  BY <1>2, <1>3, <1>4, <1>5, <1>6, <1>7, <1>8, <1>9, <1>10 DEF Next, Processor

\* The fully asynchronous pipeline is the abstract one: whatever the event loop,
\* the lock, the remote calls and failing generations do, samples are handed
\* over within the allowance, used at most once, and the end is announced only
\* when nothing is on its way or something broke.
THEOREM Implements == Spec => ImplementsPipeline
<1>1. Init => Pipe!Init
  <2> SUFFICES ASSUME Init PROVE Pipe!Init
    OBVIOUS
  <2>1. InFlight = {} /\ ~Told /\ taken # None
    BY ParametersAssumption DEF Init, InFlight, InHand, Queued, Told, None
  <2> QED
    BY <2>1 DEF Init, Pipe!Init
<1>2. (FreshInv /\ PlaceInv) /\ (FreshInv /\ PlaceInv)' /\ [Next]_vars
         => [Pipe!Next]_(Pipe!vars)
  BY NextRefines DEF PipeStep
<1> QED
  BY <1>1, <1>2, PipelineInv, PTL DEF Spec, ImplementsPipeline, Pipe!Spec

-----------------------------------------------------------------------------
(* Synchronous training *)

\* Where the trainer is between two weight updates, and at the end of them.
Updating == {"sync", "reset", "resetLock", "resetAsk", "resetSet"}

\* The samples fetched since the last reset are those of the batches trained since
\* then and of the one that is being filled.
BatchesFetched ==
    /\ trPC = "get" => /\ fetched = (local - 1) * R + Cardinality(batch)
                       /\ Cardinality(batch) < R
    /\ trPC = "train" => fetched = local * R
    /\ trPC \in Updating /\ ~stopping => fetched = T * R /\ local = 1 /\ batch = {}

\* Without staleness the counter never falls behind, because there is nothing
\* outstanding that a reset could overlook.
NeverBehind ==
    StaleNum = 0 /\ mainPC = "stream" =>
        /\ Used <= MaxRequired
        /\ Used <= staleness
        /\ procPC = "take" => Used < MaxRequired

SyncInv == BatchesFetched /\ NeverBehind

\* Arithmetic: dividing undoes multiplying.
LEMMA DivExact ==
    ASSUME NEW k \in Nat, NEW d \in Nat \ {0}
    PROVE  (k * d) \div d = k
OBVIOUS

\* Without staleness as much is allowed as the batches of one version need.
LEMMA ZeroAllowance == ASSUME StaleNum = 0 PROVE MaxRequired = T * R
<1> DEFINE k == R * T
<1>1. k \in Nat /\ k = T * R /\ StaleDen \in Nat \ {0} /\ StaleDen + StaleNum = StaleDen
  BY ParametersAssumption
<1>2. MaxRequired = (k * (StaleDen + StaleNum)) \div StaleDen
  BY DEF MaxRequired
<1> HIDE DEF k
<1>3. (k * StaleDen) \div StaleDen = k
  BY <1>1, DivExact
<1> QED
  BY <1>1, <1>2, <1>3

\* The trainer fetches a batch sample by sample and trains it.
LEMMA BatchesStep ==
    ASSUME FreshInv, PlaceInv, BatchesFetched, [Next]_vars
    PROVE  BatchesFetched'
<1> USE DEF BatchesFetched
<1>1. /\ local \in 1 .. T /\ fetched \in Nat /\ IsFiniteSet(batch) /\ Cardinality(batch) \in Nat
      /\ R \in Nat \ {0} /\ T \in Nat \ {0}
  BY SampleSets, ParametersAssumption DEF FreshInv, TypeOK, TrainerType
<1>2. CASE UNCHANGED trVars
  BY <1>2 DEF trVars
<1>3. CASE TrainerGet
  <2>1. CASE Head(queue) = None
    BY <1>3, <2>1 DEF TrainerGet, Updating
  <2>2. CASE Head(queue) # None
    <3>1. Head(queue) \notin batch
      <4>1. Head(queue) \in Queued
        BY <1>3, GetEffect DEF TrainerGet, FreshInv, TypeOK, PlaceInv
      <4> QED
        BY <4>1 DEF PlaceInv, Disjoint
    <3>2. Cardinality(batch \cup {Head(queue)}) = Cardinality(batch) + 1
      BY <1>1, <3>1, FS_AddElement
    <3>3. /\ batch' = batch \cup {Head(queue)} /\ fetched' = fetched + 1 /\ local' = local
          /\ trPC' = IF Cardinality(batch') = R THEN "train" ELSE "get"
          /\ trPC = "get"
      BY <1>3, <2>2 DEF TrainerGet
    <3>4. fetched' = (local - 1) * R + (Cardinality(batch) + 1) /\ Cardinality(batch) < R
      BY <1>1, <3>3
    <3>5. CASE Cardinality(batch') = R
      <4>1. fetched' = (local - 1) * R + R
        BY <3>2, <3>3, <3>4, <3>5
      <4>2. (local - 1) * R + R = local * R
        BY <1>1
      <4> QED
        BY <3>3, <3>5, <4>1, <4>2 DEF Updating
    <3>6. CASE Cardinality(batch') # R
      BY <1>1, <3>2, <3>3, <3>4, <3>6 DEF Updating
    <3> QED
      BY <3>5, <3>6
  <2> QED
    BY <2>1, <2>2
<1>4. CASE TrainerStep
  <2>1. fetched = local * R /\ fetched' = fetched /\ batch' = {} /\ Cardinality(batch') = 0
    BY <1>4, FS_EmptySet DEF TrainerStep
  <2>2. CASE local < T
    <3>1. local' = local + 1 /\ trPC' = "get" /\ (local + 1) - 1 = local /\ 0 < R
      BY <1>1, <1>4, <2>2 DEF TrainerStep
    <3>2. fetched' = (local' - 1) * R + 0
      BY <1>1, <2>1, <3>1
    <3> QED
      BY <2>1, <3>1, <3>2 DEF Updating
  <2>3. CASE ~(local < T)
    <3>1. local = T /\ local' = 1 /\ trPC' = "sync"
      BY <1>1, <1>4, <2>3 DEF TrainerStep
    <3> QED
      BY <2>1, <3>1
  <2> QED
    BY <2>2, <2>3
<1>5. CASE TrainerSync \/ ResetPark \/ ResetBegin \/ ResetAsk
  BY <1>5 DEF TrainerSync, ResetPark, ResetBegin, ResetAsk, Updating
<1>6. CASE ResetSet
  <2>1. CASE stopping
    BY <1>6, <2>1 DEF ResetSet, Updating
  <2>2. CASE ~stopping
    <3>1. /\ trPC' = "get" /\ fetched' = 0 /\ local' = 1 /\ batch' = {}
      BY <1>6, <2>2 DEF ResetSet, Updating
    <3>2. Cardinality(batch') = 0 /\ (1 - 1) * R = 0
      BY <1>1, <3>1, FS_EmptySet
    <3> QED
      BY <1>1, <3>1, <3>2 DEF Updating
  <2> QED
    BY <2>1, <2>2
<1>7. CASE TrainerFinish
  BY <1>7 DEF TrainerFinish, Updating
<1> QED
  BY <1>2, <1>3, <1>4, <1>5, <1>6, <1>7, TrainerFootprint DEF Trainer

\* At a weight update all that the allowance permits has been fetched.
LEMMA NothingOutstanding ==
    ASSUME FreshInv, PlaceInv, SyncInv, StaleNum = 0, mainPC = "stream", trPC \in Updating
    PROVE  fetched = MaxRequired /\ Outstanding = 0 /\ procPC # "take"
<1>1. ~stopping
  BY DEF PlaceInv, TrainerOver, Told
<1>2. fetched = MaxRequired
  BY <1>1, ZeroAllowance DEF SyncInv, BatchesFetched
<1>3. /\ Cardinality(running) \in Nat /\ Len(queue) \in Nat /\ MaxRequired \in Nat
      /\ Held \in {0, 1}
  BY SampleSets, MaxRequiredPositive DEF FreshInv, TypeOK, RollouterType, QueueType, Held
<1>4. Outstanding \in Nat
  BY <1>3 DEF Outstanding
<1>5. /\ fetched + Outstanding <= MaxRequired
      /\ procPC = "take" => fetched + Outstanding < MaxRequired
  BY DEF SyncInv, NeverBehind, Used
<1> QED
  BY <1>2, <1>3, <1>4, <1>5

\* The counter stays level with what is fetched and outstanding.
LEMMA NeverBehindStep ==
    ASSUME FreshInv, PlaceInv, SyncInv, [Next]_vars
    PROVE  NeverBehind'
<1> SUFFICES ASSUME StaleNum = 0, mainPC' = "stream"
             PROVE  /\ Used' <= MaxRequired /\ Used' <= staleness'
                    /\ procPC' = "take" => Used' < MaxRequired
  BY DEF NeverBehind
<1>1. /\ mainPC = "stream" /\ TypeOK /\ TypeOK'
      /\ Keeps \/ (Adds /\ Room) \/ ResetSet
  BY UsedStep DEF FreshInv
<1>2. /\ Used \in Nat /\ Used' \in Nat /\ staleness \in Nat /\ procQ \in Nat
      /\ MaxRequired \in Nat
  BY <1>1, UsedType, UsedTypeNext, MaxRequiredPositive DEF TypeOK, RollouterType
<1>3. /\ Used <= MaxRequired /\ Used <= staleness
      /\ procPC = "take" => Used < MaxRequired
  BY <1>1 DEF SyncInv, NeverBehind
<1>4. Room => Used < MaxRequired
  BY <1>2, <1>3 DEF Room, ShouldPause
<1>5. CASE Keeps \/ (Adds /\ Room)
  BY <1>2, <1>3, <1>4, <1>5 DEF Keeps, Adds
<1>6. CASE ResetSet
  <2>1. trPC \in Updating
    BY <1>6 DEF ResetSet, Updating
  <2>2. Outstanding = 0 /\ procPC # "take"
    BY <1>1, <2>1, NothingOutstanding
  <2>3. /\ UNCHANGED <<running, queue, procPC>> /\ fetched' = 0 /\ staleness' = resetN
        /\ resetN \in Nat
    BY <1>1, <1>6 DEF ResetSet, taskVars, mqVars, procVars, TypeOK, TrainerType
  <2>4. Outstanding' = Outstanding
    BY <2>3 DEF Outstanding, Held
  <2>5. Used' = 0
    BY <2>2, <2>3, <2>4 DEF Used
  <2> QED
    BY <1>2, <2>2, <2>3, <2>5, MaxRequiredPositive
<1> QED
  BY <1>1, <1>5, <1>6

\* With staleness_threshold = 0 no sample of an old version is held when the
\* weights are updated, for any batch size, number of batches per update, number of
\* slots and interleaving of pauses, drains and resets.
THEOREM ZeroIsSynchronous == Spec => []SynchronousWhenZero
<1>1. Init => SyncInv
  <2> SUFFICES ASSUME Init PROVE SyncInv
    OBVIOUS
  <2>1. Cardinality({}) = 0 /\ Len(<<>>) = 0 /\ (1 - 1) * R = 0 /\ 0 < R
    BY FS_EmptySet, ParametersAssumption
  <2>2. BatchesFetched
    BY <2>1 DEF Init, BatchesFetched, Updating
  <2>3. Used = 0 /\ staleness = 0 /\ procPC = "ask"
    BY <2>1 DEF Init, Used, Outstanding, Held
  <2> QED
    BY <2>2, <2>3, MaxRequiredPositive DEF SyncInv, NeverBehind
<1>2. FreshInv /\ PlaceInv /\ SyncInv /\ [Next]_vars => SyncInv'
  BY BatchesStep, NeverBehindStep DEF SyncInv
<1>3. FreshInv /\ PlaceInv /\ SyncInv => SynchronousWhenZero
  BY NothingOutstanding DEF SynchronousWhenZero, Updating
<1> QED
  BY <1>1, <1>2, <1>3, PipelineInv, PTL DEF Spec
=============================================================================
