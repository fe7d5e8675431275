-------------------------- MODULE Checkpoint_proofs --------------------------
(***************************************************************************)
(* The checkpoint on disk can be used at every moment, and what is resumed *)
(* from it trains no sample twice: for every number of samples, batches,   *)
(* crashes and every retention setting.                                    *)
(***************************************************************************)
EXTENDS Checkpoint, SequenceTheorems, FiniteSetTheorems, TLAPS

Quiet == pc \in {"train", "save", "actor", "ended"}
Saving == pc \in {"save", "actor", "data", "open", "write"}
Written == pc \in {"data", "open", "write"}
Running == pc \notin {"down", "stuck"}

Types ==
    /\ keep \in Nat /\ version \in Nat /\ lastCkpt \in Nat /\ loader \in Nat
    /\ saved \in Seq(Nat)
    /\ \A v \in DOMAIN data : data[v] \in Nat
    /\ pc \in {"train", "save", "actor", "data", "open", "write", "ended", "down", "stuck"}

\* what the rollouter holds and what was learned came from the data loader, and
\* nothing is both
SamplesOK ==
    /\ inflight \subseteq 1 .. loader /\ learned \subseteq 1 .. loader
    /\ inflight \cap learned = {}
    /\ pc = "down" => inflight = {} /\ learned = {} /\ saved = <<>>
                      /\ version = 0 /\ lastCkpt = 0

\* the trainer knows what the tracker says, and saves a newer version only
TrackerOK ==
    /\ Running => (tracker = lastCkpt \/ (pc = "write" /\ tracker = Torn))
    /\ lastCkpt <= version
    /\ Saving => lastCkpt < version

\* previous_saved_paths are in order and none is newer than the version
SavedOK ==
    /\ \A i, j \in 1 .. Len(saved) : i < j => saved[i] < saved[j]
    /\ \A i \in 1 .. Len(saved) : saved[i] <= version
    /\ Quiet => \A i \in 1 .. Len(saved) : saved[i] <= lastCkpt

\* the tracked checkpoint, and the one that is being written
DiskOK ==
    /\ tracker \in DOMAIN actor =>
          tracker \in DOMAIN data /\ actor[tracker] \subseteq 1 .. data[tracker]
    /\ (Quiet \/ keep # 1) /\ tracker \notin {NoTracker, Torn} => tracker \in DOMAIN actor
    /\ Written => version \in DOMAIN actor /\ actor[version] = learned
    /\ pc \in {"open", "write"} => version \in DOMAIN data /\ learned \subseteq 1 .. data[version]
    /\ DOMAIN actor \subseteq Nat \ {0}

CkptInv == Types /\ SamplesOK /\ TrackerOK /\ SavedOK /\ DiskOK /\ SomeCheckpoint

-----------------------------------------------------------------------------
\* what making room before a save leaves of the list
LEMMA SurplusLeaves == ASSUME Types PROVE Surplus \in 0 .. Len(saved)
                                       /\ (Surplus > 0 => Surplus < Len(saved) /\ keep > 1)
<1>1. Len(saved) \in Nat
  BY LenProperties DEF Types
<1> QED
  BY <1>1 DEF Types, Surplus

\* What registering a checkpoint leaves of the list: at least the new one, and two
\* unless a single one is kept.
LEMMA ExcessLeaves ==
    ASSUME Types, NEW s \in Seq(Nat), s # <<>>
    PROVE  /\ Excess(s) \in 0 .. Len(s) - 1
           /\ (keep # 1 /\ Excess(s) > 0 => Excess(s) < Len(s) - 1)
<1>1. Len(s) \in Nat \ {0}
  BY LenProperties, EmptySeq
<1> QED
  BY <1>1 DEF Types, Excess

\* a list without its oldest entries is the rest of the list
LEMMA WithoutOldest ==
    ASSUME NEW s \in Seq(Nat), NEW n \in 0 .. Len(s)
    PROVE  /\ Without(s, n) \in Seq(Nat) /\ Len(Without(s, n)) = Len(s) - n
           /\ \A i \in 1 .. Len(s) - n : Without(s, n)[i] = s[n + i]
<1>1. Len(s) \in Nat
  BY LenProperties
<1>2. n + 1 \in 1 .. Len(s) + 1 /\ Len(s) \in n .. Len(s)
  BY <1>1
<1>3. SubSeq(s, n + 1, Len(s)) \in Seq(Nat)
  BY <1>1, <1>2, SubSeqProperties
<1> QED
  BY <1>1, <1>2, <1>3 DEF Without

\* A first run has nothing on disk, and nothing to say about it.
LEMMA CkptInit == ASSUME Init PROVE CkptInv
<1>1. Types
  BY CheckpointAssumption DEF Init, Types, CheckpointAssumption
<1>2. SamplesOK /\ TrackerOK
  BY DEF Init, SamplesOK, TrackerOK, Running, Saving, NoTracker
<1>3. Len(saved) = 0 /\ DOMAIN actor = {}
  BY DEF Init
<1>4. SavedOK
  BY <1>3 DEF SavedOK
<1>5. DiskOK /\ SomeCheckpoint
  BY <1>3 DEF Init, DiskOK, Quiet, Written, NoTracker, SomeCheckpoint
<1> QED
  BY <1>1, <1>2, <1>4, <1>5 DEF CkptInv

\* The feeder only adds a sample that nothing was trained on.
LEMMA CkptFeed == ASSUME CkptInv, Feed PROVE CkptInv'
<1> USE DEF CkptInv
<1>1. /\ loader' = loader + 1 /\ inflight' = inflight \cup {loader + 1}
      /\ pc \notin {"down", "stuck", "ended"}
      /\ UNCHANGED <<keep, actor, data, tracker, pc, version, learned, lastCkpt, saved>>
  BY DEF Feed, disk, memory, progress
<1>2. Types'
  BY <1>1 DEF Types
<1>3. SamplesOK'
  <2>1. loader \in Nat
    BY DEF Types
  <2>2. loader + 1 \notin learned /\ 1 .. loader \subseteq 1 .. loader + 1 /\ loader + 1 \in 1 .. loader + 1
    BY <2>1 DEF SamplesOK
  <2> QED
    BY <1>1, <2>2 DEF SamplesOK
<1>4. TrackerOK' /\ SavedOK' /\ DiskOK' /\ SomeCheckpoint'
  BY <1>1 DEF TrackerOK, SavedOK, DiskOK, SomeCheckpoint, Running, Saving, Quiet, Written
<1> QED
  BY <1>2, <1>3, <1>4

\* A batch goes from what is in flight to what was learned, and a save begins for
\* a version newer than the last one saved.
LEMMA CkptStep == ASSUME CkptInv, Step PROVE CkptInv'
<1> USE DEF CkptInv
<1>1. /\ pc = "train" /\ pc' \in {"train", "save"}
      /\ (pc' = "save" => version' # lastCkpt)
      /\ UNCHANGED <<keep, actor, data, tracker, loader, lastCkpt, saved>>
  BY DEF Step, disk
<1>2. PICK B \in SUBSET inflight : inflight' = inflight \ B /\ learned' = learned \cup B
  BY DEF Step
<1>3. version' = version \/ version' = version + 1
  BY DEF Step, Advance
<1>4. Types'
  BY <1>1, <1>3 DEF Types
<1>5. SamplesOK'
  BY <1>1, <1>2 DEF SamplesOK
<1>6. TrackerOK'
  BY <1>1, <1>3 DEF TrackerOK, Running, Saving, Types
<1>7. SavedOK'
  <2>1. Len(saved) \in Nat /\ \A i \in 1 .. Len(saved) : saved[i] \in Nat
    BY LenProperties, ElementOfSeq DEF Types
  <2>2. \A i \in 1 .. Len(saved) : saved[i] <= version'
    BY <1>3, <2>1 DEF SavedOK, Types
  <2> QED
    BY <1>1, <2>2 DEF SavedOK, Quiet
<1>8. DiskOK' /\ SomeCheckpoint'
  BY <1>1 DEF DiskOK, SomeCheckpoint, Quiet, Written
<1> QED
  BY <1>4, <1>5, <1>6, <1>7, <1>8

\* At the end what is in flight is dropped.
LEMMA CkptStop == ASSUME CkptInv, Stop PROVE CkptInv'
<1> USE DEF CkptInv
<1>1. /\ pc = "train" /\ pc' \in {"save", "ended"} /\ inflight' = {}
      /\ (pc' = "save" => version # lastCkpt)
      /\ UNCHANGED <<keep, actor, data, tracker, loader, lastCkpt, saved, version, learned>>
  BY DEF Stop, disk, progress
<1>2. Types' /\ SamplesOK'
  BY <1>1 DEF Types, SamplesOK
<1>3. TrackerOK'
  BY <1>1 DEF TrackerOK, Running, Saving, Types
<1>4. SavedOK' /\ DiskOK' /\ SomeCheckpoint'
  BY <1>1 DEF SavedOK, DiskOK, SomeCheckpoint, Quiet, Written
<1> QED
  BY <1>2, <1>3, <1>4

\* The tracked checkpoint is the newest of the list, and room is made from its old
\* end.
LEMMA CkptBegin == ASSUME CkptInv, BeginActor PROVE CkptInv'
<1> USE DEF CkptInv
<1>1. /\ pc = "save" /\ pc' = "actor" /\ saved' = Without(saved, Surplus)
      /\ actor' = Remove(actor, Oldest(saved, Surplus) \cup {version})
      /\ UNCHANGED <<keep, data, tracker, loader, inflight, lastCkpt, version, learned>>
  BY DEF BeginActor, rollouter, progress
<1>2. saved \in Seq(Nat) /\ Len(saved) \in Nat /\ \A i \in 1 .. Len(saved) : saved[i] \in Nat
  BY LenProperties, ElementOfSeq DEF Types
<1>3. PICK n \in 0 .. Len(saved) : n = Surplus /\ (n > 0 => n < Len(saved) /\ keep > 1)
  BY SurplusLeaves
<1>4. /\ saved' \in Seq(Nat) /\ Len(saved') = Len(saved) - n
      /\ \A i \in 1 .. Len(saved) - n : saved'[i] = saved[n + i]
  BY <1>1, <1>2, <1>3, WithoutOldest
<1>5. Types' /\ SamplesOK'
  BY <1>1, <1>4 DEF Types, SamplesOK
<1>6. TrackerOK'
  BY <1>1 DEF TrackerOK, Running, Saving
<1>7. \A i \in 1 .. Len(saved) - n : n + i \in 1 .. Len(saved)
  BY <1>2, <1>3
<1>8. SavedOK'
  <2>1. \A i, j \in 1 .. Len(saved) - n : i < j => saved'[i] < saved'[j]
    <3> SUFFICES ASSUME NEW i \in 1 .. Len(saved) - n, NEW j \in 1 .. Len(saved) - n, i < j
                 PROVE  saved'[i] < saved'[j]
      OBVIOUS
    <3>1. n + i < n + j
      OBVIOUS
    <3> QED
      BY <1>4, <1>7, <3>1 DEF SavedOK
  <2>2. \A i \in 1 .. Len(saved) - n : saved'[i] <= version /\ saved'[i] <= lastCkpt
    BY <1>1, <1>4, <1>7 DEF SavedOK, Quiet
  <2> QED
    BY <1>1, <1>4, <2>1, <2>2 DEF SavedOK
<1>9. tracker = lastCkpt /\ lastCkpt < version /\ lastCkpt \in Nat /\ version \in Nat
  BY <1>1 DEF TrackerOK, Running, Saving, Types
<1>10. tracker \notin Oldest(saved, Surplus)
  <2> SUFFICES ASSUME NEW i \in 1 .. n PROVE saved[i] # tracker
    BY <1>3 DEF Oldest
  <2>1. /\ n < Len(saved) /\ i \in 1 .. Len(saved) /\ Len(saved) \in 1 .. Len(saved)
        /\ i < Len(saved)
    BY <1>2, <1>3
  <2>2. saved[i] < saved[Len(saved)] /\ saved[Len(saved)] <= lastCkpt
    BY <1>1, <2>1 DEF SavedOK, Quiet
  <2> QED
    BY <1>2, <1>9, <2>1, <2>2
<1>11. DOMAIN actor' = DOMAIN actor \ (Oldest(saved, Surplus) \cup {version})
       /\ \A v \in DOMAIN actor' : actor'[v] = actor[v]
  BY <1>1 DEF Remove
<1>12. tracker \in DOMAIN actor <=> tracker \in DOMAIN actor'
  BY <1>9, <1>10, <1>11
<1>13. DiskOK'
  BY <1>1, <1>11, <1>12 DEF DiskOK, Quiet, Written
<1>14. SomeCheckpoint'
  BY <1>1, <1>9, <1>12 DEF DiskOK, Quiet, SomeCheckpoint, NoTracker, Torn
<1> QED
  BY <1>5, <1>6, <1>8, <1>13, <1>14

\* The checkpoint just written is registered, and the tracked one goes only if a
\* single one is kept.
LEMMA CkptEnd == ASSUME CkptInv, EndActor PROVE CkptInv'
<1> USE DEF CkptInv
<1> DEFINE t == Append(saved, version)
<1>1. /\ pc = "actor" /\ pc' = "data" /\ saved' = Without(t, Excess(t))
      /\ actor' = Remove(Write(actor, version, learned), Oldest(t, Excess(t)))
      /\ UNCHANGED <<keep, data, tracker, loader, inflight, lastCkpt, version, learned>>
  BY DEF EndActor, rollouter, progress
<1>2. saved \in Seq(Nat) /\ Len(saved) \in Nat /\ \A i \in 1 .. Len(saved) : saved[i] \in Nat
  BY LenProperties, ElementOfSeq DEF Types
<1>3. /\ t \in Seq(Nat) /\ Len(t) = Len(saved) + 1 /\ t[Len(t)] = version /\ t # <<>>
      /\ \A i \in 1 .. Len(saved) : t[i] = saved[i]
  BY <1>2, AppendProperties DEF Types
<1>4. tracker = lastCkpt /\ lastCkpt < version /\ lastCkpt \in Nat /\ version \in Nat
  BY <1>1 DEF TrackerOK, Running, Saving, Types
<1>5. \A i \in 1 .. Len(saved) : saved[i] <= lastCkpt
  BY <1>1 DEF SavedOK, Quiet
<1>6. /\ \A i, j \in 1 .. Len(t) : i < j => t[i] < t[j]
      /\ \A i \in 1 .. Len(t) : t[i] <= version /\ t[i] \in Nat
  <2>1. \A i \in 1 .. Len(t) : i \in 1 .. Len(saved) \/ i = Len(t)
    BY <1>2, <1>3
  <2>2. \A i \in 1 .. Len(saved) : t[i] < version /\ t[i] \in Nat
    BY <1>2, <1>3, <1>4, <1>5
  <2>3. \A i \in 1 .. Len(t) : t[i] <= version /\ t[i] \in Nat
    BY <1>3, <1>4, <2>1, <2>2
  <2>4. ASSUME NEW i \in 1 .. Len(t), NEW j \in 1 .. Len(t), i < j PROVE t[i] < t[j]
    <3>1. i \in 1 .. Len(saved)
      BY <1>2, <1>3, <2>4
    <3>2. CASE j = Len(t)
      BY <1>3, <2>2, <3>1, <3>2
    <3>3. CASE j \in 1 .. Len(saved)
      BY <1>3, <2>4, <3>1, <3>3 DEF SavedOK
    <3> QED
      BY <2>1, <3>2, <3>3
  <2> QED
    BY <2>3, <2>4
<1>7. PICK n \in 0 .. Len(t) - 1 : n = Excess(t) /\ (keep # 1 /\ n > 0 => n < Len(t) - 1)
  BY <1>3, ExcessLeaves
<1> HIDE DEF t
<1>8. n \in 0 .. Len(t) /\ Len(t) \in Nat /\ \A i \in 1 .. Len(t) - n : n + i \in 1 .. Len(t)
  <2>1. Len(t) \in Nat
    BY <1>3
  <2>2. \A l \in Nat : \A m \in 0 .. l - 1 :
           m \in 0 .. l /\ \A i \in 1 .. l - m : m + i \in 1 .. l
    OBVIOUS
  <2> QED
    BY <1>7, <2>1, <2>2, Zenon
<1>9. /\ saved' \in Seq(Nat) /\ Len(saved') = Len(t) - n
      /\ \A i \in 1 .. Len(t) - n : saved'[i] = t[n + i]
  BY <1>1, <1>3, <1>7, <1>8, WithoutOldest
<1>10. Types' /\ SamplesOK'
  BY <1>1, <1>9 DEF Types, SamplesOK
<1>11. TrackerOK'
  BY <1>1, <1>4 DEF TrackerOK, Running, Saving
<1>12. SavedOK'
  <2>1. \A i, j \in 1 .. Len(t) - n : i < j => saved'[i] < saved'[j]
    <3> SUFFICES ASSUME NEW i \in 1 .. Len(t) - n, NEW j \in 1 .. Len(t) - n, i < j
                 PROVE  saved'[i] < saved'[j]
      OBVIOUS
    <3>1. n + i < n + j
      BY <1>8
    <3> QED
      BY <1>6, <1>8, <1>9, <3>1
  <2>2. \A i \in 1 .. Len(t) - n : saved'[i] <= version
    BY <1>6, <1>8, <1>9
  <2> QED
    BY <1>1, <1>9, <2>1, <2>2 DEF SavedOK, Quiet
<1>13. version \notin Oldest(t, Excess(t))
  <2> SUFFICES ASSUME NEW i \in 1 .. n PROVE t[i] # version
    BY <1>7 DEF Oldest
  <2>1. i \in 1 .. Len(t) /\ Len(t) \in 1 .. Len(t) /\ i < Len(t)
    BY <1>7, <1>8
  <2>2. t[i] < t[Len(t)] /\ t[Len(t)] = version
    BY <1>3, <1>6, <2>1
  <2> QED
    BY <1>4, <1>6, <2>1, <2>2
<1>14. keep # 1 => tracker \notin Oldest(t, Excess(t))
  <2> SUFFICES ASSUME keep # 1, NEW i \in 1 .. n PROVE t[i] # tracker
    BY <1>7 DEF Oldest
  <2>1. /\ i \in 1 .. Len(saved) /\ Len(saved) \in 1 .. Len(saved) /\ i < Len(saved)
    BY <1>2, <1>3, <1>7, <1>8
  <2>2. saved[i] < saved[Len(saved)] /\ saved[Len(saved)] <= lastCkpt /\ t[i] = saved[i]
    BY <1>3, <1>5, <2>1 DEF SavedOK
  <2> QED
    BY <1>2, <1>4, <2>1, <2>2
<1>15. /\ DOMAIN actor' = (DOMAIN actor \cup {version}) \ Oldest(t, Excess(t))
       /\ \A v \in DOMAIN actor' : actor'[v] = IF v = version THEN learned ELSE actor[v]
  BY <1>1 DEF Remove, Write
<1>16. DiskOK'
  <2>1. tracker \in DOMAIN actor' =>
            tracker \in DOMAIN data /\ actor'[tracker] \subseteq 1 .. data[tracker]
    BY <1>4, <1>15 DEF DiskOK
  <2>2. keep # 1 /\ tracker \notin {NoTracker, Torn} => tracker \in DOMAIN actor'
    BY <1>14, <1>15 DEF DiskOK
  <2>3. version \in DOMAIN actor' /\ actor'[version] = learned
    BY <1>13, <1>15
  <2>4. DOMAIN actor' \subseteq Nat \ {0}
    BY <1>4, <1>15 DEF DiskOK
  <2> QED
    BY <1>1, <2>1, <2>2, <2>3, <2>4 DEF DiskOK, Quiet
<1>17. SomeCheckpoint'
  BY <1>13, <1>15 DEF SomeCheckpoint
<1> QED
  BY <1>10, <1>11, <1>12, <1>16, <1>17

\* The data loader is past every sample that was learned.
LEMMA CkptData == ASSUME CkptInv, SaveData PROVE CkptInv'
<1> USE DEF CkptInv
<1>1. /\ pc = "data" /\ pc' = "open" /\ data' = Write(data, version, loader)
      /\ UNCHANGED <<keep, actor, tracker, loader, inflight, lastCkpt, version, learned, saved>>
  BY DEF SaveData, rollouter, memory, progress
<1>2. /\ DOMAIN data' = DOMAIN data \cup {version}
      /\ \A v \in DOMAIN data' : data'[v] = IF v = version THEN loader ELSE data[v]
  BY <1>1 DEF Write
<1>3. Types' /\ SamplesOK'
  BY <1>1, <1>2 DEF Types, SamplesOK
<1>4. TrackerOK' /\ SavedOK' /\ SomeCheckpoint'
  BY <1>1 DEF TrackerOK, SavedOK, SomeCheckpoint, Running, Saving, Quiet
<1>5. tracker # version
  BY <1>1 DEF TrackerOK, Running, Saving, Types
<1>6. DiskOK'
  BY <1>1, <1>2, <1>5 DEF DiskOK, SamplesOK, Quiet, Written
<1> QED
  BY <1>3, <1>4, <1>6

\* An empty tracker names nothing.
LEMMA CkptOpen == ASSUME CkptInv, OpenTracker PROVE CkptInv'
<1> USE DEF CkptInv
<1>1. /\ pc = "open" /\ pc' = "write" /\ tracker' = Torn
      /\ UNCHANGED <<keep, actor, data, loader, inflight, lastCkpt, version, learned, saved>>
  BY DEF OpenTracker, rollouter, memory, progress
<1>2. Types' /\ SamplesOK' /\ TrackerOK' /\ SavedOK'
  BY <1>1 DEF Types, SamplesOK, TrackerOK, SavedOK, Running, Saving, Quiet
<1>3. Torn \notin DOMAIN actor
  BY DEF DiskOK, Torn
<1>4. DiskOK' /\ SomeCheckpoint'
  BY <1>1, <1>3 DEF DiskOK, SomeCheckpoint, Quiet, Written
<1> QED
  BY <1>2, <1>4

\* The tracker names what is complete by now.
LEMMA CkptWrite == ASSUME CkptInv, WriteTracker PROVE CkptInv'
<1> USE DEF CkptInv
<1>1. /\ pc = "write" /\ pc' \in {"ended", "train"} /\ tracker' = version /\ lastCkpt' = version
      /\ UNCHANGED <<keep, actor, data, loader, inflight, version, learned, saved>>
  BY DEF WriteTracker, rollouter, progress
<1>2. Types' /\ SamplesOK'
  BY <1>1 DEF Types, SamplesOK
<1>3. TrackerOK'
  BY <1>1 DEF TrackerOK, Running, Saving, Types
<1>4. SavedOK'
  BY <1>1 DEF SavedOK, Quiet
<1>5. DiskOK' /\ SomeCheckpoint'
  BY <1>1 DEF DiskOK, SomeCheckpoint, Quiet, Written
<1> QED
  BY <1>2, <1>3, <1>4, <1>5

\* A crash loses what is in memory, and nothing on disk.
LEMMA CkptCrash == ASSUME CkptInv, Crash PROVE CkptInv'
<1> USE DEF CkptInv
<1>1. /\ pc' = "down" /\ loader' = 0 /\ inflight' = {} /\ version' = 0 /\ lastCkpt' = 0
      /\ saved' = <<>> /\ learned' = {}
      /\ UNCHANGED <<keep, actor, data, tracker>>
  BY DEF Crash, disk
<1>2. Types' /\ SamplesOK' /\ TrackerOK'
  BY <1>1 DEF Types, SamplesOK, TrackerOK, Running, Saving
<1>3. SavedOK'
  BY <1>1 DEF SavedOK, Quiet
<1>4. DiskOK' /\ SomeCheckpoint'
  BY <1>1 DEF DiskOK, SomeCheckpoint, Quiet, Written
<1> QED
  BY <1>2, <1>3, <1>4

\* A resumed trainer has what is on disk, and a rollouter that is past it.
LEMMA CkptStart == ASSUME CkptInv, Start PROVE CkptInv'
<1> USE DEF CkptInv
<1>1. /\ pc = "down" /\ UNCHANGED <<keep, actor, data, tracker, inflight, saved>>
      /\ inflight = {} /\ learned = {} /\ saved = <<>> /\ version = 0 /\ lastCkpt = 0
  BY DEF Start, disk, SamplesOK
<1>2. Len(saved) = 0
  BY <1>1
<1>3. CASE tracker = NoTracker /\ pc' = "train" /\ UNCHANGED <<version, lastCkpt, learned, loader, steps>>
  <2>1. Types' /\ SamplesOK'
    BY <1>1, <1>3 DEF Types, SamplesOK
  <2>2. TrackerOK' /\ SavedOK'
    BY <1>1, <1>2, <1>3 DEF TrackerOK, SavedOK, Running, Saving, NoTracker
  <2>3. DiskOK' /\ SomeCheckpoint'
    BY <1>1, <1>3 DEF DiskOK, SomeCheckpoint, Quiet, Written
  <2> QED
    BY <2>1, <2>2, <2>3
<1>4. CASE tracker \in DOMAIN actor /\ pc' = "train" /\ Resume(tracker)
  <2>1. /\ tracker \in DOMAIN data /\ actor[tracker] \subseteq 1 .. data[tracker]
        /\ data[tracker] \in Nat /\ tracker \in Nat
    BY <1>4 DEF DiskOK, Types
  <2>2. /\ loader' = data[tracker] /\ learned' = actor[tracker]
        /\ version' = tracker /\ lastCkpt' = tracker
    BY <1>4, <2>1 DEF Resume
  <2>3. Types' /\ SamplesOK'
    BY <1>1, <1>4, <2>1, <2>2 DEF Types, SamplesOK
  <2>4. TrackerOK' /\ SavedOK'
    BY <1>1, <1>2, <1>4, <2>1, <2>2 DEF TrackerOK, SavedOK, Running, Saving
  <2>5. DiskOK' /\ SomeCheckpoint'
    BY <1>1, <1>4 DEF DiskOK, SomeCheckpoint, Quiet, Written
  <2> QED
    BY <2>3, <2>4, <2>5
<1>5. CASE pc' = "stuck" /\ UNCHANGED <<version, lastCkpt, learned, loader, steps>>
  <2>1. Types' /\ SamplesOK'
    BY <1>1, <1>5 DEF Types, SamplesOK
  <2>2. TrackerOK' /\ SavedOK'
    BY <1>1, <1>2, <1>5 DEF TrackerOK, SavedOK, Running, Saving, Quiet
  <2>3. DiskOK' /\ SomeCheckpoint'
    BY <1>1, <1>5 DEF DiskOK, SomeCheckpoint, Quiet, Written
  <2> QED
    BY <2>1, <2>2, <2>3
<1> QED
  BY <1>3, <1>4, <1>5 DEF Start

\* Every step keeps the invariant.
LEMMA CkptNext == ASSUME CkptInv, [Next]_vars PROVE CkptInv'
<1>1. CASE UNCHANGED vars
  BY <1>1 DEF vars, disk, rollouter, memory, progress, CkptInv, Types, SamplesOK, TrackerOK,
              SavedOK, DiskOK, SomeCheckpoint, Running, Saving, Quiet, Written
<1> QED
  BY <1>1, CkptFeed, CkptStep, CkptStop, CkptBegin, CkptEnd, CkptData, CkptOpen, CkptWrite,
     CkptCrash, CkptStart DEF Next, Save

\* At every moment at which the run may be cut off, the checkpoint that the tracker
\* names is whole and consistent, unless one checkpoint only is kept.
THEOREM TrackedIsComplete == Spec => []TrackedComplete
<1>1. Init => CkptInv
  BY CkptInit
<1>2. CkptInv /\ [Next]_vars => CkptInv'
  BY CkptNext
<1>3. CkptInv => TrackedComplete
  BY DEF CkptInv, DiskOK, TrackedComplete
<1> QED
  BY <1>1, <1>2, <1>3, PTL DEF Spec

\* For every retention setting a whole checkpoint is left on disk.
THEOREM OneCheckpointLeft == Spec => []SomeCheckpoint
<1>1. Init => CkptInv
  BY CkptInit
<1>2. CkptInv /\ [Next]_vars => CkptInv'
  BY CkptNext
<1>3. CkptInv => SomeCheckpoint
  BY DEF CkptInv
<1> QED
  BY <1>1, <1>2, <1>3, PTL DEF Spec

\* Through any number of crashes no sample is trained twice into the same weights.
THEOREM NeverTwice == Spec => []NoSampleTwice
<1>1. Init => CkptInv
  BY CkptInit
<1>2. CkptInv /\ [Next]_vars => CkptInv'
  BY CkptNext
<1>3. CkptInv => NoSampleTwice
  BY DEF CkptInv, SamplesOK, NoSampleTwice
<1> QED
  BY <1>1, <1>2, <1>3, PTL DEF Spec

-----------------------------------------------------------------------------
(* What is skipped *)

\* what the data loader has given and H does not hold
Lost(l, H) == (1 .. l) \ H

\* Nothing is lost while a run lasts, but what is dropped at its end.  What a save
\* puts on disk has lost the window that is in flight, and nobody sees it unless
\* there is a crash, which pays for it.
SkipInv ==
    /\ crashes \in Nat /\ Cardinality(inflight) <= Window
    /\ ~Running => loader = 0
    /\ pc \in {"train", "down", "stuck"} => ~ending
    /\ ending => closed /\ inflight = {}
    /\ Cardinality(Lost(loader, learned \cup inflight)) <= Window * crashes + (IF ending THEN R - 1 ELSE 0)
    /\ tracker \in DOMAIN actor =>
          Cardinality(Lost(data[tracker], actor[tracker]))
              <= Window * crashes + (IF pc = "down" THEN 0 ELSE Window)
    /\ pc \in {"open", "write"} =>
          Cardinality(Lost(data[version], learned)) <= Window * crashes + Window

\* what is lost is counted
LEMMA LostFinite == ASSUME NEW l \in Nat, NEW H PROVE IsFiniteSet(Lost(l, H)) /\ Cardinality(Lost(l, H)) \in Nat
<1>1. IsFiniteSet(1 .. l)
  BY FS_Interval
<1> QED
  BY <1>1, FS_Subset, FS_CardinalityType DEF Lost

\* what no longer holds a set I has lost the elements of I at most
LEMMA LostWithout ==
    ASSUME NEW l \in Nat, NEW H, NEW I, IsFiniteSet(I)
    PROVE  Cardinality(Lost(l, H)) <= Cardinality(Lost(l, H \cup I)) + Cardinality(I)
<1>1. IsFiniteSet(Lost(l, H \cup I)) /\ Cardinality(Lost(l, H \cup I)) \in Nat /\ Cardinality(I) \in Nat
  BY LostFinite, FS_CardinalityType
<1>2. IsFiniteSet(Lost(l, H \cup I) \cup I)
      /\ Cardinality(Lost(l, H \cup I) \cup I) <= Cardinality(Lost(l, H \cup I)) + Cardinality(I)
  <2>1. Cardinality(Lost(l, H \cup I) \cap I) \in Nat
    BY <1>1, FS_Intersection, FS_CardinalityType
  <2>2. /\ IsFiniteSet(Lost(l, H \cup I) \cup I)
        /\ Cardinality(Lost(l, H \cup I) \cup I)
              = Cardinality(Lost(l, H \cup I)) + Cardinality(I) - Cardinality(Lost(l, H \cup I) \cap I)
    BY <1>1, FS_Union, Zenon
  <2>3. \A a, b, c \in Nat : a + b - c <= a + b
    OBVIOUS
  <2> QED
    BY <1>1, <2>1, <2>2, <2>3
<1>3. Lost(l, H) \subseteq Lost(l, H \cup I) \cup I
  BY DEF Lost
<1>4. Cardinality(Lost(l, H)) <= Cardinality(Lost(l, H \cup I) \cup I)
  BY <1>2, <1>3, FS_Subset
<1>5. Cardinality(Lost(l, H)) \in Nat /\ Cardinality(Lost(l, H \cup I) \cup I) \in Nat
  BY <1>2, LostFinite, FS_CardinalityType
<1> QED
  BY <1>1, <1>2, <1>4, <1>5

\* the constants, and what a crash adds to the bound
LEMMA WindowPaid ==
    ASSUME crashes \in Nat
    PROVE  /\ Window \in Nat /\ R \in Nat \ {0} /\ Window >= R
           /\ Window * crashes \in Nat /\ Window * (crashes + 1) = Window * crashes + Window
  BY CheckpointAssumption DEF CheckpointAssumption

\* A first run has lost nothing.
LEMMA SkipInit == ASSUME Init PROVE SkipInv
<1>1. /\ crashes = 0 /\ inflight = {} /\ loader = 0 /\ ~ending /\ pc = "train" /\ learned = {}
      /\ DOMAIN actor = {}
  BY DEF Init
<1>2. Lost(loader, learned \cup inflight) = {}
  BY <1>1 DEF Lost
<1> QED
  BY <1>1, <1>2, FS_EmptySet, WindowPaid DEF SkipInv, Running

\* Every step keeps the bound.
LEMMA SkipNext == ASSUME CkptInv, SkipInv, [Next]_vars PROVE SkipInv'
<1> USE DEF SkipInv
<1> DEFINE K == Window * crashes
<1>0. /\ K \in Nat /\ Window \in Nat /\ R \in Nat \ {0} /\ Window >= R
      /\ Window * (crashes + 1) = K + Window
  BY WindowPaid
<1>a. /\ loader \in Nat /\ \A v \in DOMAIN data : data[v] \in Nat
      /\ IsFiniteSet(inflight) /\ Cardinality(inflight) \in Nat
      /\ Cardinality(Lost(loader, learned \cup inflight)) \in Nat
  <2>1. loader \in Nat /\ inflight \subseteq 1 .. loader /\ IsFiniteSet(1 .. loader)
    BY FS_Interval DEF CkptInv, Types, SamplesOK
  <2>2. IsFiniteSet(inflight)
    BY <2>1, FS_Subset
  <2> QED
    BY <2>1, <2>2, FS_CardinalityType, LostFinite DEF CkptInv, Types
<1>b. Saving /\ tracker \in DOMAIN actor => tracker # version
  BY DEF CkptInv, TrackerOK, DiskOK, Types, Saving, Running, Torn
<1>1. CASE Feed
  <2>1. /\ pc \notin {"down", "stuck", "ended"} /\ ~closed /\ Cardinality(inflight) < Window
        /\ loader' = loader + 1 /\ inflight' = inflight \cup {loader + 1}
        /\ UNCHANGED <<actor, data, tracker, pc, version, learned, ending, crashes>>
    BY <1>1 DEF Feed, Room, disk, memory, progress
  <2>2. Lost(loader', learned' \cup inflight') = Lost(loader, learned \cup inflight)
    BY <1>a, <2>1 DEF Lost
  <2>3. Cardinality(inflight') <= Window
    <3>1. Cardinality(inflight') = Cardinality(inflight) \/ Cardinality(inflight') = Cardinality(inflight) + 1
      BY <1>a, <2>1, FS_AddElement
    <3>2. Window \in Nat /\ Cardinality(inflight) < Window
      BY <1>0, <2>1
    <3> QED
      BY <1>a, <3>1, <3>2
  <2> QED
    BY <2>1, <2>2, <2>3 DEF Running
<1>2. CASE Step
  <2>1. /\ pc = "train" /\ pc' \in {"train", "save"}
        /\ UNCHANGED <<actor, data, tracker, loader, closed, ending, crashes>>
    BY <1>2 DEF Step, disk
  <2>2. PICK B \in SUBSET inflight : inflight' = inflight \ B /\ learned' = learned \cup B
    BY <1>2 DEF Step
  <2>3. Lost(loader', learned' \cup inflight') = Lost(loader, learned \cup inflight)
    BY <2>1, <2>2 DEF Lost
  <2>4. Cardinality(inflight') <= Cardinality(inflight) /\ Cardinality(inflight') \in Nat
    BY <1>a, <2>2, FS_Subset, FS_CardinalityType
  <2> QED
    BY <1>0, <1>a, <2>1, <2>3, <2>4 DEF Running
<1>3. CASE Stop
  <2>1. /\ pc = "train" /\ closed /\ Cardinality(inflight) < R /\ inflight' = {} /\ ending'
        /\ pc' \in {"save", "ended"}
        /\ UNCHANGED <<actor, data, tracker, loader, closed, learned, crashes>>
    BY <1>3 DEF Stop, disk, progress
  <2>2. Cardinality(Lost(loader, learned)) <= Cardinality(Lost(loader, learned \cup inflight)) + Cardinality(inflight)
    BY <1>a, LostWithout
  <2>3. Cardinality(Lost(loader, learned)) \in Nat
    BY <1>a, LostFinite
  <2>4. Cardinality(Lost(loader', learned' \cup inflight')) <= K + (R - 1)
    <3>1. Lost(loader', learned' \cup inflight') = Lost(loader, learned)
      BY <2>1
    <3> QED
      BY <1>0, <1>a, <2>1, <2>2, <2>3, <3>1
  <2> QED
    BY <1>0, <2>1, <2>4, FS_EmptySet DEF Running
<1>4. CASE BeginActor
  <2>1. /\ pc = "save" /\ pc' = "actor"
        /\ \A v \in DOMAIN actor' : v \in DOMAIN actor /\ actor'[v] = actor[v]
        /\ UNCHANGED <<data, tracker, loader, inflight, closed, learned, ending, crashes>>
    BY <1>4 DEF BeginActor, Remove, rollouter, progress
  <2> QED
    BY <2>1 DEF Running
<1>5. CASE EndActor
  <2>1. /\ pc = "actor" /\ pc' = "data"
        /\ \A v \in DOMAIN actor' : v # version => v \in DOMAIN actor /\ actor'[v] = actor[v]
        /\ UNCHANGED <<data, tracker, loader, inflight, closed, learned, ending, crashes>>
    BY <1>5 DEF EndActor, Remove, Write, rollouter, progress
  <2>2. tracker # version
    BY <2>1 DEF CkptInv, TrackerOK, Types, Saving, Running
  <2> QED
    BY <2>1, <2>2 DEF Running
<1>6. CASE SaveData
  <2>1. /\ pc = "data" /\ pc' = "open" /\ data' = Write(data, version, loader)
        /\ UNCHANGED <<actor, tracker, loader, inflight, closed, learned, version, ending, crashes>>
    BY <1>6 DEF SaveData, rollouter, memory, progress
  <2>2. tracker # version /\ data'[version] = loader
    BY <2>1 DEF Write, CkptInv, TrackerOK, Types, Saving, Running
  <2>3. tracker \in DOMAIN actor => data'[tracker] = data[tracker]
    BY <2>1, <2>2 DEF Write, CkptInv, DiskOK
  <2>4. Cardinality(Lost(loader, learned)) <= K + Window
    <3>1. Cardinality(Lost(loader, learned)) <= Cardinality(Lost(loader, learned \cup inflight)) + Cardinality(inflight)
      BY <1>a, LostWithout
    <3>2. Cardinality(Lost(loader, learned)) \in Nat
      BY <1>a, LostFinite
    <3>3. CASE ending
      <4>1. Cardinality(inflight) = 0
        BY <3>3, FS_EmptySet
      <4> QED
        BY <1>0, <1>a, <3>1, <3>2, <3>3, <4>1
    <3>4. CASE ~ending
      BY <1>0, <1>a, <3>1, <3>2, <3>4
    <3> QED
      BY <3>3, <3>4
  <2> QED
    BY <2>1, <2>2, <2>3, <2>4 DEF Running
<1>7. CASE OpenTracker
  <2>1. /\ pc = "open" /\ pc' = "write" /\ tracker' = Torn
        /\ UNCHANGED <<actor, data, loader, inflight, closed, learned, version, ending, crashes>>
    BY <1>7 DEF OpenTracker, rollouter, memory, progress
  <2>2. Torn \notin DOMAIN actor
    BY DEF CkptInv, DiskOK, Torn
  <2> QED
    BY <2>1, <2>2 DEF Running
<1>8. CASE WriteTracker
  <2>1. /\ pc = "write" /\ pc' \in {"ended", "train"} /\ tracker' = version
        /\ (pc' = "train" => ~ending) /\ actor[version] = learned
        /\ UNCHANGED <<actor, data, loader, inflight, closed, learned, version, ending, crashes>>
    BY <1>8 DEF WriteTracker, rollouter, progress, CkptInv, DiskOK, Written
  <2> QED
    BY <2>1 DEF Running
<1>9. CASE Crash
  <2>1. /\ Running /\ pc' = "down" /\ loader' = 0 /\ inflight' = {} /\ learned' = {} /\ ~ending'
        /\ crashes' = crashes + 1 /\ UNCHANGED <<actor, data, tracker>>
    BY <1>9 DEF Crash, disk, Running
  <2>2. Lost(loader', learned' \cup inflight') = {}
    BY <2>1 DEF Lost
  <2>3. Window * crashes' = K + Window
    BY <1>0, <2>1
  <2>4. tracker \in DOMAIN actor => Cardinality(Lost(data[tracker], actor[tracker])) <= K + Window
    BY <2>1 DEF Running
  <2>5. Cardinality(inflight') = 0 /\ Cardinality(Lost(loader', learned' \cup inflight')) = 0
    BY <2>1, <2>2, FS_EmptySet
  <2>6. crashes' \in Nat /\ 0 <= Window /\ 0 <= K + Window /\ K + Window + 0 = K + Window
    BY <1>0, <2>1
  <2> QED
    BY <2>1, <2>3, <2>4, <2>5, <2>6 DEF Running
<1>10. CASE Start
  <2>1. /\ pc = "down" /\ inflight = {} /\ learned = {} /\ loader = 0 /\ ~ending
        /\ UNCHANGED <<actor, data, tracker, inflight, closed, ending, crashes>>
    BY <1>10 DEF Start, disk, CkptInv, SamplesOK, Running
  <2>2. CASE tracker \in DOMAIN actor /\ pc' = "train" /\ Resume(tracker)
    <3>1. tracker \in DOMAIN data /\ data[tracker] \in Nat
      BY <1>a, <2>2 DEF CkptInv, DiskOK
    <3>2. learned' \cup inflight' = actor[tracker] /\ loader' = data[tracker]
      BY <2>1, <2>2, <3>1 DEF Resume
    <3>3. Cardinality(Lost(data[tracker], actor[tracker])) <= K
          /\ Cardinality(Lost(data[tracker], actor[tracker])) \in Nat
      BY <1>0, <2>1, <2>2, <3>1, LostFinite
    <3> QED
      BY <1>0, <2>1, <2>2, <3>2, <3>3 DEF Running
  <2>3. CASE pc' \in {"train", "stuck"} /\ UNCHANGED <<learned, loader>>
    <3>1. tracker \in DOMAIN actor => Cardinality(Lost(data[tracker], actor[tracker])) <= K + Window
      <4> SUFFICES ASSUME tracker \in DOMAIN actor PROVE Cardinality(Lost(data[tracker], actor[tracker])) <= K + Window
        OBVIOUS
      <4>1. Cardinality(Lost(data[tracker], actor[tracker])) \in Nat
        BY <1>a, LostFinite DEF CkptInv, DiskOK
      <4>2. Cardinality(Lost(data[tracker], actor[tracker])) <= K
        BY <1>0, <2>1
      <4> QED
        BY <1>0, <4>1, <4>2
    <3> QED
      BY <2>1, <2>3, <3>1 DEF Running
  <2> QED
    BY <1>10, <2>2, <2>3 DEF Start
<1>11. CASE UNCHANGED vars
  BY <1>11 DEF vars, disk, rollouter, memory, progress, Running
<1> QED
  BY <1>1, <1>2, <1>3, <1>4, <1>5, <1>6, <1>7, <1>8, <1>9, <1>10, <1>11 DEF Next, Save

\* Every resumption skips a window of samples at most, the end of a run less than a
\* batch, and nothing else is ever skipped.
THEOREM SkipsAWindow == Spec => []SkippedBound
<1>1. Init => CkptInv /\ SkipInv
  BY CkptInit, SkipInit
<1>2. CkptInv /\ SkipInv /\ [Next]_vars => (CkptInv /\ SkipInv)'
  BY CkptNext, SkipNext
<1>3. CkptInv /\ SkipInv => SkippedBound
  <2> SUFFICES ASSUME CkptInv, SkipInv PROVE SkippedBound
    OBVIOUS
  <2>1. Cardinality(Lost(loader, learned \cup inflight)) \in Nat
    BY LostFinite DEF CkptInv, Types
  <2> QED
    BY <2>1, WindowPaid DEF SkipInv, SkippedBound, Lost
<1> QED
  BY <1>1, <1>2, <1>3, PTL DEF Spec

-----------------------------------------------------------------------------
(* What a version is *)

\* a set of samples of a size between two bounds
Counts(S, least, more) ==
    IsFiniteSet(S) /\ least <= Cardinality(S) /\ Cardinality(S) <= least + more

\* A version in memory may have the local steps of one early save for every crash
\* there was; a version on disk those of its own early save too, which the crash
\* after which it is used pays for.
LabelInv ==
    /\ crashes \in Nat /\ local \in 1 .. T
    /\ ~Running => learned = {} /\ version = 0 /\ local = 1
    /\ Counts(learned, R * T * version + R * (local - 1), crashes * (R * (T - 1)))
    /\ \A v \in DOMAIN actor :
          Counts(actor[v], R * T * v, (crashes + (IF pc = "down" THEN 0 ELSE 1)) * (R * (T - 1)))

\* batches, and the local steps of a version
LEMMA Batches ==
    /\ R \in Nat \ {0} /\ T \in Nat \ {0} /\ R * T \in Nat \ {0} /\ R * (T - 1) \in Nat
    /\ \A l \in 1 .. T : R * (l - 1) \in Nat /\ R * (l - 1) <= R * (T - 1)
                         /\ R * ((l + 1) - 1) = R * (l - 1) + R
    /\ \A v \in Nat : R * T * v \in Nat /\ R * T * (v + 1) = R * T * v + R * (T - 1) + R
                      /\ R * T * v = v * R * T
    /\ R * (1 - 1) = 0 /\ R * T * 0 = 0
<1>1. R \in Nat \ {0} /\ T \in Nat \ {0}
  BY CheckpointAssumption DEF CheckpointAssumption
<1>2. \A a, b \in Nat \ {0} : a * b \in Nat \ {0} /\ a * (b - 1) \in Nat /\ a * b = a * (b - 1) + a
  OBVIOUS
<1>3. \A a, b \in Nat \ {0} : \A l \in 1 .. b :
         a * (l - 1) \in Nat /\ a * (l - 1) <= a * (b - 1) /\ a * ((l + 1) - 1) = a * (l - 1) + a
  OBVIOUS
<1>4. \A a \in Nat \ {0} : \A v \in Nat : a * v \in Nat /\ a * (v + 1) = a * v + a
  OBVIOUS
<1>5. \A a, b \in Nat \ {0} : \A v \in Nat : a * b * v = v * a * b
  OBVIOUS
<1>6. \A a \in Nat : a * (1 - 1) = 0 /\ a * 0 = 0
  OBVIOUS
<1> QED
  BY <1>1, <1>2, <1>3, <1>4, <1>5, <1>6

\* what one crash more allows
LEMMA Slack ==
    ASSUME NEW c \in Nat
    PROVE  /\ c * (R * (T - 1)) \in Nat
           /\ (c + 1) * (R * (T - 1)) = c * (R * (T - 1)) + R * (T - 1)
           /\ c * R * (T - 1) = c * (R * (T - 1))
           /\ (c + 0) * (R * (T - 1)) = c * (R * (T - 1))
<1>1. \A m \in Nat : c * m \in Nat /\ (c + 1) * m = c * m + m /\ (c + 0) * m = c * m
  OBVIOUS
<1>2. \A a, b \in Nat : c * a * b = c * (a * b)
  OBVIOUS
<1>3. R \in Nat /\ T - 1 \in Nat
  BY Batches
<1> QED
  BY <1>1, <1>2, <1>3, Batches

\* what _fit_update_local_step counts: one batch more
LEMMA AdvanceCounts ==
    ASSUME version \in Nat, local \in 1 .. T, Advance
    PROVE  /\ local' \in 1 .. T
           /\ R * T * version' + R * (local' - 1) = R * T * version + R * (local - 1) + R
<1>1. R * T * version \in Nat /\ R \in Nat /\ R * (local - 1) \in Nat
  BY Batches
<1>2. \A p, l, r \in Nat : p + (l + r) = p + l + r /\ p + l + r + 0 = p + l + r
  OBVIOUS
<1>3. CASE local < T
  <2>1. local' = local + 1 /\ version' = version /\ local' \in 1 .. T
    BY <1>3, Batches DEF Advance
  <2>2. R * (local' - 1) = R * (local - 1) + R
    BY <2>1, Batches
  <2>3. R * T * version + (R * (local - 1) + R) = R * T * version + R * (local - 1) + R
    BY <1>1, <1>2
  <2> QED
    BY <2>1, <2>2, <2>3
<1>4. CASE ~(local < T)
  <2>1. local' = 1 /\ version' = version + 1 /\ local = T /\ 1 \in 1 .. T
    BY <1>4, Batches DEF Advance
  <2>2. R * T * version' = R * T * version + R * (T - 1) + R /\ R * (local' - 1) = 0
    BY <2>1, Batches
  <2>3. R * T * version + R * (local - 1) + R + 0 = R * T * version + R * (local - 1) + R
    BY <1>1, <1>2
  <2> QED
    BY <2>1, <2>2, <2>3
<1> QED
  BY <1>3, <1>4

\* A first run has learned nothing.
LEMMA LabelInit == ASSUME Init PROVE LabelInv
<1>1. /\ crashes = 0 /\ local = 1 /\ version = 0 /\ learned = {} /\ DOMAIN actor = {} /\ pc = "train"
  BY DEF Init
<1>2. R * T * version + R * (local - 1) = 0 /\ 0 * (R * (T - 1)) = 0 /\ 1 \in 1 .. T
  BY <1>1, Batches
<1> QED
  BY <1>1, <1>2, FS_EmptySet DEF LabelInv, Counts, Running

\* a batch of samples that are new
LEMMA BatchCounts ==
    ASSUME NEW S, NEW B, IsFiniteSet(S), IsFiniteSet(B), S \cap B = {}, Cardinality(B) = R,
           NEW a \in Nat, NEW m \in Nat, Counts(S, a, m)
    PROVE  Counts(S \cup B, a + R, m)
<1>1. Cardinality(S) \in Nat /\ R \in Nat
  BY FS_CardinalityType, Batches
<1>2. IsFiniteSet(S \cup B) /\ Cardinality(S \cup B) = Cardinality(S) + R - Cardinality({})
  BY FS_Union
<1>3. Cardinality(S \cup B) = Cardinality(S) + R
  BY <1>1, <1>2, FS_EmptySet
<1> QED
  BY <1>1, <1>2, <1>3 DEF Counts

\* a bound that grows is still a bound
LEMMA CountsMore ==
    ASSUME NEW S, NEW a \in Nat, NEW m \in Nat, NEW n \in Nat, m <= n, Counts(S, a, m)
    PROVE  Counts(S, a, n)
<1>1. Cardinality(S) \in Nat
  BY FS_CardinalityType DEF Counts
<1> QED
  BY <1>1 DEF Counts

\* Every step keeps the count.
LEMMA LabelNext == ASSUME CkptInv, LabelInv, [Next]_vars PROVE LabelInv'
<1> USE DEF LabelInv
<1> DEFINE P(v) == R * T * v
           Q == R * (T - 1)
<1>0. /\ version \in Nat /\ crashes \in Nat /\ DOMAIN actor \subseteq Nat
      /\ \A v \in Nat : P(v) \in Nat
      /\ Q \in Nat /\ crashes * Q \in Nat /\ (crashes + 1) * Q = crashes * Q + Q
      /\ (crashes + 0) * Q = crashes * Q
  BY Batches, Slack DEF CkptInv, Types, DiskOK
<1>1. CASE Feed
  BY <1>1 DEF Feed, disk, memory, progress, Running
<1>2. CASE Step
  <2>1. /\ pc = "train" /\ pc' \in {"train", "save"} /\ UNCHANGED <<actor, crashes>> /\ Advance
    BY <1>2 DEF Step, disk
  <2>2. PICK B \in SUBSET inflight : Cardinality(B) = R /\ learned' = learned \cup B
    BY <1>2 DEF Step
  <2>3. IsFiniteSet(B) /\ IsFiniteSet(learned) /\ learned \cap B = {}
    <3>1. inflight \subseteq 1 .. loader /\ learned \subseteq 1 .. loader /\ learned \cap inflight = {}
          /\ loader \in Nat
      BY DEF CkptInv, SamplesOK, Types
    <3>2. IsFiniteSet(1 .. loader)
      BY <3>1, FS_Interval
    <3> QED
      BY <2>2, <3>1, <3>2, FS_Subset
  <2>4. P(version) + R * (local - 1) \in Nat /\ R \in Nat
    BY <1>0, Batches
  <2>5. Counts(learned', P(version) + R * (local - 1) + R, crashes * Q)
    BY <1>0, <2>2, <2>3, <2>4, BatchCounts
  <2>6. /\ local' \in 1 .. T
        /\ P(version') + R * (local' - 1) = P(version) + R * (local - 1) + R
    BY <1>0, <2>1, AdvanceCounts
  <2> QED
    BY <2>1, <2>5, <2>6 DEF Running
<1>3. CASE Stop
  BY <1>3 DEF Stop, disk, progress, Running
<1>4. CASE BeginActor
  BY <1>4 DEF BeginActor, Remove, progress, Running
<1>5. CASE EndActor
  <2>1. /\ pc = "actor" /\ pc' = "data" /\ UNCHANGED <<version, local, learned, crashes>>
        /\ \A v \in DOMAIN actor' :
              \/ v = version /\ actor'[v] = learned
              \/ v \in DOMAIN actor /\ actor'[v] = actor[v]
    BY <1>5 DEF EndActor, Remove, Write, progress
  <2>2. Counts(learned, P(version), (crashes + 1) * Q)
    <3>1. R * (local - 1) \in Nat /\ R * (local - 1) <= Q
      BY Batches
    <3>2. IsFiniteSet(learned) /\ Cardinality(learned) \in Nat
      BY FS_CardinalityType DEF Counts
    <3>3. P(version) \in Nat /\ P(version) + R * (local - 1) <= Cardinality(learned)
          /\ Cardinality(learned) <= P(version) + R * (local - 1) + crashes * Q
      BY <1>0 DEF Counts
    <3>4. \A p, l, q, c, k \in Nat :
             p + l <= k /\ k <= p + l + c /\ l <= q => p <= k /\ k <= p + (c + q)
      OBVIOUS
    <3>5. P(version) <= Cardinality(learned)
          /\ Cardinality(learned) <= P(version) + (crashes * Q + Q)
      <4>1. P(version) \in Nat /\ Q \in Nat /\ crashes * Q \in Nat
        BY <1>0
      <4> HIDE DEF P, Q
      <4> QED
        BY <3>1, <3>2, <3>3, <3>4, <4>1
    <3> QED
      BY <1>0, <3>2, <3>5 DEF Counts
  <2> QED
    BY <2>1, <2>2 DEF Running
<1>6. CASE SaveData
  BY <1>6 DEF SaveData, memory, progress, Running
<1>7. CASE OpenTracker
  BY <1>7 DEF OpenTracker, memory, progress, Running
<1>8. CASE WriteTracker
  BY <1>8 DEF WriteTracker, progress, Running
<1>9. CASE Crash
  <2>1. /\ Running /\ pc # "down" /\ pc' = "down" /\ learned' = {} /\ version' = 0 /\ local' = 1
        /\ crashes' = crashes + 1 /\ actor' = actor
    BY <1>9 DEF Crash, disk, Running
  <2>2. P(0) + R * (1 - 1) = 0 /\ (crashes + 1) * Q \in Nat /\ crashes + 1 \in Nat /\ 1 \in 1 .. T
    BY <1>0, Batches
  <2>3. Counts({}, P(0) + R * (1 - 1), (crashes + 1) * Q)
    BY <2>2, FS_EmptySet DEF Counts
  <2>4. (crashes + 1) + 0 = crashes + 1
    BY <1>0
  <2> QED
    BY <2>1, <2>2, <2>3, <2>4 DEF Running
<1>10. CASE Start
  <2>1. /\ pc = "down" /\ learned = {} /\ version = 0 /\ local = 1
        /\ UNCHANGED <<actor, tracker, local, crashes>>
    BY <1>10 DEF Start, disk, Running
  <2>2. \A v \in DOMAIN actor : Counts(actor[v], P(v), crashes * Q) /\ Counts(actor[v], P(v), (crashes + 1) * Q)
    <3> SUFFICES ASSUME NEW v \in DOMAIN actor
                 PROVE  Counts(actor[v], P(v), crashes * Q) /\ Counts(actor[v], P(v), (crashes + 1) * Q)
      OBVIOUS
    <3>1. Counts(actor[v], P(v), crashes * Q) /\ P(v) \in Nat
      BY <1>0, <2>1
    <3>2. crashes * Q <= (crashes + 1) * Q /\ (crashes + 1) * Q \in Nat
      BY <1>0
    <3> QED
      BY <1>0, <3>1, <3>2, CountsMore
  <2>3. CASE tracker \in DOMAIN actor /\ pc' = "train" /\ Resume(tracker)
    <3>1. version' = tracker /\ learned' = actor[tracker] /\ local' = 1
      BY <2>1, <2>3 DEF Resume
    <3>2. P(tracker) + R * (1 - 1) = P(tracker)
      BY <1>0, <2>3, Batches
    <3> QED
      BY <2>1, <2>2, <2>3, <3>1, <3>2 DEF Running
  <2>4. CASE pc' \in {"train", "stuck"} /\ UNCHANGED <<learned, version>>
    BY <2>1, <2>2, <2>4 DEF Running
  <2> QED
    BY <1>10, <2>3, <2>4 DEF Start
<1>11. CASE UNCHANGED vars
  BY <1>11 DEF vars, disk, memory, progress, Running
<1> QED
  BY <1>1, <1>2, <1>3, <1>4, <1>5, <1>6, <1>7, <1>8, <1>9, <1>10, <1>11 DEF Next, Save

\* A version is what its number says, in memory and on disk, but for the local steps
\* of early saves that training was resumed from.
THEOREM LabelsAreHonest == Spec => []LabelHonest
<1>1. Init => CkptInv /\ LabelInv
  BY CkptInit, LabelInit
<1>2. CkptInv /\ LabelInv /\ [Next]_vars => (CkptInv /\ LabelInv)'
  BY CkptNext, LabelNext
<1>3. LabelInv => LabelHonest
  BY Slack DEF LabelInv, LabelHonest, Counts
<1> QED
  BY <1>1, <1>2, <1>3, PTL DEF Spec

-----------------------------------------------------------------------------
(* The length of a run *)

\* the batches of version v are not more than n samples
Fed(v, n) == v \in Nat /\ R * T * v <= n

\* What was trained and what is in flight was counted by the feeder, and what is on
\* disk leaves room for the sample that is put before the count is tested again.
FedInv ==
    /\ keep \in Keeps /\ closed \in BOOLEAN /\ ending \in BOOLEAN
    /\ crashes \in 0 .. MaxCrashes /\ steps \in 1 .. N + crashes
    /\ ~Running => ~closed
    /\ Running => R * T * version + R * (local - 1) + Cardinality(inflight)
                     <= (IF closed THEN steps ELSE steps - 1)
    /\ \A v \in DOMAIN actor : Fed(v, N + crashes) /\ (pc = "down" => Fed(v, N + crashes - 1))
    /\ \A v \in DOMAIN actor : actor[v] \subseteq Nat
    /\ \A v \in DOMAIN data : Fed(v, N + crashes) /\ v # 0
    /\ tracker = Torn \/ Fed(tracker, N + crashes)
    /\ \A i \in 1 .. Len(saved) : Fed(saved[i], N + crashes)

\* a bound that grows is still a bound, and older versions need less
LEMMA FedMore ==
    ASSUME NEW n \in Int, NEW m \in Int, n <= m, NEW v, Fed(v, n)
    PROVE  Fed(v, m) /\ \A u \in Nat : u <= v => Fed(u, m)
<1>1. \A k \in Nat \ {0} : \A u, w \in Nat : u <= w => k * u <= k * w /\ k * u \in Nat /\ k * w \in Nat
  OBVIOUS
<1>2. v \in Nat /\ R * T \in Nat \ {0} /\ R * T * v <= n /\ R * T * v \in Nat
  BY Batches DEF Fed
<1>3. R * T * v <= m
  BY <1>2
<1>4. ASSUME NEW u \in Nat, u <= v PROVE Fed(u, m)
  <2>1. R * T * u <= R * T * v /\ R * T * u \in Nat
    BY <1>1, <1>2, <1>4
  <2> QED
    BY <1>2, <1>3, <2>1 DEF Fed
<1> QED
  BY <1>2, <1>3, <1>4 DEF Fed

\* the constants, and the counter of the feeder
LEMMA FedTypes ==
    ASSUME FedInv
    PROVE  /\ N \in Nat \ {0} /\ MaxCrashes \in Nat /\ crashes \in Nat /\ steps \in Nat
           /\ N + crashes \in Nat /\ steps <= N + crashes
  BY CheckpointAssumption DEF CheckpointAssumption, FedInv

\* the version in memory can be saved
LEMMA VersionFed ==
    ASSUME CkptInv, LabelInv, FedInv
    PROVE  Fed(version, N + crashes) /\ Fed(lastCkpt, N + crashes)
<1>1. version \in Nat /\ lastCkpt \in Nat /\ lastCkpt <= version /\ N + crashes \in Nat
  BY FedTypes DEF CkptInv, Types, TrackerOK
<1>2. R * T * version \in Nat /\ R * (local - 1) \in Nat
  BY <1>1, Batches DEF LabelInv
<1>3. Cardinality(inflight) \in Nat
  <2>1. inflight \subseteq 1 .. loader /\ loader \in Nat
    BY DEF CkptInv, SamplesOK, Types
  <2>2. IsFiniteSet(1 .. loader)
    BY <2>1, FS_Interval
  <2> QED
    BY <2>1, <2>2, FS_Subset, FS_CardinalityType
<1>4. R * T * version <= N + crashes
  <2>1. CASE Running
    <3>1. R * T * version + R * (local - 1) + Cardinality(inflight) <= steps
      <4>1. \A x, y \in Int : x <= y - 1 => x <= y
        OBVIOUS
      <4>2. R * T * version + R * (local - 1) + Cardinality(inflight) \in Int
        BY <1>2, <1>3
      <4> QED
        BY <2>1, <4>1, <4>2, FedTypes DEF FedInv
    <3>2. \A a, b, c, k, n \in Nat : a + b + c <= k /\ k <= n => a <= n
      OBVIOUS
    <3> QED
      BY <1>1, <1>2, <1>3, <3>1, <3>2, FedTypes
  <2>2. CASE ~Running
    <3>1. R * T * version = 0
      BY <2>2, Batches DEF LabelInv
    <3> QED
      BY <1>1, <3>1
  <2> QED
    BY <2>1, <2>2
<1>5. Fed(version, N + crashes)
  BY <1>1, <1>4 DEF Fed
<1> QED
  BY <1>1, <1>5, FedMore

\* A first run has fed nothing.
LEMMA FedInit == ASSUME Init PROVE FedInv
<1>1. /\ keep \in Keeps /\ ~closed /\ closed = FALSE /\ ending = FALSE /\ crashes = 0 /\ steps = 1
      /\ version = 0 /\ local = 1 /\ inflight = {} /\ pc = "train" /\ Len(saved) = 0
      /\ DOMAIN actor = {} /\ DOMAIN data = {} /\ tracker = 0
  BY DEF Init, NoTracker
<1>2. N \in Nat \ {0} /\ MaxCrashes \in Nat
  BY CheckpointAssumption DEF CheckpointAssumption
<1>3. R * T * 0 = 0 /\ R * (1 - 1) = 0 /\ Cardinality({}) = 0
  BY Batches, FS_EmptySet
<1>4. Fed(0, N + 0)
  BY <1>2, <1>3 DEF Fed
<1>5. steps \in 1 .. N + crashes /\ crashes \in 0 .. MaxCrashes
  BY <1>1, <1>2
<1>6. R * T * version + R * (local - 1) + Cardinality(inflight) <= steps - 1
  <2>1. R * T * version = 0 /\ R * (local - 1) = 0 /\ Cardinality(inflight) = 0 /\ steps - 1 = 0
    BY <1>1, <1>3
  <2> QED
    BY <2>1
<1>7. \A i \in 1 .. Len(saved) : Fed(saved[i], N + crashes)
  BY <1>1
<1>8. tracker = Torn \/ Fed(tracker, N + crashes)
  BY <1>1, <1>4
<1>9. R * T * version + R * (local - 1) + Cardinality(inflight) <= (IF closed THEN steps ELSE steps - 1)
  BY <1>1, <1>6
<1>10. keep \in Keeps /\ closed \in BOOLEAN /\ ending \in BOOLEAN /\ (~Running => ~closed)
  BY <1>1 DEF Running
<1> QED
  BY <1>1, <1>5, <1>7, <1>8, <1>9, <1>10 DEF FedInv

\* Every step keeps it.
LEMMA FedNext == ASSUME CkptInv, LabelInv, FedInv, [Next]_vars PROVE FedInv'
<1> DEFINE U == R * T * version + R * (local - 1)
           C == Cardinality(inflight)
           M == N + crashes
<1>0. /\ N \in Nat \ {0} /\ crashes \in Nat /\ M \in Nat /\ steps \in 1 .. M /\ crashes \in 0 .. MaxCrashes
      /\ version \in Nat /\ Fed(version, M) /\ Fed(lastCkpt, M)
  BY FedTypes, VersionFed DEF CkptInv, Types, FedInv
<1>a. IsFiniteSet(inflight) /\ C \in Nat /\ U \in Nat /\ R \in Nat
  <2>1. inflight \subseteq 1 .. loader /\ loader \in Nat
    BY DEF CkptInv, SamplesOK, Types
  <2>2. IsFiniteSet(1 .. loader)
    BY <2>1, FS_Interval
  <2>3. R * T * version \in Nat /\ R * (local - 1) \in Nat /\ R \in Nat
    BY <1>0, Batches DEF LabelInv
  <2>4. IsFiniteSet(inflight) /\ C \in Nat
    BY <2>1, <2>2, FS_Subset, FS_CardinalityType
  <2> QED
    BY <2>3, <2>4
<1>b. Running => U + C <= (IF closed THEN steps ELSE steps - 1)
  BY DEF FedInv
<1>1. CASE Feed
  <2>1. /\ Running /\ ~closed /\ inflight' = inflight \cup {loader + 1}
        /\ UNCHANGED <<keep, actor, data, tracker, pc, version, local, saved, ending, crashes>>
    BY <1>1 DEF Feed, disk, memory, progress, Running
  <2>0. /\ (closed' <=> steps >= N) /\ closed' \in BOOLEAN
        /\ steps' = IF steps >= N THEN steps ELSE steps + 1
    <3>1. closed' = (steps >= N)
      BY <1>1 DEF Feed, AtEnd
    <3>2. steps' = IF steps >= N THEN steps ELSE steps + 1
      BY <1>1 DEF Feed, AtEnd
    <3>3. closed' <=> steps >= N
      BY <3>1
    <3>4. closed' \in BOOLEAN
      BY <3>1
    <3> QED
      BY <3>2, <3>3, <3>4
  <2>2. C' = C \/ C' = C + 1
    BY <1>a, <2>1, FS_AddElement
  <2>3. U + C <= steps - 1 /\ U' = U
    BY <1>b, <2>1
  <2>4. steps' \in 1 .. M /\ U + C' <= (IF closed' THEN steps' ELSE steps' - 1)
    <3> HIDE DEF U, C, M
    <3>1. CASE steps >= N
      BY <1>0, <1>a, <2>0, <2>2, <2>3, <3>1
    <3>2. CASE ~(steps >= N)
      <4>1. steps < N /\ N <= M /\ steps' = steps + 1 /\ ~closed'
        BY <1>0, <2>0, <3>2 DEF M
      <4> QED
        BY <1>0, <1>a, <2>2, <2>3, <4>1
    <3> QED
      BY <3>1, <3>2
  <2> QED
    BY <2>0, <2>1, <2>3, <2>4 DEF FedInv, Running
<1>2. CASE Step
  <2>1. /\ pc = "train" /\ pc' \in {"train", "save"} /\ Advance
        /\ UNCHANGED <<keep, actor, data, tracker, steps, closed, saved, ending, crashes>>
    BY <1>2 DEF Step, disk
  <2>2. PICK B \in SUBSET inflight : Cardinality(B) = R /\ inflight' = inflight \ B
    BY <1>2 DEF Step
  <2>3. C' = C - R /\ C' \in Nat
    <3>1. inflight \cap B = B
      BY <2>2
    <3> QED
      BY <1>a, <2>2, <3>1, FS_Difference, FS_CardinalityType
  <2>4. U' = U + R
    BY <1>0, <2>1, AdvanceCounts DEF LabelInv
  <2>5. U' + C' = U + C
    <3> HIDE DEF U, C
    <3> QED
      BY <1>a, <2>3, <2>4
  <2>6. U' + C' <= (IF closed' THEN steps' ELSE steps' - 1)
    BY <1>b, <2>1, <2>5 DEF Running
  <2> QED
    BY <2>1, <2>6 DEF FedInv, Running
<1>3. CASE Stop
  <2>1. /\ pc = "train" /\ pc' \in {"save", "ended"} /\ inflight' = {} /\ ending' \in BOOLEAN
        /\ UNCHANGED <<keep, actor, data, tracker, steps, closed, version, local, saved, crashes>>
    BY <1>3 DEF Stop, disk, progress
  <2>2. C' = 0 /\ U' = U
    BY <2>1, FS_EmptySet
  <2>3. U' + C' <= (IF closed THEN steps ELSE steps - 1)
    <3>1. U + C <= (IF closed THEN steps ELSE steps - 1)
      BY <1>b, <2>1 DEF Running
    <3> HIDE DEF U, C
    <3> QED
      BY <1>0, <1>a, <2>2, <3>1
  <2> QED
    BY <2>1, <2>3 DEF FedInv, Running
<1>4. CASE BeginActor
  <2>1. /\ pc = "save" /\ pc' = "actor" /\ saved' = Without(saved, Surplus)
        /\ \A v \in DOMAIN actor' : v \in DOMAIN actor /\ actor'[v] = actor[v]
        /\ UNCHANGED <<keep, data, tracker, steps, closed, inflight, version, local, ending, crashes>>
    BY <1>4 DEF BeginActor, Remove, rollouter, progress
  <2>2. saved \in Seq(Nat) /\ Surplus \in 0 .. Len(saved) /\ Len(saved) \in Nat
    BY SurplusLeaves, LenProperties DEF CkptInv, Types
  <2>3. /\ Len(saved') = Len(saved) - Surplus
        /\ \A i \in 1 .. Len(saved) - Surplus : saved'[i] = saved[Surplus + i]
    BY <2>1, <2>2, WithoutOldest
  <2>5. \A i \in 1 .. Len(saved) - Surplus : Surplus + i \in 1 .. Len(saved)
    BY <2>2
  <2>4. \A i \in 1 .. Len(saved') : Fed(saved'[i], M)
    BY <2>3, <2>5 DEF FedInv
  <2> QED
    BY <2>1, <2>4 DEF FedInv, Running
<1>5. CASE EndActor
  <2> DEFINE t == Append(saved, version)
  <2>1. /\ pc = "actor" /\ pc' = "data" /\ saved' = Without(t, Excess(t))
        /\ \A v \in DOMAIN actor' :
              \/ v = version /\ actor'[v] = learned
              \/ v \in DOMAIN actor /\ actor'[v] = actor[v]
        /\ UNCHANGED <<keep, data, tracker, steps, closed, inflight, version, local, ending, crashes>>
    BY <1>5 DEF EndActor, Remove, Write, rollouter, progress
  <2>2. saved \in Seq(Nat) /\ Len(saved) \in Nat
    BY LenProperties DEF CkptInv, Types
  <2>3. /\ t \in Seq(Nat) /\ Len(t) = Len(saved) + 1 /\ t # <<>>
        /\ \A i \in 1 .. Len(saved) : t[i] = saved[i]
        /\ t[Len(t)] = version
    BY <1>0, <2>2, AppendProperties
  <2>4. \A i \in 1 .. Len(t) : Fed(t[i], M)
    <3>1. \A i \in 1 .. Len(t) : i \in 1 .. Len(saved) \/ i = Len(t)
      BY <2>2, <2>3
    <3> QED
      BY <1>0, <2>3, <3>1 DEF FedInv
  <2> HIDE DEF t
  <2>5. Excess(t) \in 0 .. Len(t) /\ Len(t) \in Nat
    <3>1. Excess(t) \in 0 .. Len(t) - 1 /\ Len(t) \in Nat
      BY <2>2, <2>3, ExcessLeaves DEF CkptInv
    <3> QED
      BY <3>1
  <2>6. /\ Len(saved') = Len(t) - Excess(t)
        /\ \A i \in 1 .. Len(t) - Excess(t) : saved'[i] = t[Excess(t) + i]
    BY <2>1, <2>3, <2>5, WithoutOldest
  <2>7. \A i \in 1 .. Len(saved') : Fed(saved'[i], M)
    <3>1. \A i \in 1 .. Len(t) - Excess(t) : Excess(t) + i \in 1 .. Len(t)
      BY <2>5
    <3> QED
      BY <2>4, <2>6, <3>1
  <2>8. learned \subseteq Nat
    BY DEF CkptInv, SamplesOK
  <2>9. \A v \in DOMAIN actor' : Fed(v, M) /\ actor'[v] \subseteq Nat
    BY <1>0, <2>1, <2>8 DEF FedInv
  <2> QED
    BY <2>1, <2>7, <2>9 DEF FedInv, Running
<1>6. CASE SaveData
  <2>1. /\ pc = "data" /\ pc' = "open" /\ DOMAIN data' = DOMAIN data \cup {version}
        /\ UNCHANGED <<keep, actor, tracker, steps, closed, inflight, version, local, saved, ending, crashes>>
    BY <1>6 DEF SaveData, Write, rollouter, memory, progress
  <2>2. version # 0
    BY <1>0, <2>1 DEF CkptInv, Types, TrackerOK, Saving
  <2> QED
    BY <1>0, <2>1, <2>2 DEF FedInv, Running
<1>7. CASE OpenTracker
  BY <1>7 DEF OpenTracker, rollouter, memory, progress, FedInv, Running
<1>8. CASE WriteTracker
  <2>1. /\ pc = "write" /\ pc' \in {"ended", "train"} /\ tracker' = version
        /\ UNCHANGED <<keep, actor, data, steps, closed, inflight, version, local, saved, ending, crashes>>
    BY <1>8 DEF WriteTracker, rollouter, progress
  <2> QED
    BY <1>0, <2>1 DEF FedInv, Running
<1>9. CASE Crash
  <2>1. /\ Running /\ pc # "down" /\ pc' = "down" /\ ~closed' /\ closed' \in BOOLEAN /\ ending' \in BOOLEAN
        /\ crashes < MaxCrashes /\ crashes' = crashes + 1 /\ steps' = 1 /\ Len(saved') = 0
        /\ UNCHANGED <<keep, actor, data, tracker>>
    BY <1>9 DEF Crash, disk, Running
  <2>2. /\ M <= M' /\ M <= M' - 1 /\ M \in Int /\ M' \in Int /\ M' - 1 \in Int
        /\ crashes' \in 0 .. MaxCrashes /\ steps' \in 1 .. M'
    BY <1>0, <2>1, FedTypes
  <2>3. \A v \in DOMAIN actor : Fed(v, M') /\ Fed(v, M' - 1)
    BY <2>2, FedMore DEF FedInv
  <2>4. /\ \A v \in DOMAIN data : Fed(v, M') /\ v # 0
        /\ tracker = Torn \/ Fed(tracker, M')
    BY <2>2, FedMore DEF FedInv
  <2>5. keep' \in Keeps /\ \A v \in DOMAIN actor : actor[v] \subseteq Nat
    BY <2>1 DEF FedInv
  <2> HIDE DEF M
  <2>6. M' = N + crashes'
    BY DEF M
  <2> QED
    BY <2>1, <2>2, <2>3, <2>4, <2>5, <2>6 DEF FedInv, Running
<1>10. CASE Start
  <2>1. /\ pc = "down" /\ version = 0 /\ local = 1 /\ inflight = {} /\ ~closed
        /\ UNCHANGED <<keep, actor, data, tracker, inflight, closed, local, saved, ending, crashes>>
    BY <1>10 DEF Start, disk, CkptInv, SamplesOK, LabelInv, FedInv, Running
  <2>2. C' = 0 /\ R * (local' - 1) = 0 /\ R * T * 0 = 0
    BY <2>1, Batches, FS_EmptySet
  <2>3. \A v \in DOMAIN actor : Fed(v, N + crashes - 1)
    <3>1. \A v \in DOMAIN actor : pc = "down" => Fed(v, N + crashes - 1)
      BY DEF FedInv
    <3>2. pc = "down"
      BY <2>1
    <3> QED
      BY <3>1, <3>2
  <2>4. CASE tracker \in DOMAIN actor /\ pc' = "train" /\ Resume(tracker)
    <3>1. tracker \in Nat /\ R * T * tracker <= N + crashes - 1 /\ R * T * tracker \in Nat
      BY <2>3, <2>4, Batches DEF Fed
    <3>2. steps' = R * T * tracker + 1 /\ version' = tracker
      BY <2>4, <3>1, Batches DEF Resume
    <3>3. steps' \in 1 .. M
      BY <1>0, <3>1, <3>2
    <3>4. U' + C' <= steps' - 1
      <4>1. U' = R * T * tracker + 0
        BY <2>2, <3>2
      <4>2. \A k \in Nat : k + 0 + 0 <= (k + 1) - 1
        OBVIOUS
      <4> QED
        BY <2>2, <3>1, <3>2, <4>1, <4>2
    <3> QED
      BY <2>1, <2>3, <2>4, <3>3, <3>4 DEF FedInv, Running
  <2>5. CASE pc' \in {"train", "stuck"} /\ UNCHANGED <<version, steps>>
    <3>1. U' + C' <= steps' - 1
      <4>1. U' = 0 + 0 /\ steps' \in Nat \ {0}
        BY <1>0, <2>1, <2>2, <2>5
      <4> QED
        BY <2>2, <4>1
    <3> QED
      BY <2>1, <2>3, <2>5, <3>1 DEF FedInv, Running
  <2> QED
    BY <1>10, <2>4, <2>5 DEF Start
<1>11. CASE UNCHANGED vars
  BY <1>11 DEF vars, disk, rollouter, memory, progress, FedInv, Running
<1> QED
  BY <1>1, <1>2, <1>3, <1>4, <1>5, <1>6, <1>7, <1>8, <1>9, <1>10, <1>11 DEF Next, Save

\* a version that was fed is one of those that the samples are enough for
LEMMA FedIsVersion ==
    ASSUME N + crashes \in Nat, N + MaxCrashes \in Nat, crashes <= MaxCrashes, N \in Nat, crashes \in Nat,
           MaxCrashes \in Nat, NEW v, Fed(v, N + crashes)
    PROVE  v \in Versions
<1>1. \A k \in Nat \ {0} : \A u \in Nat : u <= k * u /\ k * u \in Nat
  OBVIOUS
<1>2. v \in Nat /\ R * T * v <= N + crashes /\ R * T \in Nat \ {0}
  BY Batches DEF Fed
<1>3. v <= R * T * v /\ R * T * v \in Nat
  BY <1>1, <1>2
<1>4. v <= N + MaxCrashes
  BY <1>2, <1>3
<1> QED
  BY <1>2, <1>4 DEF Versions

\* a list of versions
LEMMA SavedVersions ==
    ASSUME NEW s \in Seq(Nat), NEW V, \A i \in 1 .. Len(s) : s[i] \in V
    PROVE  s \in Seq(V)
<1>1. Len(s) \in Nat /\ s \in [1 .. Len(s) -> Nat]
  BY LenProperties
<1>2. s \in [1 .. Len(s) -> V]
  BY <1>1
<1> QED
  BY <1>1, <1>2, SeqDef

\* The types hold, and N samples are fed, with one more for every time a run that had
\* ended is started again.
THEOREM Typed == Spec => []TypeOK
<1>1. Init => CkptInv /\ LabelInv /\ FedInv
  BY CkptInit, LabelInit, FedInit
<1>2. CkptInv /\ LabelInv /\ FedInv /\ [Next]_vars => (CkptInv /\ LabelInv /\ FedInv)'
  BY CkptNext, LabelNext, FedNext
<1>3. CkptInv /\ LabelInv /\ FedInv => TypeOK
  <2> SUFFICES ASSUME CkptInv, LabelInv, FedInv PROVE TypeOK
    OBVIOUS
  <2>1. /\ N + crashes \in Nat /\ N + MaxCrashes \in Nat /\ crashes \in 0 .. MaxCrashes
        /\ N \in Nat /\ MaxCrashes \in Nat /\ crashes \in Nat /\ crashes <= MaxCrashes
    BY FedTypes DEF FedInv
  <2>2. \A v : Fed(v, N + crashes) => v \in Versions
    BY <2>1, FedIsVersion
  <2>3. version \in Versions /\ lastCkpt \in Versions
    BY <2>2, VersionFed
  <2>4. tracker \in Versions \cup {Torn}
    BY <2>2 DEF FedInv
  <2>5. DOMAIN actor \subseteq Versions \ {0} /\ DOMAIN data \subseteq Versions \ {0}
    BY <2>2 DEF FedInv, CkptInv, DiskOK
  <2>6. saved \in Seq(Versions)
    <3>1. \A i \in 1 .. Len(saved) : saved[i] \in Versions
      BY <2>2 DEF FedInv
    <3>2. saved \in Seq(Nat)
      BY DEF CkptInv, Types
    <3> QED
      BY <3>1, <3>2, SavedVersions
  <2>7. /\ loader \in Nat /\ inflight \subseteq 1 .. loader /\ learned \subseteq Nat
        /\ \A v \in DOMAIN data : data[v] \in Nat
        /\ pc \in {"train", "save", "actor", "data", "open", "write", "ended", "down", "stuck"}
    BY DEF CkptInv, Types, SamplesOK
  <2>8. /\ keep \in Keeps /\ closed \in BOOLEAN /\ ending \in BOOLEAN /\ steps \in 1 .. N + crashes
        /\ \A v \in DOMAIN actor : actor[v] \subseteq Nat
    BY DEF FedInv
  <2>9. local \in 1 .. T
    BY DEF LabelInv
  <2> QED
    BY <2>1, <2>3, <2>4, <2>5, <2>6, <2>7, <2>8, <2>9 DEF TypeOK
<1> QED
  BY <1>1, <1>2, <1>3, PTL DEF Spec
=============================================================================
