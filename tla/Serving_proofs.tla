--------------------------- MODULE Serving_proofs ---------------------------
(***************************************************************************)
(* Serving for every set of requests and servers: the load balancer's      *)
(* counts are the load there is, an interrupted generation stays within    *)
(* its budget of tokens, weights move while nothing generates, no request  *)
(* is routed to a sleeping server, and a response reports the versions it  *)
(* was computed with.  These rest on what a server is between two calls of *)
(* the trainer (PhaseInv) and on the one version that all who generate     *)
(* generate with (AgeInv).                                                 *)
(***************************************************************************)
EXTENDS Serving, FiniteSetTheorems, SequenceTheorems, TLAPS

Holding == {"routed", "blocked", "serving", "reply"}

\* a request holds a server, or owes a release, or neither; never both
ClientOK ==
    /\ pend \in [Requests -> Servers \cup {None}]
    /\ pc \in [Requests -> Holding \cup {"ready", "done", "failed"}]
    /\ srv \in [Requests -> Servers \cup {None}]
    /\ \A r \in Requests : pc[r] \in Holding => pend[r] = None /\ srv[r] \in Servers
    /\ \A r \in Requests : pc[r] \in {"ready", "done"} => srv[r] = None

CountOK ==
    /\ DOMAIN inflight \subseteq Servers
    /\ inflight \in [DOMAIN inflight -> Nat]

\* the trainer's remote calls; those to the pool concern hybrid servers only
Steps ==
    {Call(Standalone, <<"abort">>), Call(Standalone, <<"wipe", "load", "label">>),
     Call(Standalone, <<"resume">>), Call(Hybrid, <<"load", "label", "wake">>),
     Call(Hybrid, <<"abort">>), Call(Hybrid, <<"resume">>), Call(Hybrid, <<"sleep">>),
     Pool("add"), Pool("validate"), Pool("remove")}
ScriptOK == script \in Seq(Steps)

LoadInv == ClientOK /\ CountOK /\ ScriptOK /\ LoadCounted

Holds(r, s) == (srv[r] = s /\ pc[r] # "failed") \/ pend[r] = s

-----------------------------------------------------------------------------
\* The two scripts of the trainer are made of the known calls.
LEMMA ScriptTypes == /\ Update \in Seq(Steps) /\ Validate \in Seq(Steps)
                     /\ Update \o Validate \in Seq(Steps)
<1>1. /\ Call(Standalone, <<"abort">>) \in Steps /\ Call(Standalone, <<"resume">>) \in Steps
      /\ Call(Standalone, <<"wipe", "load", "label">>) \in Steps
      /\ Call(Hybrid, <<"abort">>) \in Steps /\ Call(Hybrid, <<"resume">>) \in Steps
      /\ Call(Hybrid, <<"sleep">>) \in Steps
      /\ Call(Hybrid, <<"load", "label", "wake">>) \in Steps
      /\ Pool("add") \in Steps /\ Pool("validate") \in Steps /\ Pool("remove") \in Steps
  BY DEF Steps
<1>2. Update \in Seq(Steps)
  BY <1>1 DEF Update
<1>3. Validate \in Seq(Steps)
  BY <1>1 DEF Validate, HybridUpdate
<1>4. Update \o Validate \in Seq(Steps)
  BY <1>2, <1>3, ConcatProperties
<1> QED
  BY <1>2, <1>3, <1>4

\* The requests that hold a server can be counted.
LEMMA HoldersFinite == ASSUME NEW s
                       PROVE  IsFiniteSet(Holders(s)) /\ Cardinality(Holders(s)) \in Nat
<1>1. Holders(s) \subseteq Requests /\ IsFiniteSet(Requests)
  BY ServingAssumption DEF Holders, ServingAssumption
<1> QED
  BY <1>1, FS_Subset, FS_CardinalityType

\* A step after which every server is held by the same requests, and that does not
\* touch the counts, preserves the count.
LEMMA SameHolders ==
    ASSUME LoadInv, ClientOK', ScriptOK', UNCHANGED inflight,
           \A r \in Requests, s \in Servers : Holds(r, s)' <=> Holds(r, s)
    PROVE  LoadInv'
<1>1. \A s \in Servers : Holders(s)' = Holders(s)
  BY DEF Holders, Holds
<1>2. CountOK'
  BY DEF LoadInv, CountOK
<1>3. Standalone \subseteq Servers
  BY DEF Servers
<1>4. LoadCounted'
  <2> SUFFICES /\ Standalone \subseteq DOMAIN inflight
               /\ \A s \in Standalone : inflight[s] = Cardinality(Holders(s)')
               /\ \A s \in DOMAIN inflight : inflight[s] <= Cardinality(Holders(s)')
    BY DEF LoadCounted
  <2> QED
    BY <1>1, <1>3 DEF LoadInv, CountOK, LoadCounted
<1> QED
  BY <1>2, <1>4 DEF LoadInv

\* At first no request holds a server.
LEMMA LoadInit == ASSUME Init PROVE LoadInv
<1>1. ClientOK
  BY DEF Init, ClientOK, Holding
<1>2. CountOK
  BY DEF Init, CountOK, Servers
<1>3. ScriptOK
  <2>1. <<>> \in Seq(Steps) /\ Validate \in Seq(Steps)
    BY ScriptTypes
  <2> QED
    BY <2>1 DEF Init, ScriptOK
<1>4. \A s \in Servers : Holders(s) = {}
  BY ServingAssumption DEF Init, Holders, ServingAssumption
<1>5. DOMAIN inflight = Standalone /\ \A s \in Standalone : inflight[s] = 0
  BY DEF Init
<1>6. \A s \in Standalone : Cardinality(Holders(s)) = 0
  BY <1>4, FS_EmptySet DEF Servers
<1>7. LoadCounted
  BY <1>5, <1>6 DEF LoadCounted
<1> QED
  BY <1>1, <1>2, <1>3, <1>7 DEF LoadInv

-----------------------------------------------------------------------------
(* the clients *)

\* acquire_server counts the request that holds the server from then on.
LEMMA LoadAcquire ==
    ASSUME LoadInv, NEW r \in Requests, Acquire(r)
    PROVE  LoadInv'
<1> USE DEF LoadInv
<1>1. PICK t \in Servers : AcquireServer(r, t) /\ srv' = [srv EXCEPT ![r] = t]
  BY DEF Acquire
<1>2. /\ pc[r] = "ready" /\ pend[r] = None /\ pc' = [pc EXCEPT ![r] = "routed"]
      /\ pend' = pend /\ script' = script /\ srv[r] = None
  BY DEF Acquire, ClientOK, trainerVars
<1>3. t \in DOMAIN inflight /\ inflight' = [inflight EXCEPT ![t] = @ + 1]
  BY <1>1 DEF AcquireServer, Least
<1>4. ClientOK'
  BY <1>1, <1>2 DEF ClientOK, Holding
<1>5. CountOK' /\ ScriptOK'
  BY <1>2, <1>3 DEF CountOK, ScriptOK
<1>6. \A q \in Requests, s \in Servers : Holds(q, s)' <=> Holds(q, s) \/ (q = r /\ s = t)
  BY <1>1, <1>2, ServingAssumption DEF Holds, ClientOK, ServingAssumption
<1>7. \A s \in Servers : s # t => Holders(s)' = Holders(s)
  BY <1>6 DEF Holders, Holds
<1>8. Holders(t)' = Holders(t) \cup {r}
  BY <1>6 DEF Holders, Holds
<1>9. r \notin Holders(t)
  BY <1>2, ServingAssumption DEF Holders, ServingAssumption
<1>10. Cardinality(Holders(t)') = Cardinality(Holders(t)) + 1
  BY <1>8, <1>9, FS_AddElement, HoldersFinite
<1>11. \A s \in DOMAIN inflight : inflight'[s] = IF s = t THEN inflight[s] + 1 ELSE inflight[s]
  BY <1>3
<1>12. DOMAIN inflight' = DOMAIN inflight /\ Standalone \subseteq Servers
  BY <1>3 DEF Servers
<1>13. \A s \in DOMAIN inflight : s \in Servers /\ inflight[s] \in Nat
  BY DEF CountOK
<1>14. \A s : Cardinality(Holders(s)) \in Nat
  BY HoldersFinite
<1>15. LoadCounted'
  <2> SUFFICES /\ Standalone \subseteq DOMAIN inflight'
               /\ \A s \in Standalone : inflight'[s] = Cardinality(Holders(s)')
               /\ \A s \in DOMAIN inflight' : inflight'[s] <= Cardinality(Holders(s)')
    BY DEF LoadCounted
  <2> QED
    BY <1>7, <1>10, <1>11, <1>12, <1>13, <1>14 DEF LoadCounted
<1> QED
  BY <1>4, <1>5, <1>15

\* release_server discounts a request that no longer holds the server, or one that a
\* server added again has never counted.
LEMMA LoadRelease ==
    ASSUME LoadInv, NEW r \in Requests, Release(r)
    PROVE  LoadInv'
<1> USE DEF LoadInv
<1>0. PICK t \in Servers : t = pend[r]
  BY DEF Release, ClientOK
<1>1. /\ pend[r] = t /\ t # None /\ pend' = [pend EXCEPT ![r] = None]
      /\ srv' = srv /\ pc' = pc /\ script' = script /\ ReleaseServer(t)
  BY <1>0 DEF Release, ClientOK, clientVars, trainerVars
<1>2. ClientOK' /\ ScriptOK'
  BY <1>1 DEF ClientOK, ScriptOK
<1>3. pc[r] \notin Holding
  BY <1>1 DEF ClientOK
<1>4. ~(srv[r] = t /\ pc[r] # "failed")
  BY <1>1, <1>3 DEF ClientOK
<1>5. \A q \in Requests, s \in Servers : Holds(q, s)' <=> Holds(q, s) /\ ~(q = r /\ s = t)
  BY <1>1, <1>4, ServingAssumption DEF Holds, ClientOK, ServingAssumption
<1>6. \A s \in Servers : s # t => Holders(s)' = Holders(s)
  BY <1>5 DEF Holders, Holds
<1>7. Holders(t)' = Holders(t) \ {r} /\ r \in Holders(t)
  BY <1>1, <1>5 DEF Holders, Holds
<1>8. Cardinality(Holders(t)') = Cardinality(Holders(t)) - 1
  <2>1. IsFiniteSet(Holders(t))
    BY HoldersFinite
  <2>2. Cardinality(Holders(t) \ {r}) = Cardinality(Holders(t)) - 1
    BY <1>7, <2>1, FS_RemoveElement
  <2> QED
    BY <1>7, <2>2
<1>9. \A s : Cardinality(Holders(s)) \in Nat
  BY HoldersFinite
<1>10. Cardinality(Holders(t)) >= 1
  <2>1. Cardinality(Holders(t)) # 0
    BY <1>7, FS_EmptySet, HoldersFinite
  <2> QED
    BY <2>1, <1>9
<1>11. \A s \in DOMAIN inflight : s \in Servers /\ inflight[s] \in Nat
  BY DEF CountOK
<1>12. /\ DOMAIN inflight' = DOMAIN inflight
       /\ \A s \in DOMAIN inflight :
            inflight'[s] = IF s = t /\ inflight[s] > 0 THEN inflight[s] - 1 ELSE inflight[s]
  BY <1>1, <1>11 DEF ReleaseServer
<1>13. CountOK'
  <2>1. \E f : inflight' = [s \in DOMAIN inflight |-> f[s]]
    <3>1. CASE t \in DOMAIN inflight /\ inflight[t] > 0
      <4>1. inflight' = [s \in DOMAIN inflight |-> IF s = t THEN inflight[t] - 1 ELSE inflight[s]]
        BY <1>1, <3>1 DEF ReleaseServer, CountOK
      <4> QED
        BY <4>1, <1>12
    <3>2. CASE ~(t \in DOMAIN inflight /\ inflight[t] > 0)
      BY <1>1, <3>2 DEF ReleaseServer, CountOK
    <3> QED
      BY <3>1, <3>2
  <2> QED
    BY <2>1, <1>11, <1>12 DEF CountOK
<1>14. LoadCounted'
  <2> SUFFICES /\ Standalone \subseteq DOMAIN inflight'
               /\ \A s \in Standalone : inflight'[s] = Cardinality(Holders(s)')
               /\ \A s \in DOMAIN inflight' : inflight'[s] <= Cardinality(Holders(s)')
    BY DEF LoadCounted
  <2>1. Standalone \subseteq Servers
    BY DEF Servers
  <2> QED
    BY <2>1, <1>6, <1>8, <1>9, <1>10, <1>11, <1>12 DEF LoadCounted
<1> QED
  BY <1>2, <1>13, <1>14

\* A call that reaches its server, or fails there, is held as before.
LEMMA LoadArrive ==
    ASSUME LoadInv, NEW r \in Requests, Arrive(r)
    PROVE  LoadInv'
<1> USE DEF LoadInv
<1>1. /\ pc[r] = "routed" /\ srv' = srv /\ script' = script /\ inflight' = inflight
      /\ pend[r] = None /\ srv[r] \in Servers
  BY DEF Arrive, trainerVars, ClientOK, Holding
<1>2. \/ /\ pc' = [pc EXCEPT ![r] = "failed"] /\ pend' = [pend EXCEPT ![r] = srv[r]]
      \/ pend' = pend /\ \E p \in {"blocked", "serving"} : pc' = [pc EXCEPT ![r] = p]
  BY DEF Arrive, Raise
<1>3. ClientOK'
  BY <1>1, <1>2 DEF ClientOK, Holding
<1>4. \A q \in Requests, s \in Servers : Holds(q, s)' <=> Holds(q, s)
  BY <1>1, <1>2, ServingAssumption DEF Holds, ClientOK, ServingAssumption
<1>5. ScriptOK'
  BY <1>1 DEF ScriptOK
<1> QED
  BY <1>1, <1>3, <1>4, <1>5, SameHolders

\* Generating changes nothing about who holds what.
LEMMA LoadToken ==
    ASSUME LoadInv, NEW r \in Requests, Token(r)
    PROVE  LoadInv'
<1> USE DEF LoadInv
<1>1. /\ pc[r] = "serving" /\ srv' = srv /\ pend' = pend /\ script' = script
      /\ inflight' = inflight
  BY DEF Token, lbVars, trainerVars
<1>2. pc' = [q \in Requests |-> IF q \in {r} THEN "reply" ELSE pc[q]] \/ pc' = pc
  BY DEF Token, Ended
<1>3. ClientOK'
  BY <1>1, <1>2 DEF ClientOK, Holding
<1>4. \A q \in Requests, s \in Servers : Holds(q, s)' <=> Holds(q, s)
  BY <1>1, <1>2 DEF Holds, ClientOK
<1>5. ScriptOK'
  BY <1>1 DEF ScriptOK
<1> QED
  BY <1>1, <1>3, <1>4, <1>5, SameHolders

\* A request that has its answer owes a release instead.
LEMMA LoadReceive ==
    ASSUME LoadInv, NEW r \in Requests, Receive(r)
    PROVE  LoadInv'
<1> USE DEF LoadInv
<1>1. /\ pc[r] = "reply" /\ srv' = [srv EXCEPT ![r] = None] /\ script' = script
      /\ pend' = [pend EXCEPT ![r] = srv[r]] /\ inflight' = inflight
      /\ \E p \in {"ready", "done"} : pc' = [pc EXCEPT ![r] = p]
  BY DEF Receive, trainerVars
<1>2. pend[r] = None /\ srv[r] \in Servers
  BY <1>1 DEF ClientOK, Holding
<1>3. ClientOK'
  BY <1>1, <1>2 DEF ClientOK, Holding
<1>4. \A q \in Requests, s \in Servers : Holds(q, s)' <=> Holds(q, s)
  BY <1>1, <1>2, ServingAssumption DEF Holds, ClientOK, ServingAssumption
<1>5. ScriptOK'
  BY <1>1 DEF ScriptOK
<1> QED
  BY <1>1, <1>3, <1>4, <1>5, SameHolders

-----------------------------------------------------------------------------
(* the trainer *)

\* A new version concerns the trainer only.
LEMMA LoadSync == ASSUME LoadInv, Sync PROVE LoadInv'
<1> USE DEF LoadInv
<1>1. /\ srv' = srv /\ pc' = pc /\ pend' = pend /\ inflight' = inflight
      /\ script' \in {Update, Update \o Validate}
  BY DEF Sync, lbVars, clientVars
<1>2. ClientOK' /\ ScriptOK'
  BY <1>1, ScriptTypes DEF ClientOK, ScriptOK
<1>3. \A q \in Requests, s \in Servers : Holds(q, s)' <=> Holds(q, s)
  BY <1>1 DEF Holds
<1> QED
  BY <1>1, <1>2, <1>3, SameHolders

\* Servers that come start from zero, and those that go are not counted.
LEMMA LoadInstruct == ASSUME LoadInv, Instruct PROVE LoadInv'
<1> USE DEF LoadInv
<1> DEFINE c == Head(script)
<1>1. /\ srv' = srv /\ pc' = pc /\ pend' = pend /\ script' = Tail(script) /\ script # <<>>
  BY DEF Instruct, clientVars
<1>2. c \in Steps /\ ScriptOK'
  BY <1>1, HeadTailProperties DEF ScriptOK
<1>3. ClientOK'
  BY <1>1 DEF ClientOK
<1>4. \A q \in Requests, s \in Servers : Holds(q, s)' <=> Holds(q, s)
  BY <1>1 DEF Holds
<1>5. CASE c.kind \notin {"add", "remove"}
  <2>1. UNCHANGED inflight
    BY <1>5 DEF Instruct
  <2> QED
    BY <2>1, <1>2, <1>3, <1>4, SameHolders
<1>6. CASE c.kind \in {"add", "remove"}
  <2>1. c.on = Hybrid
    BY <1>2, <1>6 DEF Steps, Call, Pool
  <2>2. /\ DOMAIN inflight' \subseteq DOMAIN inflight \cup Hybrid
        /\ Standalone \subseteq DOMAIN inflight'
        /\ \A s \in DOMAIN inflight' :
             inflight'[s] = IF s \in DOMAIN inflight THEN inflight[s] ELSE 0
        /\ CountOK'
    <3>1. CASE c.kind = "add"
      <4>1. inflight' = [s \in DOMAIN inflight \cup Hybrid |->
                             IF s \in DOMAIN inflight THEN inflight[s] ELSE 0]
        BY <2>1, <3>1 DEF Instruct, AddServers
      <4> QED
        BY <4>1 DEF CountOK, LoadCounted, Servers
    <3>2. CASE c.kind = "remove"
      <4>1. inflight' = [s \in DOMAIN inflight \ Hybrid |-> inflight[s]]
        BY <2>1, <3>2 DEF Instruct, RemoveServers
      <4> QED
        BY <4>1, ServingAssumption DEF CountOK, LoadCounted, ServingAssumption
    <3> QED
      BY <1>6, <3>1, <3>2
  <2>3. \A s : Holders(s)' = Holders(s)
    BY <1>1 DEF Holders
  <2>4. \A s : Cardinality(Holders(s)) \in Nat
    BY HoldersFinite
  <2>5. LoadCounted'
    <3> SUFFICES /\ Standalone \subseteq DOMAIN inflight'
                 /\ \A s \in Standalone : inflight'[s] = Cardinality(Holders(s)')
                 /\ \A s \in DOMAIN inflight' : inflight'[s] <= Cardinality(Holders(s)')
      BY DEF LoadCounted
    <3> QED
      BY <2>2, <2>3, <2>4 DEF LoadCounted
  <2> QED
    BY <1>2, <1>3, <2>2, <2>5
<1> QED
  BY <1>5, <1>6

\* A server that ends or begins generations holds them as before.
LEMMA LoadOperate ==
    ASSUME LoadInv, NEW s \in Servers, Operate(s)
    PROVE  LoadInv'
<1> USE DEF LoadInv
<1>1. /\ srv' = srv /\ script' = script /\ inflight' = inflight
      /\ Abort(s) \/ Resume(s) \/ \E op : Device(s, op)
  BY DEF Operate
<1>2. \A r \in Requests :
         \/ pc'[r] = pc[r] /\ pend'[r] = pend[r]
         \/ pc[r] \in Holding /\ pc'[r] \in Holding /\ pend'[r] = pend[r]
         \/ pc[r] \in Holding /\ pc'[r] = "failed" /\ pend'[r] = srv[r]
  <2>1. CASE Abort(s)
    BY <2>1 DEF Abort, Ended, Calls, Holding
  <2>2. CASE Resume(s)
    BY <2>2 DEF Resume, Calls, Holding
  <2>3. CASE \E op : Device(s, op)
    BY <2>3 DEF Device
  <2> QED
    BY <1>1, <2>1, <2>2, <2>3
<1>3. /\ \E f : pc' = [r \in Requests |-> f[r]]
      /\ \E f : pend' = [r \in Requests |-> f[r]]
  <2>1. CASE Abort(s)
    <3>1. pc' = [r \in Requests |-> IF r \in Calls(s, "serving") THEN "reply" ELSE pc[r]]
      BY <2>1 DEF Abort, Ended
    <3>2. pc' = [r \in Requests |-> pc'[r]] /\ pend' = [r \in Requests |-> pend[r]]
      BY <2>1, <3>1 DEF Abort, ClientOK
    <3> QED
      BY <3>2
  <2>2. CASE Resume(s)
    <3>1. pc' = [r \in Requests |-> pc'[r]] /\ pend' = [r \in Requests |-> pend'[r]]
      BY <2>2 DEF Resume
    <3> QED
      BY <3>1
  <2>3. CASE \E op : Device(s, op)
    <3>1. pc' = [r \in Requests |-> pc[r]] /\ pend' = [r \in Requests |-> pend[r]]
      BY <2>3 DEF Device, ClientOK
    <3> QED
      BY <3>1
  <2> QED
    BY <1>1, <2>1, <2>2, <2>3
<1>4. ClientOK'
  <2>1. \A r \in Requests : /\ pc'[r] \in Holding \cup {"ready", "done", "failed"}
                            /\ pend'[r] \in Servers \cup {None}
    BY <1>2 DEF ClientOK
  <2>2. /\ pc' \in [Requests -> Holding \cup {"ready", "done", "failed"}]
        /\ pend' \in [Requests -> Servers \cup {None}]
    BY <1>3, <2>1
  <2>3. \A r \in Requests : pc'[r] \in Holding => pend'[r] = None /\ srv[r] \in Servers
    BY <1>2 DEF ClientOK, Holding
  <2>4. \A r \in Requests : pc'[r] \in {"ready", "done"} => srv[r] = None
    BY <1>2 DEF ClientOK, Holding
  <2> QED
    BY <1>1, <2>2, <2>3, <2>4 DEF ClientOK
<1>5. \A r \in Requests, t \in Servers : Holds(r, t)' <=> Holds(r, t)
  BY <1>1, <1>2, ServingAssumption DEF Holds, ClientOK, Holding, ServingAssumption
<1>6. ScriptOK'
  BY <1>1 DEF ScriptOK
<1> QED
  BY <1>1, <1>4, <1>5, <1>6, SameHolders

\* Nothing happens.
LEMMA LoadStutter == ASSUME LoadInv, UNCHANGED vars PROVE LoadInv'
<1>1. /\ srv' = srv /\ pc' = pc /\ pend' = pend /\ inflight' = inflight /\ script' = script
  BY DEF vars, lbVars, clientVars, trainerVars
<1>2. ClientOK' /\ ScriptOK'
  BY <1>1 DEF LoadInv, ClientOK, ScriptOK
<1>3. \A r \in Requests, s \in Servers : Holds(r, s)' <=> Holds(r, s)
  BY <1>1 DEF Holds
<1> QED
  BY <1>1, <1>2, <1>3, SameHolders

\* Every step keeps the invariant.
LEMMA LoadNext == ASSUME LoadInv, [Next]_vars PROVE LoadInv'
<1>1. ASSUME NEW r \in Requests, Client(r) PROVE LoadInv'
  BY <1>1, LoadAcquire, LoadArrive, LoadToken, LoadReceive, LoadRelease DEF Client
<1>2. CASE Trainer
  BY <1>2, LoadSync, LoadInstruct, LoadOperate DEF Trainer
<1>3. CASE UNCHANGED vars
  BY <1>3, LoadStutter
<1> QED
  BY <1>1, <1>2, <1>3 DEF Next

\* However the calls of clients and trainer interleave, the counts the load
\* balancer decides by are exact for the rollouter's own servers and never too
\* high for those that come and go.
THEOREM LoadIsCounted == Spec => []LoadCounted
<1>1. Init => LoadInv
  BY LoadInit
<1>2. LoadInv /\ [Next]_vars => LoadInv'
  BY LoadNext
<1>3. LoadInv => LoadCounted
  BY DEF LoadInv
<1> QED
  BY <1>1, <1>2, <1>3, PTL DEF Spec

-----------------------------------------------------------------------------
(* the budget of tokens *)

Tokens == Versions \cup {Mixed}
Total == ResponseLength + Slack
Written(r) == Len(toks[r]) + Len(out[r])

\* a generation that goes on, now or after an interruption
Unfinished(r) == \/ pc[r] \in {"ready", "routed", "blocked", "serving"}
                 \/ pc[r] = "reply" /\ stop[r] = "aborted"

BudgetType ==
    /\ weights \in [Servers -> Tokens] /\ version \in Versions
    /\ out \in [Requests -> Seq(Tokens)] /\ toks \in [Requests -> Seq(Tokens)]

\* an unfinished generation has room for a token, and the current call does not
\* go beyond its limit
Budget ==
    \A r \in Requests :
        /\ Written(r) <= Total
        /\ Unfinished(r) => Written(r) < Total
        /\ pc[r] \notin {"serving", "reply"} => out[r] = <<>>
        /\ pc[r] = "serving" => Len(out[r]) < Limit(r)

BudgetInv == BudgetType /\ Budget

\* the limit of a call leaves the sum within the total, and is at least one
LEMMA LimitBounds ==
    ASSUME NEW r \in Requests, toks[r] \in Seq(Tokens), Len(toks[r]) < Total
    PROVE  /\ Limit(r) \in Nat \ {0}
           /\ Limit(r) + Len(toks[r]) <= Total
<1>1. Len(toks[r]) \in Nat
  BY LenProperties
<1>2. ResponseLength \in Nat \ {0} /\ Slack \in Nat
  BY ServingAssumption DEF ServingAssumption
<1> DEFINE n == Len(toks[r])
<1>3. \A m \in Nat : m < ResponseLength + Slack =>
        LET room == ResponseLength + Slack - m
            most == IF room < ResponseLength THEN room ELSE ResponseLength
            l == IF most < 1 THEN 1 ELSE most
        IN  l \in Nat \ {0} /\ l + m <= ResponseLength + Slack
  BY <1>2
<1> QED
  BY <1>1, <1>3 DEF Limit, Total

\* At first nothing was generated.
LEMMA BudgetInit == ASSUME Init PROVE BudgetInv
<1>1. BudgetType
  BY ServingAssumption DEF Init, BudgetType, Tokens, Versions, Mixed, ServingAssumption
<1>2. \A r \in Requests : Len(out[r]) = 0 /\ Len(toks[r]) = 0 /\ pc[r] = "ready" /\ out[r] = <<>>
  BY DEF Init
<1>3. Total \in Nat /\ Total > 0
  BY ServingAssumption DEF Total, ServingAssumption
<1>4. \A r \in Requests : Written(r) = 0
  <2>1. \A r \in Requests : Written(r) = 0 + 0
    BY <1>2, Zenon DEF Written
  <2> QED
    BY <2>1
<1>5. Budget
  BY <1>2, <1>3, <1>4 DEF Budget, Unfinished
<1> QED
  BY <1>1, <1>5 DEF BudgetInv

\* A step that leaves the tokens alone and lets no request begin to generate, or
\* lets one that has generated nothing in this call.
LEMMA SameTokens ==
    ASSUME BudgetInv, BudgetType', UNCHANGED <<out, toks>>,
           \A r \in Requests :
              \/ pc'[r] = pc[r] /\ stop'[r] = stop[r]
              \/ pc'[r] = "failed" /\ out[r] = <<>>
              \/ pc'[r] \in {"ready", "routed", "blocked", "serving"}
                 /\ pc[r] \in {"ready", "routed", "blocked"}
              \/ pc'[r] = "reply" /\ pc[r] = "serving"
    PROVE  BudgetInv'
<1> SUFFICES ASSUME NEW r \in Requests
             PROVE  /\ Written(r)' <= Total
                    /\ Unfinished(r)' => Written(r)' < Total
                    /\ pc'[r] \notin {"serving", "reply"} => out'[r] = <<>>
                    /\ pc'[r] = "serving" => Len(out'[r]) < Limit(r)'
  BY DEF BudgetInv, Budget
<1>1. Written(r)' = Written(r) /\ Limit(r)' = Limit(r) /\ out'[r] = out[r]
  BY DEF Written, Limit
<1>2. /\ Written(r) <= Total
      /\ Unfinished(r) => Written(r) < Total
      /\ pc[r] \notin {"serving", "reply"} => out[r] = <<>>
      /\ pc[r] = "serving" => Len(out[r]) < Limit(r)
  BY DEF BudgetInv, Budget
<1>3. CASE pc'[r] = pc[r] /\ stop'[r] = stop[r]
  BY <1>1, <1>2, <1>3 DEF Unfinished
<1>4. CASE pc'[r] = "failed" /\ out[r] = <<>>
  BY <1>1, <1>2, <1>4 DEF Unfinished
<1>5. CASE pc'[r] \in {"ready", "routed", "blocked", "serving"}
           /\ pc[r] \in {"ready", "routed", "blocked"}
  <2>1. Unfinished(r) /\ out[r] = <<>>
    BY <1>2, <1>5 DEF Unfinished
  <2>2. toks[r] \in Seq(Tokens) /\ Len(toks[r]) \in Nat /\ Len(out[r]) = 0
    BY <2>1, LenProperties DEF BudgetInv, BudgetType
  <2>3. Len(toks[r]) < Total
    BY <1>2, <2>1, <2>2 DEF Written
  <2>4. Limit(r) \in Nat \ {0}
    BY <2>2, <2>3, LimitBounds
  <2> QED
    BY <1>1, <1>2, <2>1, <2>2, <2>4
<1>6. CASE pc'[r] = "reply" /\ pc[r] = "serving"
  BY <1>1, <1>2, <1>6 DEF Unfinished
<1> QED
  BY <1>3, <1>4, <1>5, <1>6

\* A token is added within the limit of the call, and reaching it ends the call.
LEMMA BudgetToken ==
    ASSUME BudgetInv, LoadInv, NEW r \in Requests, Token(r) PROVE BudgetInv'
<1>1. /\ pc[r] = "serving" /\ out' = [out EXCEPT ![r] = Append(@, weights[srv[r]])]
      /\ toks' = toks /\ weights' = weights /\ version' = version
  BY DEF Token, resultVars, serverVars, trainerVars
<1>2. weights[srv[r]] \in Tokens /\ out[r] \in Seq(Tokens) /\ toks[r] \in Seq(Tokens)
  BY <1>1 DEF LoadInv, ClientOK, Holding, BudgetInv, BudgetType
<1>3. out'[r] = Append(out[r], weights[srv[r]]) /\ \A q \in Requests \ {r} : out'[q] = out[q]
  BY <1>1 DEF BudgetInv, BudgetType
<1>4. out'[r] \in Seq(Tokens) /\ Len(out'[r]) = Len(out[r]) + 1 /\ Len(out[r]) \in Nat
  BY <1>2, <1>3, AppendProperties
<1>5. BudgetType'
  BY <1>1, <1>2, <1>4 DEF BudgetInv, BudgetType
<1>6. /\ Written(r) < Total /\ Len(out[r]) < Limit(r) /\ Len(toks[r]) \in Nat
  BY <1>1, <1>2, LenProperties DEF BudgetInv, Budget, Unfinished
<1>7. Limit(r) \in Nat /\ Limit(r) + Len(toks[r]) <= Total
  <2>1. Total \in Nat
    BY ServingAssumption DEF Total, ServingAssumption
  <2>2. Len(toks[r]) + Len(out[r]) < Total
    BY <1>6 DEF Written
  <2>3. \A a, b, t \in Nat : a + b < t => a < t
    OBVIOUS
  <2>4. Len(toks[r]) < Total
    BY <1>4, <1>6, <2>1, <2>2, <2>3, Zenon
  <2> QED
    BY <1>2, <2>4, LimitBounds
<1>8. Limit(r)' = Limit(r) /\ Len(toks'[r]) = Len(toks[r])
  BY <1>1 DEF Limit
<1>9. /\ \/ pc'[r] = "reply" /\ stop'[r] = "completed"
         \/ pc'[r] = "serving" /\ Len(out'[r]) < Limit(r)
      /\ \A q \in Requests \ {r} : pc'[q] = pc[q] /\ stop'[q] = stop[q]
  <2>1. CASE Ended({r}, "completed")
    BY <2>1 DEF Ended
  <2>2. CASE Len(out'[r]) < Limit(r) /\ UNCHANGED <<pc, label, stop>>
    BY <1>1, <2>2
  <2> QED
    BY <2>1, <2>2 DEF Token
<1>10. Total \in Nat
  BY ServingAssumption DEF Total, ServingAssumption
<1>11. Written(r)' <= Total /\ (Len(out'[r]) < Limit(r) => Written(r)' < Total)
  <2>1. Written(r)' = Len(toks[r]) + Len(out'[r])
    BY <1>8 DEF Written
  <2>2. \A a, b, l, t \in Nat : a < l /\ l + b <= t =>
            b + (a + 1) <= t /\ (a + 1 < l => b + (a + 1) < t)
    OBVIOUS
  <2>3. Written(r)' = Len(toks[r]) + (Len(out[r]) + 1)
    BY <2>1, <1>4, Zenon
  <2>4. /\ Len(toks[r]) + (Len(out[r]) + 1) <= Total
        /\ Len(out[r]) + 1 < Limit(r) => Len(toks[r]) + (Len(out[r]) + 1) < Total
    BY <2>2, <1>4, <1>6, <1>7, <1>10, Zenon
  <2> QED
    BY <2>3, <2>4, <1>4, Zenon
<1>12. \A q \in Requests \ {r} : Written(q)' = Written(q) /\ Limit(q)' = Limit(q)
                                 /\ (Unfinished(q)' <=> Unfinished(q))
  BY <1>1, <1>3, <1>9 DEF Written, Limit, Unfinished
<1>13. Budget'
  <2> SUFFICES ASSUME NEW q \in Requests
               PROVE  /\ Written(q)' <= Total
                      /\ Unfinished(q)' => Written(q)' < Total
                      /\ pc'[q] \notin {"serving", "reply"} => out'[q] = <<>>
                      /\ pc'[q] = "serving" => Len(out'[q]) < Limit(q)'
    BY DEF Budget
  <2>1. CASE q = r
    BY <1>8, <1>9, <1>11, <2>1 DEF Unfinished
  <2>2. CASE q # r
    BY <1>3, <1>9, <1>12, <2>2 DEF BudgetInv, Budget
  <2> QED
    BY <2>1, <2>2
<1> QED
  BY <1>5, <1>13 DEF BudgetInv

\* The answer moves to what the client has, and the call that follows an
\* interruption has room for a token.
LEMMA BudgetReceive ==
    ASSUME BudgetInv, LoadInv, NEW r \in Requests, Receive(r) PROVE BudgetInv'
<1>1. /\ pc[r] = "reply" /\ toks' = [toks EXCEPT ![r] = @ \o out[r]]
      /\ out' = [out EXCEPT ![r] = <<>>]
      /\ pc' = [pc EXCEPT ![r] = IF stop[r] = "aborted" /\ Partial THEN "ready" ELSE "done"]
      /\ stop' = stop /\ weights' = weights /\ version' = version
  BY DEF Receive, Merge, serverVars, trainerVars
<1>2. /\ out[r] \in Seq(Tokens) /\ toks[r] \in Seq(Tokens)
      /\ pc[r] \in Holding /\ DOMAIN pc = Requests
  BY <1>1 DEF BudgetInv, BudgetType, LoadInv, ClientOK, Holding
<1>3. /\ toks'[r] = toks[r] \o out[r] /\ out'[r] = <<>>
      /\ \A q \in Requests \ {r} : out'[q] = out[q] /\ toks'[q] = toks[q] /\ pc'[q] = pc[q]
      /\ pc'[r] \in {"ready", "done"} /\ (pc'[r] = "ready" => stop[r] = "aborted")
  BY <1>1, <1>2 DEF BudgetInv, BudgetType
<1>4. /\ toks'[r] \in Seq(Tokens) /\ Len(toks'[r]) = Len(toks[r]) + Len(out[r])
      /\ Len(out[r]) \in Nat /\ Len(toks[r]) \in Nat
  BY <1>2, <1>3, ConcatProperties, LenProperties
<1>5. BudgetType'
  BY <1>1, <1>4 DEF BudgetInv, BudgetType
<1>6. Written(r)' = Written(r)
  BY <1>3, <1>4 DEF Written
<1>7. Unfinished(r)' => Unfinished(r)
  BY <1>1, <1>3 DEF Unfinished
<1>8. \A q \in Requests \ {r} : Written(q)' = Written(q) /\ Limit(q)' = Limit(q)
                                /\ (Unfinished(q)' <=> Unfinished(q))
  BY <1>1, <1>3 DEF Written, Limit, Unfinished
<1>9. Budget'
  <2> SUFFICES ASSUME NEW q \in Requests
               PROVE  /\ Written(q)' <= Total
                      /\ Unfinished(q)' => Written(q)' < Total
                      /\ pc'[q] \notin {"serving", "reply"} => out'[q] = <<>>
                      /\ pc'[q] = "serving" => Len(out'[q]) < Limit(q)'
    BY DEF Budget
  <2>1. CASE q = r
    BY <1>3, <1>6, <1>7, <2>1 DEF BudgetInv, Budget
  <2>2. CASE q # r
    BY <1>3, <1>8, <2>2 DEF BudgetInv, Budget
  <2> QED
    BY <2>1, <2>2
<1> QED
  BY <1>5, <1>9 DEF BudgetInv

\* The other steps of a client generate nothing.
LEMMA BudgetOther ==
    ASSUME BudgetInv, LoadInv, NEW r \in Requests, Acquire(r) \/ Arrive(r) \/ Release(r)
    PROVE  BudgetInv'
<1>1. UNCHANGED <<out, toks, stop, weights, version>>
  BY DEF Acquire, Arrive, Release, callVars, resultVars, serverVars, trainerVars, clientVars
<1>2. BudgetType'
  BY <1>1 DEF BudgetInv, BudgetType
<1>3. \/ pc' = pc
      \/ pc[r] \in {"ready", "routed"}
         /\ \E p \in {"routed", "failed", "blocked", "serving"} : pc' = [pc EXCEPT ![r] = p]
  BY DEF Acquire, Arrive, Release, Raise, clientVars
<1>4. \A q \in Requests : pc[q] \in {"ready", "routed"} => out[q] = <<>>
  BY DEF BudgetInv, Budget
<1>5. DOMAIN pc = Requests
  BY DEF LoadInv, ClientOK
<1> QED
  BY <1>1, <1>2, <1>3, <1>4, <1>5, SameTokens

\* Nor do the trainer's, which at most interrupt what had room left.
LEMMA BudgetTrainer == ASSUME BudgetInv, LoadInv, Trainer PROVE BudgetInv'
<1>1. CASE Sync \/ Instruct
  <2>1. UNCHANGED <<out, toks, pc, stop, weights>> /\ version' \in Versions
    BY <1>1, ServingAssumption
       DEF Sync, Instruct, clientVars, callVars, resultVars, serverVars, Versions,
           BudgetInv, BudgetType, ServingAssumption
  <2>2. BudgetType'
    BY <2>1 DEF BudgetInv, BudgetType
  <2> QED
    BY <2>1, <2>2, SameTokens
<1>2. ASSUME NEW s \in Servers, Operate(s) PROVE BudgetInv'
  <2>1. /\ toks' = toks /\ version' = version
        /\ Abort(s) \/ Resume(s) \/ \E op : Device(s, op)
    BY <1>2 DEF Operate, resultVars
  <2>2. out' = out
    BY <2>1 DEF Abort, Resume, Device
  <2>3. weights' = weights \/ \E x \in Tokens : weights' = [weights EXCEPT ![s] = x]
    <3>1. ASSUME NEW op, Device(s, op) PROVE \E x \in Tokens : weights' = [weights EXCEPT ![s] = x]
      <4>1. version \in Tokens /\ Mixed \in Tokens /\ weights[s] \in Tokens
        BY DEF Tokens, BudgetInv, BudgetType
      <4>2. \/ weights' = [weights EXCEPT ![s] = version]
            \/ weights' = [weights EXCEPT ![s] = Mixed]
            \/ weights' = [weights EXCEPT ![s] = weights[s]]
        BY <3>1 DEF Device
      <4> QED
        BY <4>1, <4>2
    <3> QED
      BY <2>1, <3>1 DEF Abort, Resume
  <2>4. BudgetType'
    BY <2>1, <2>2, <2>3 DEF BudgetInv, BudgetType
  <2>5. \A r \in Requests :
              \/ pc'[r] = pc[r] /\ stop'[r] = stop[r]
              \/ pc'[r] = "failed" /\ pc[r] = "blocked"
              \/ pc'[r] = "serving" /\ pc[r] = "blocked"
              \/ pc'[r] = "reply" /\ pc[r] = "serving"
    <3>1. CASE Abort(s)
      BY <3>1 DEF Abort, Ended, Calls
    <3>2. CASE Resume(s)
      BY <3>2 DEF Resume, Calls
    <3>3. CASE \E op : Device(s, op)
      BY <3>3 DEF Device
    <3> QED
      BY <2>1, <3>1, <3>2, <3>3
  <2>6. \A r \in Requests : pc[r] = "blocked" => out[r] = <<>>
    BY DEF BudgetInv, Budget
  <2> QED
    BY <2>1, <2>2, <2>4, <2>5, <2>6, SameTokens
<1> QED
  BY <1>1, <1>2 DEF Trainer

\* Every step keeps the budget.
LEMMA BudgetNext == ASSUME LoadInv, BudgetInv, [Next]_vars PROVE BudgetInv'
<1>1. LoadInv'
  BY LoadNext
<1>2. ASSUME NEW r \in Requests, Client(r) PROVE BudgetInv'
  BY <1>2, BudgetToken, BudgetReceive, BudgetOther DEF Client
<1>3. CASE Trainer
  BY <1>3, BudgetTrainer
<1>4. CASE UNCHANGED vars
  <2>1. UNCHANGED <<out, toks, pc, stop, weights, version>>
    BY <1>4 DEF vars, clientVars, callVars, resultVars, serverVars, trainerVars
  <2>2. BudgetType'
    BY <2>1 DEF BudgetInv, BudgetType
  <2> QED
    BY <1>1, <2>1, <2>2, SameTokens
<1> QED
  BY <1>2, <1>3, <1>4 DEF Next

\* However often a generation is interrupted, and wherever, prompt and response
\* stay within prompt_length + response_length.
THEOREM ResponseStaysWithin == Spec => []ResponseFits
<1>1. Init => LoadInv /\ BudgetInv
  BY LoadInit, BudgetInit
<1>2. LoadInv /\ BudgetInv /\ [Next]_vars => (LoadInv /\ BudgetInv)'
  BY LoadNext, BudgetNext
<1>3. BudgetInv => ResponseFits
  BY DEF BudgetInv, Budget, Written, Total, ResponseFits
<1> QED
  BY <1>1, <1>2, <1>3, PTL DEF Spec

-----------------------------------------------------------------------------
(* The trainer's calls and what may happen between two of them *)

StopS == Call(Standalone, <<"abort">>)
LoadS == Call(Standalone, <<"wipe", "load", "label">>)
ResumeS == Call(Standalone, <<"resume">>)
WakeH == Call(Hybrid, <<"load", "label", "wake">>)
StopH == Call(Hybrid, <<"abort">>)
ResumeH == Call(Hybrid, <<"resume">>)
SleepH == Call(Hybrid, <<"sleep">>)
Add == Pool("add")
Try == Pool("validate")
Drop == Pool("remove")

\* What the order of the calls guarantees: servers are stopped before their weights
\* are loaded, and before they leave the pool to be put to sleep; what is added is
\* removed again, is awake by then, and sleeps only afterwards.
Ordered(p) ==
    /\ \A i \in 2 .. Len(p) :
          /\ p[i] = LoadS => p[i - 1] = StopS
          /\ p[i] = Drop => p[i - 1] = StopH
          /\ p[i] = SleepH => p[i - 1] = Drop
    /\ \A i \in 1 .. Len(p) : p[i] = Add => \E j \in i + 1 .. Len(p) : p[j] = Drop
    /\ \A i, j \in 1 .. Len(p) : i < j /\ p[j] = Add => p[i] # SleepH

\* every addition to the pool comes after a call that wakes the servers
Woken(p) == \A j \in 1 .. Len(p) : p[j] = Add => \E i \in 1 .. j - 1 : p[i] = WakeH

\* The calls that the order speaks of are told apart.
LEMMA CallsDiffer ==
    /\ LoadS \notin {StopS, ResumeS, WakeH, StopH, ResumeH, SleepH, Add, Try, Drop}
    /\ WakeH \notin {StopS, ResumeS, StopH, ResumeH, SleepH, Add, Try, Drop}
    /\ SleepH \notin {StopS, ResumeS, StopH, ResumeH, Add, Try, Drop}
    /\ Add \notin {StopS, ResumeS, StopH, ResumeH, Try, Drop}
    /\ Drop \notin {StopS, ResumeS, StopH, ResumeH, Try}
<1>1. Standalone # Hybrid
  BY ServingAssumption DEF ServingAssumption
<1>2. /\ Add \notin {StopS, ResumeS, StopH, ResumeH, LoadS, WakeH, SleepH, Try, Drop}
      /\ Drop \notin {StopS, ResumeS, StopH, ResumeH, LoadS, WakeH, SleepH, Try}
      /\ Try \notin {LoadS, WakeH, SleepH}
  BY DEF Add, Try, Drop, StopS, ResumeS, StopH, ResumeH, LoadS, WakeH, SleepH, Call, Pool
<1>3. LoadS \notin {WakeH, StopH, ResumeH, SleepH}
  BY <1>1 DEF WakeH, StopH, ResumeH, SleepH, LoadS, Call
<1>4. WakeH \notin {StopS, ResumeS} /\ SleepH \notin {StopS, ResumeS}
  BY <1>1 DEF WakeH, StopS, ResumeS, SleepH, Call
<1>5. <<"wipe", "load", "label">> # <<"abort">> /\ <<"wipe", "load", "label">> # <<"resume">>
  OBVIOUS
<1>6. /\ <<"load", "label", "wake">> # <<"abort">> /\ <<"load", "label", "wake">> # <<"resume">>
      /\ <<"load", "label", "wake">> # <<"sleep">>
      /\ <<"sleep">> # <<"abort">> /\ <<"sleep">> # <<"resume">>
  OBVIOUS
<1>7. LoadS \notin {StopS, ResumeS}
  BY <1>5 DEF LoadS, StopS, ResumeS, Call
<1>8. WakeH \notin {StopH, ResumeH, SleepH} /\ SleepH \notin {StopH, ResumeH}
  BY <1>6 DEF WakeH, StopH, ResumeH, SleepH, Call
<1> QED
  BY <1>2, <1>3, <1>4, <1>7, <1>8

\* Where the calls are in a validation before training.
LEMMA ValidatePlaces ==
    /\ Validate \in Seq(Steps) /\ Len(Validate) = 13 /\ Validate[1] = WakeH /\ Validate[9] = StopH
    /\ \A i \in 1 .. 13 : /\ Validate[i] # LoadS
                          /\ Validate[i] = WakeH <=> i = 1
                          /\ Validate[i] = Add <=> i = 4
                          /\ Validate[i] = Drop <=> i = 10
                          /\ Validate[i] = SleepH <=> i = 11
<1>1. Validate = <<WakeH, StopS, StopH, Add, ResumeS, ResumeH, Try,
                   StopS, StopH, Drop, SleepH, ResumeS, ResumeH>>
  BY DEF Validate, HybridUpdate, StopS, ResumeS, WakeH, StopH, Add, ResumeH, Try, Drop, SleepH
<1>2. /\ Len(Validate) = 13
      /\ Validate[1] = WakeH /\ Validate[2] = StopS /\ Validate[3] = StopH /\ Validate[4] = Add
      /\ Validate[5] = ResumeS /\ Validate[6] = ResumeH /\ Validate[7] = Try /\ Validate[8] = StopS
      /\ Validate[9] = StopH /\ Validate[10] = Drop /\ Validate[11] = SleepH
      /\ Validate[12] = ResumeS /\ Validate[13] = ResumeH
  BY <1>1
<1>3. \A i \in 1 .. 13 : /\ Validate[i] # LoadS
                         /\ Validate[i] = WakeH <=> i = 1
                         /\ Validate[i] = Add <=> i = 4
                         /\ Validate[i] = Drop <=> i = 10
                         /\ Validate[i] = SleepH <=> i = 11
  BY <1>2, CallsDiffer
<1> QED
  BY <1>2, <1>3, ScriptTypes

\* It is in order, too.
LEMMA ValidateOrdered ==
    /\ Ordered(Validate) /\ Woken(Validate) /\ Validate # <<>> /\ Head(Validate) = WakeH
<1>1. /\ Validate \in Seq(Steps) /\ Len(Validate) = 13 /\ Validate[1] = WakeH /\ Validate[9] = StopH
      /\ \A i \in 1 .. 13 : /\ Validate[i] # LoadS
                            /\ Validate[i] = WakeH <=> i = 1
                            /\ Validate[i] = Add <=> i = 4
                            /\ Validate[i] = Drop <=> i = 10
                            /\ Validate[i] = SleepH <=> i = 11
  BY ValidatePlaces
<1>2. Validate # <<>> /\ Head(Validate) = WakeH
  <2>1. Validate # <<>>
    BY DEF Validate
  <2> QED
    BY <1>1, <2>1, HeadTailProperties
<1>3. Ordered(Validate) /\ Woken(Validate)
  BY <1>1 DEF Ordered, Woken
<1> QED
  BY <1>2, <1>3

\* Where the calls are in the two scripts.
LEMMA ScriptPlaces ==
    ASSUME NEW p \in {Update, Update \o Validate}
    PROVE  /\ p \in Seq(Steps) /\ Len(p) \in {3, 16} /\ p[1] = StopS
           /\ Len(p) = 16 => p[12] = StopH
           /\ \A i \in 1 .. Len(p) : /\ p[i] = LoadS <=> i = 2
                                     /\ p[i] = WakeH <=> i = 4
                                     /\ p[i] = Add <=> i = 7
                                     /\ p[i] = Drop <=> i = 13
                                     /\ p[i] = SleepH <=> i = 14
<1>1. Update = <<StopS, LoadS, ResumeS>>
  BY DEF Update, StopS, LoadS, ResumeS
<1>2. Validate = <<WakeH, StopS, StopH, Add, ResumeS, ResumeH, Try,
                   StopS, StopH, Drop, SleepH, ResumeS, ResumeH>>
  BY DEF Validate, HybridUpdate, StopS, ResumeS, WakeH, StopH, Add, ResumeH, Try, Drop, SleepH
<1>3. p \in Seq(Steps)
  BY ScriptTypes
<1>4. CASE p = Update
  <2>1. Len(p) = 3 /\ p[1] = StopS /\ p[2] = LoadS /\ p[3] = ResumeS
    BY <1>1, <1>4
  <2>2. \A i \in 1 .. 3 : i = 1 \/ i = 2 \/ i = 3
    OBVIOUS
  <2> QED
    BY <1>3, <2>1, <2>2, CallsDiffer
<1>5. CASE p = Update \o Validate
  <2>1. Len(Update) = 3 /\ Len(Validate) = 13
    BY <1>1, <1>2
  <2>2. /\ Len(p) = Len(Update) + Len(Validate)
        /\ \A i \in 1 .. Len(Update) + Len(Validate) :
              p[i] = IF i <= Len(Update) THEN Update[i] ELSE Validate[i - Len(Update)]
    BY <1>5, ScriptTypes, ConcatProperties, Zenon
  <2>3. Len(p) = 16 /\ \A i \in 1 .. 16 : p[i] = IF i <= 3 THEN Update[i] ELSE Validate[i - 3]
    BY <2>1, <2>2
  <2>4. \A i \in 1 .. 13 : p[i + 3] = Validate[i]
    BY <2>3
  <2>5. p[1] = StopS /\ p[2] = LoadS /\ p[3] = ResumeS
    BY <1>1, <2>3
  <2>6. /\ p[1 + 3] = WakeH /\ p[2 + 3] = StopS /\ p[3 + 3] = StopH /\ p[4 + 3] = Add
        /\ p[5 + 3] = ResumeS /\ p[6 + 3] = ResumeH /\ p[7 + 3] = Try /\ p[8 + 3] = StopS
        /\ p[9 + 3] = StopH /\ p[10 + 3] = Drop /\ p[11 + 3] = SleepH /\ p[12 + 3] = ResumeS
        /\ p[13 + 3] = ResumeH
    BY <1>2, <2>4
  <2>7. \A i \in 1 .. 16 : /\ p[i] = LoadS <=> i = 2
                           /\ p[i] = WakeH <=> i = 4
                           /\ p[i] = Add <=> i = 7
                           /\ p[i] = Drop <=> i = 13
                           /\ p[i] = SleepH <=> i = 14
    BY <2>3, <2>5, <2>6, CallsDiffer
  <2> QED
    BY <1>3, <2>3, <2>5, <2>6, <2>7
<1> QED
  BY <1>4, <1>5

\* Both scripts of the trainer are in order.
LEMMA ScriptsOrdered ==
    \A p \in {Update, Update \o Validate} : Ordered(p) /\ Woken(p) /\ p # <<>> /\ Head(p) = StopS
<1> SUFFICES ASSUME NEW p \in {Update, Update \o Validate}
             PROVE  Ordered(p) /\ Woken(p) /\ p # <<>> /\ Head(p) = StopS
  OBVIOUS
<1>1. /\ p \in Seq(Steps) /\ Len(p) \in {3, 16} /\ p[1] = StopS
      /\ Len(p) = 16 => p[12] = StopH
      /\ \A i \in 1 .. Len(p) : /\ p[i] = LoadS <=> i = 2
                                /\ p[i] = WakeH <=> i = 4
                                /\ p[i] = Add <=> i = 7
                                /\ p[i] = Drop <=> i = 13
                                /\ p[i] = SleepH <=> i = 14
  BY ScriptPlaces
<1>2. p # <<>> /\ Head(p) = StopS
  BY <1>1, HeadTailProperties
<1>3. Ordered(p) /\ Woken(p)
  <2>1. CASE Len(p) = 3
    BY <1>1, <2>1 DEF Ordered, Woken
  <2>2. CASE Len(p) = 16
    BY <1>1, <2>2 DEF Ordered, Woken
  <2> QED
    BY <1>1, <2>1, <2>2
<1> QED
  BY <1>2, <1>3

\* What is in order stays so as calls are made.
LEMMA TailOrdered ==
    ASSUME NEW p \in Seq(Steps), p # <<>>, Ordered(p) PROVE Ordered(Tail(p))
<1>1. /\ Len(Tail(p)) = Len(p) - 1 /\ Len(p) \in Nat \ {0}
      /\ \A i \in 1 .. Len(p) - 1 : Tail(p)[i] = p[i + 1] /\ i + 1 \in 1 .. Len(p)
  BY HeadTailProperties, EmptySeq
<1>2. \A i \in 2 .. Len(p) - 1 :
         /\ Tail(p)[i] = LoadS => Tail(p)[i - 1] = StopS
         /\ Tail(p)[i] = Drop => Tail(p)[i - 1] = StopH
         /\ Tail(p)[i] = SleepH => Tail(p)[i - 1] = Drop
  <2> SUFFICES ASSUME NEW i \in 2 .. Len(p) - 1
               PROVE  /\ Tail(p)[i] = LoadS => Tail(p)[i - 1] = StopS
                      /\ Tail(p)[i] = Drop => Tail(p)[i - 1] = StopH
                      /\ Tail(p)[i] = SleepH => Tail(p)[i - 1] = Drop
    OBVIOUS
  <2>1. i \in 1 .. Len(p) - 1 /\ i - 1 \in 1 .. Len(p) - 1 /\ (i - 1) + 1 = i /\ (i + 1) - 1 = i
        /\ i + 1 \in 2 .. Len(p)
    BY <1>1
  <2>2. Tail(p)[i] = p[i + 1] /\ Tail(p)[i - 1] = p[(i + 1) - 1]
    BY <1>1, <2>1
  <2> QED
    BY <2>1, <2>2 DEF Ordered
<1>3. ASSUME NEW i \in 1 .. Len(p) - 1, Tail(p)[i] = Add
      PROVE  \E j \in i + 1 .. Len(p) - 1 : Tail(p)[j] = Drop
  <2>1. PICK k \in i + 2 .. Len(p) : p[k] = Drop
    BY <1>1, <1>3 DEF Ordered
  <2>2. k - 1 \in i + 1 .. Len(p) - 1 /\ k - 1 \in 1 .. Len(p) - 1 /\ (k - 1) + 1 = k
    BY <1>1
  <2> QED
    BY <1>1, <2>1, <2>2
<1>4. ASSUME NEW i \in 1 .. Len(p) - 1, NEW j \in 1 .. Len(p) - 1, i < j
      PROVE  Tail(p)[j] = Add => Tail(p)[i] # SleepH
  <2>1. i + 1 < j + 1
    BY <1>4
  <2> QED
    BY <1>1, <2>1 DEF Ordered
<1> QED
  BY <1>1, <1>2, <1>3, <1>4 DEF Ordered

-----------------------------------------------------------------------------
(* The servers between two calls *)

AbortOps == <<"abort">>
WipeOps == <<"wipe", "load", "label">>
LoadOps == <<"load", "label">>
LabelOps == <<"label">>
WakeOps == <<"load", "label", "wake">>
NamedOps == <<"label", "wake">>
LastOps == <<"wake">>
ResumeOps == <<"resume">>
SleepOps == <<"sleep">>

Ahead(c) == \E i \in 1 .. Len(script) : script[i] = c
First(c) == script # <<>> /\ Head(script) = c

\* stopped, or about to be
Stopped(s) == todo[s] = AbortOps \/ (todo[s] = <<>> /\ paused[s])

StandaloneOK(s) ==
    /\ ~asleep[s]
    /\ todo[s] \in {<<>>, AbortOps, WipeOps, LoadOps, LabelOps, ResumeOps}
    /\ weights[s] = Mixed => paused[s] /\ todo[s] = LoadOps
    /\ todo[s] \in {WipeOps, LoadOps} => paused[s]
    /\ First(LoadS) => Stopped(s)

HybridOK(h) ==
    /\ todo[h] \in {<<>>, AbortOps, WakeOps, NamedOps, LastOps, ResumeOps, SleepOps}
    /\ weights[h] = Mixed => asleep[h] /\ todo[h] \notin {NamedOps, LastOps}
    /\ todo[h] = SleepOps => paused[h] /\ h \notin DOMAIN inflight /\ ~Ahead(Add)
    /\ First(Drop) \/ First(SleepH) => Stopped(h)
    /\ First(SleepH) => h \notin DOMAIN inflight
    /\ h \in DOMAIN inflight => ~asleep[h] /\ Ahead(Drop)
    /\ \A j \in 1 .. Len(script) : script[j] = Add =>
          \/ \E i \in 1 .. j - 1 : script[i] = WakeH
          \/ todo[h] \in {WakeOps, NamedOps, LastOps}
          \/ ~asleep[h] /\ todo[h] # SleepOps

PhaseTypes ==
    /\ DOMAIN todo = Servers
    /\ paused \in [Servers -> BOOLEAN] /\ asleep \in [Servers -> BOOLEAN]
    /\ DOMAIN weights = Servers /\ version \in Nat

\* a server that is stopped or asleep generates nothing
NothingServed == \A s \in Servers : paused[s] \/ asleep[s] => Calls(s, "serving") = {}

PhaseInv ==
    /\ PhaseTypes /\ Ordered(script) /\ NothingServed
    /\ \A s \in Standalone : StandaloneOK(s)
    /\ \A h \in Hybrid : HybridOK(h)

\* The operations of a call are told apart by the first of them.
LEMMA OpsSteps ==
    /\ AbortOps # <<>> /\ Head(AbortOps) = "abort" /\ Tail(AbortOps) = <<>>
    /\ WipeOps # <<>> /\ Head(WipeOps) = "wipe" /\ Tail(WipeOps) = LoadOps
    /\ LoadOps # <<>> /\ Head(LoadOps) = "load" /\ Tail(LoadOps) = LabelOps
    /\ LabelOps # <<>> /\ Head(LabelOps) = "label" /\ Tail(LabelOps) = <<>>
    /\ WakeOps # <<>> /\ Head(WakeOps) = "load" /\ Tail(WakeOps) = NamedOps
    /\ NamedOps # <<>> /\ Head(NamedOps) = "label" /\ Tail(NamedOps) = LastOps
    /\ LastOps # <<>> /\ Head(LastOps) = "wake" /\ Tail(LastOps) = <<>>
    /\ ResumeOps # <<>> /\ Head(ResumeOps) = "resume" /\ Tail(ResumeOps) = <<>>
    /\ SleepOps # <<>> /\ Head(SleepOps) = "sleep" /\ Tail(SleepOps) = <<>>
  BY DEF AbortOps, WipeOps, LoadOps, LabelOps, WakeOps, NamedOps, LastOps, ResumeOps, SleepOps

\* what a call asks of a server
Asked(c, s) == IF s \in c.on THEN c.ops ELSE <<>>

\* Every call asks of a server of the rollouter, and of a hybrid one, one of a few
\* things, and two calls change the pool.
LEMMA CallsAsk ==
    ASSUME NEW c \in Steps
    PROVE  /\ \A s \in Standalone :
                 /\ Asked(c, s) \in {<<>>, AbortOps, WipeOps, ResumeOps}
                 /\ c = StopS => Asked(c, s) = AbortOps
                 /\ Asked(c, s) = WipeOps => c = LoadS
           /\ \A h \in Hybrid :
                 /\ Asked(c, h) \in {<<>>, AbortOps, WakeOps, ResumeOps, SleepOps}
                 /\ c = StopH => Asked(c, h) = AbortOps
                 /\ Asked(c, h) = WakeOps <=> c = WakeH
                 /\ Asked(c, h) = SleepOps => c = SleepH
                 /\ c \in {Add, Drop} => Asked(c, h) = <<>>
           /\ c.on \in {Standalone, Hybrid}
           /\ c.kind = "add" <=> c = Add
           /\ c.kind = "remove" <=> c = Drop
<1>1. c \in {StopS, LoadS, ResumeS, WakeH, StopH, ResumeH, SleepH, Add, Try, Drop}
  BY DEF Steps, StopS, LoadS, ResumeS, WakeH, StopH, ResumeH, SleepH, Add, Try, Drop
<1>2. /\ StopS.on = Standalone /\ StopS.ops = AbortOps /\ StopS.kind = "call"
      /\ LoadS.on = Standalone /\ LoadS.ops = WipeOps /\ LoadS.kind = "call"
      /\ ResumeS.on = Standalone /\ ResumeS.ops = ResumeOps /\ ResumeS.kind = "call"
      /\ WakeH.on = Hybrid /\ WakeH.ops = WakeOps /\ WakeH.kind = "call"
      /\ StopH.on = Hybrid /\ StopH.ops = AbortOps /\ StopH.kind = "call"
      /\ ResumeH.on = Hybrid /\ ResumeH.ops = ResumeOps /\ ResumeH.kind = "call"
      /\ SleepH.on = Hybrid /\ SleepH.ops = SleepOps /\ SleepH.kind = "call"
      /\ Add.on = Hybrid /\ Add.ops = <<>> /\ Add.kind = "add"
      /\ Try.on = Hybrid /\ Try.ops = <<>> /\ Try.kind = "validate"
      /\ Drop.on = Hybrid /\ Drop.ops = <<>> /\ Drop.kind = "remove"
  BY DEF StopS, LoadS, ResumeS, WakeH, StopH, ResumeH, SleepH, Add, Try, Drop, Call, Pool,
         AbortOps, WipeOps, WakeOps, ResumeOps, SleepOps
<1>3. \A s \in Standalone : s \notin Hybrid
  BY ServingAssumption DEF ServingAssumption
<1>4. c.on \in {Standalone, Hybrid} /\ (c.kind = "add" <=> c = Add) /\ (c.kind = "remove" <=> c = Drop)
  BY <1>1, <1>2, CallsDiffer
<1>5. ASSUME NEW s \in Standalone
      PROVE  /\ Asked(c, s) \in {<<>>, AbortOps, WipeOps, ResumeOps}
             /\ c = StopS => Asked(c, s) = AbortOps
             /\ Asked(c, s) = WipeOps => c = LoadS
  BY <1>1, <1>2, <1>3, OpsSteps DEF Asked
<1>6. ASSUME NEW h \in Hybrid
      PROVE  /\ Asked(c, h) \in {<<>>, AbortOps, WakeOps, ResumeOps, SleepOps}
             /\ c = StopH => Asked(c, h) = AbortOps
             /\ Asked(c, h) = WakeOps <=> c = WakeH
             /\ Asked(c, h) = SleepOps => c = SleepH
             /\ c \in {Add, Drop} => Asked(c, h) = <<>>
  BY <1>1, <1>2, <1>3, OpsSteps, CallsDiffer DEF Asked
<1> QED
  BY <1>4, <1>5, <1>6

\* At first nothing is stopped, and the hybrid servers are asleep and out of the pool.
LEMMA PhaseInit == ASSUME Init PROVE PhaseInv
<1>1. /\ script \in {<<>>, Validate} /\ todo = [s \in Servers |-> <<>>] /\ version = 0
      /\ paused = [s \in Servers |-> FALSE] /\ asleep = [s \in Servers |-> s \in Hybrid]
      /\ weights = [s \in Servers |-> IF s \in Hybrid THEN Mixed ELSE 0]
      /\ DOMAIN inflight = Standalone /\ \A r \in Requests : pc[r] = "ready"
  BY DEF Init
<1>2. \A s \in Standalone : s \notin Hybrid /\ s \in Servers
  BY ServingAssumption DEF ServingAssumption, Servers
<1>3. PhaseTypes
  BY <1>1 DEF PhaseTypes
<1>4. Ordered(script) /\ Woken(script) /\ (script = <<>> \/ Head(script) = WakeH)
  <2>1. CASE script = <<>>
    BY <2>1 DEF Ordered, Woken
  <2>2. CASE script = Validate
    BY <2>2, ValidateOrdered
  <2> QED
    BY <1>1, <2>1, <2>2
<1>5. NothingServed
  BY <1>1 DEF NothingServed, Calls
<1>6. \A s \in Standalone : StandaloneOK(s)
  <2> SUFFICES ASSUME NEW s \in Standalone PROVE StandaloneOK(s)
    OBVIOUS
  <2>1. todo[s] = <<>> /\ weights[s] = 0
    BY <1>1, <1>2
  <2>2. ~asleep[s]
    BY <1>1, <1>2
  <2>3. ~First(LoadS) /\ weights[s] # Mixed
    BY <1>4, <2>1, CallsDiffer DEF First, Mixed
  <2> QED
    BY <2>1, <2>2, <2>3, OpsSteps DEF StandaloneOK
<1>7. \A h \in Hybrid : HybridOK(h)
  <2> SUFFICES ASSUME NEW h \in Hybrid PROVE HybridOK(h)
    OBVIOUS
  <2>1. todo[h] = <<>> /\ asleep[h] /\ h \notin DOMAIN inflight
    BY <1>1, <1>2 DEF Servers
  <2>2. ~First(Drop) /\ ~First(SleepH)
    BY <1>4, CallsDiffer DEF First
  <2> QED
    BY <1>4, <2>1, <2>2, OpsSteps DEF HybridOK, Woken
<1> QED
  BY <1>3, <1>4, <1>5, <1>6, <1>7 DEF PhaseInv

\* A client begins to generate only on a server that runs and is awake.
LEMMA ClientServed ==
    ASSUME LoadInv, NEW r \in Requests, Client(r), NEW s \in Servers
    PROVE  \A q \in Calls(s, "serving")' : q \in Calls(s, "serving") \/ (~paused[s] /\ ~asleep[s])
<1> USE DEF Calls
<1>0. DOMAIN pc = Requests /\ DOMAIN srv = Requests
  BY DEF LoadInv, ClientOK
<1>1. CASE Acquire(r)
  BY <1>0, <1>1 DEF Acquire
<1>2. CASE Arrive(r)
  <2>1. pc[r] = "routed" /\ srv' = srv
    BY <1>2 DEF Arrive
  <2>2. \/ pc' = [pc EXCEPT ![r] = "failed"] \/ pc' = [pc EXCEPT ![r] = "blocked"]
        \/ pc' = [pc EXCEPT ![r] = "serving"] /\ ~paused[srv[r]] /\ ~asleep[srv[r]]
    BY <1>2 DEF Arrive, Raise
  <2> QED
    BY <1>0, <2>1, <2>2
<1>3. CASE Token(r)
  <2>1. srv' = srv /\ (pc' = pc \/ pc' = [q \in Requests |-> IF q \in {r} THEN "reply" ELSE pc[q]])
    BY <1>3 DEF Token, Ended
  <2> QED
    BY <1>0, <2>1
<1>4. CASE Receive(r)
  <2>1. \E p \in {"ready", "done"} : pc' = [pc EXCEPT ![r] = p]
    BY <1>4 DEF Receive
  <2>2. \A q \in Requests : pc'[q] = "serving" => q # r /\ pc[q] = "serving"
    BY <1>0, <2>1
  <2>3. \A q \in Requests : q # r => srv'[q] = srv[q]
    BY <1>0, <1>4 DEF Receive
  <2> QED
    BY <2>2, <2>3
<1>5. CASE Release(r)
  BY <1>5 DEF Release, clientVars
<1> QED
  BY <1>1, <1>2, <1>3, <1>4, <1>5 DEF Client

\* No client touches a server or the trainer's plan.
LEMMA ClientElsewhere ==
    ASSUME LoadInv, NEW r \in Requests, Client(r)
    PROVE  UNCHANGED <<paused, asleep, weights, script, todo, version>> /\ DOMAIN inflight' = DOMAIN inflight
<1>1. UNCHANGED <<paused, asleep, weights, script, todo, version>>
  BY DEF Client, Acquire, Arrive, Token, Receive, Release, serverVars, trainerVars
<1>2. CASE Acquire(r)
  BY <1>1, <1>2 DEF Acquire, AcquireServer
<1>3. CASE Release(r)
  BY <1>1, <1>3 DEF Release, ReleaseServer
<1>4. CASE Arrive(r) \/ Token(r) \/ Receive(r)
  BY <1>1, <1>4 DEF Arrive, Token, Receive, lbVars
<1> QED
  BY <1>1, <1>2, <1>3, <1>4 DEF Client

\* The clients keep the phases.
LEMMA PhaseClient == ASSUME LoadInv, PhaseInv, NEW r \in Requests, Client(r) PROVE PhaseInv'
<1>1. /\ UNCHANGED <<paused, asleep, weights, script, todo, version>>
      /\ DOMAIN inflight' = DOMAIN inflight
  BY ClientElsewhere
<1>2. PhaseTypes' /\ Ordered(script)'
  BY <1>1 DEF PhaseInv, PhaseTypes
<1>3. NothingServed'
  BY <1>1, ClientServed DEF PhaseInv, NothingServed
<1>4. ASSUME NEW s \in Standalone PROVE StandaloneOK(s)'
  <2>1. StandaloneOK(s)
    BY DEF PhaseInv
  <2> QED
    BY <1>1, <2>1 DEF StandaloneOK, First, Stopped
<1>5. ASSUME NEW h \in Hybrid PROVE HybridOK(h)'
  <2>1. HybridOK(h) /\ h \in Servers
    BY DEF PhaseInv, Servers
  <2>2. /\ Stopped(h)' <=> Stopped(h)
        /\ \A c : (First(c)' <=> First(c)) /\ (Ahead(c)' <=> Ahead(c))
    BY <1>1 DEF Stopped, First, Ahead
  <2> QED
    BY <1>1, <2>1, <2>2 DEF HybridOK
<1> QED
  BY <1>2, <1>3, <1>4, <1>5 DEF PhaseInv

\* Two scripts that begin with nothing under way.
LEMMA PhaseSync == ASSUME LoadInv, PhaseInv, Sync PROVE PhaseInv'
<1>1. /\ script = <<>> /\ Len(script) = 0 /\ todo = [s \in Servers |-> <<>>]
      /\ version' = version + 1 /\ script' \in {Update, Update \o Validate}
      /\ UNCHANGED <<inflight, pc, srv, paused, asleep, weights, todo>>
  BY DEF Sync, lbVars, clientVars, serverVars
<1>2. Ordered(script') /\ Woken(script') /\ script' # <<>> /\ Head(script') = StopS
  BY <1>1, ScriptsOrdered
<1>3. PhaseTypes'
  BY <1>1 DEF PhaseInv, PhaseTypes
<1>4. NothingServed'
  BY <1>1 DEF PhaseInv, NothingServed, Calls
<1>5. ASSUME NEW s \in Standalone PROVE StandaloneOK(s)'
  <2>1. StandaloneOK(s)
    BY DEF PhaseInv
  <2>2. ~First(LoadS)'
    BY <1>2, CallsDiffer DEF First
  <2> QED
    BY <1>1, <2>1, <2>2 DEF StandaloneOK
<1>6. ASSUME NEW h \in Hybrid PROVE HybridOK(h)'
  <2>1. HybridOK(h) /\ todo[h] = <<>> /\ ~Ahead(Drop)
    BY <1>1 DEF PhaseInv, Ahead, Servers
  <2>2. h \notin DOMAIN inflight'
    BY <1>1, <2>1 DEF HybridOK
  <2>3. ~First(Drop)' /\ ~First(SleepH)'
    BY <1>2, CallsDiffer DEF First
  <2> QED
    BY <1>1, <1>2, <2>1, <2>2, <2>3, OpsSteps DEF HybridOK, Woken
<1> QED
  BY <1>2, <1>3, <1>4, <1>5, <1>6 DEF PhaseInv

\* A call is made when the last one was answered by all, and finds the servers as
\* the order of the calls promises.
LEMMA PhaseInstruct == ASSUME LoadInv, PhaseInv, Instruct PROVE PhaseInv'
<1> DEFINE c == Head(script)
<1>1. /\ script # <<>> /\ script' = Tail(script)
      /\ todo = [s \in Servers |-> <<>>] /\ todo' = [s \in Servers |-> Asked(c, s)]
      /\ UNCHANGED <<pc, srv, paused, asleep, weights, version>>
  BY DEF Instruct, Asked, clientVars, serverVars
<1>2. /\ script \in Seq(Steps) /\ c \in Steps /\ script[1] = c /\ Len(script) \in Nat \ {0}
      /\ Len(script') = Len(script) - 1
      /\ \A i \in 1 .. Len(script) - 1 : script'[i] = script[i + 1] /\ i + 1 \in 1 .. Len(script)
      /\ script' # <<>> => Head(script') = script[2] /\ 2 \in 2 .. Len(script)
  <2>1. script \in Seq(Steps) /\ c \in Steps /\ script[1] = c /\ Len(script) \in Nat \ {0}
    BY <1>1, HeadTailProperties, EmptySeq DEF LoadInv, ScriptOK
  <2>2. /\ script' \in Seq(Steps) /\ Len(script') = Len(script) - 1
        /\ \A i \in 1 .. Len(script) - 1 : script'[i] = script[i + 1]
    BY <1>1, <2>1, HeadTailProperties
  <2>3. script' # <<>> => Len(script') \in Nat \ {0}
    BY <2>2, EmptySeq
  <2>4. script' # <<>> => Head(script') = script[2] /\ 2 \in 2 .. Len(script)
    <3> SUFFICES ASSUME script' # <<>> PROVE Head(script') = script[2] /\ 2 \in 2 .. Len(script)
      OBVIOUS
    <3>1. 1 \in 1 .. Len(script) - 1 /\ 2 \in 2 .. Len(script)
      BY <2>1, <2>2, <2>3
    <3>2. script'[1] = script[2]
      BY <2>2, <3>1
    <3> QED
      BY <2>2, <3>1, <3>2
  <2> QED
    BY <2>1, <2>2, <2>4
<1>3. Ordered(script) /\ Ordered(script')
  BY <1>1, <1>2, TailOrdered DEF PhaseInv
<1>4. /\ script' # <<>> /\ Head(script') = LoadS => c = StopS
      /\ script' # <<>> /\ Head(script') = Drop => c = StopH
      /\ script' # <<>> /\ Head(script') = SleepH => c = Drop
  <2> SUFFICES ASSUME script' # <<>>
               PROVE  /\ Head(script') = LoadS => c = StopS
                      /\ Head(script') = Drop => c = StopH
                      /\ Head(script') = SleepH => c = Drop
    OBVIOUS
  <2>1. Head(script') = script[2] /\ 2 \in 2 .. Len(script) /\ script[2 - 1] = c
    BY <1>2
  <2> QED
    BY <1>3, <2>1 DEF Ordered
<1>5. PhaseTypes'
  BY <1>1 DEF PhaseInv, PhaseTypes
<1>6. NothingServed'
  BY <1>1 DEF PhaseInv, NothingServed, Calls
<1>7. \A d : Ahead(d)' => Ahead(d) /\ ~(c = SleepH /\ d = Add)
  <2> SUFFICES ASSUME NEW d, NEW i \in 1 .. Len(script) - 1, script'[i] = d
               PROVE  (\E k \in 1 .. Len(script) : script[k] = d) /\ ~(c = SleepH /\ d = Add)
    BY <1>2 DEF Ahead
  <2>1. script[i + 1] = d /\ i + 1 \in 1 .. Len(script) /\ 1 \in 1 .. Len(script) /\ 1 < i + 1
    BY <1>2
  <2> QED
    BY <1>2, <1>3, <2>1 DEF Ordered
<1>8. \A d : Ahead(d) => Ahead(d)' \/ c = d
  <2> SUFFICES ASSUME NEW d, NEW i \in 1 .. Len(script), script[i] = d, c # d
               PROVE  \E k \in 1 .. Len(script) - 1 : script'[k] = d
    BY <1>2 DEF Ahead
  <2>1. i - 1 \in 1 .. Len(script) - 1 /\ (i - 1) + 1 = i
    BY <1>2
  <2> QED
    BY <1>2, <2>1
<1>9. c = Add => Ahead(Drop)'
  <2> SUFFICES ASSUME c = Add PROVE Ahead(Drop)'
    OBVIOUS
  <2>1. PICK k \in 1 + 1 .. Len(script) : script[k] = Drop
    BY <1>2, <1>3 DEF Ordered
  <2>2. k - 1 \in 1 .. Len(script) - 1 /\ (k - 1) + 1 = k
    BY <1>2
  <2> QED
    BY <1>2, <2>1, <2>2 DEF Ahead
<1>10. /\ c = Add => DOMAIN inflight' = DOMAIN inflight \cup Hybrid
       /\ c = Drop => DOMAIN inflight' = DOMAIN inflight \ Hybrid
       /\ c # Add /\ c # Drop => DOMAIN inflight' = DOMAIN inflight
  <2>1. /\ c.kind = "add" <=> c = Add
        /\ c.kind = "remove" <=> c = Drop
        /\ Add.on = Hybrid /\ Drop.on = Hybrid /\ Add # Drop
    BY <1>2, CallsAsk, CallsDiffer DEF Add, Drop, Pool
  <2>2. CASE c = Add
    BY <2>1, <2>2 DEF Instruct, AddServers
  <2>3. CASE c = Drop
    BY <2>1, <2>3 DEF Instruct, RemoveServers
  <2>4. CASE c # Add /\ c # Drop
    BY <2>1, <2>4 DEF Instruct
  <2> QED
    BY <2>1, <2>2, <2>3, <2>4
<1>11. ASSUME NEW s \in Standalone PROVE StandaloneOK(s)'
  <2>1. StandaloneOK(s) /\ s \in Servers /\ todo[s] = <<>> /\ todo'[s] = Asked(c, s)
    BY <1>1 DEF PhaseInv, Servers
  <2>2. /\ Asked(c, s) \in {<<>>, AbortOps, WipeOps, ResumeOps}
        /\ c = StopS => Asked(c, s) = AbortOps
        /\ Asked(c, s) = WipeOps => c = LoadS
    BY <1>2, CallsAsk
  <2>3. c = LoadS => paused[s]
    BY <1>1, <2>1, OpsSteps DEF StandaloneOK, First, Stopped
  <2>4. First(LoadS)' => Stopped(s)'
    BY <1>4, <2>1, <2>2 DEF First, Stopped
  <2> HIDE DEF c
  <2> QED
    BY <1>1, <2>1, <2>2, <2>3, <2>4, OpsSteps DEF StandaloneOK
<1>12. ASSUME NEW h \in Hybrid PROVE HybridOK(h)'
  <2>1. HybridOK(h) /\ h \in Servers /\ todo[h] = <<>> /\ todo'[h] = Asked(c, h)
    BY <1>1 DEF PhaseInv, Servers
  <2>2. /\ Asked(c, h) \in {<<>>, AbortOps, WakeOps, ResumeOps, SleepOps}
        /\ c = StopH => Asked(c, h) = AbortOps
        /\ Asked(c, h) = WakeOps <=> c = WakeH
        /\ Asked(c, h) = SleepOps => c = SleepH
        /\ c \in {Add, Drop} => Asked(c, h) = <<>>
    BY <1>2, CallsAsk
  <2>3. c = Drop \/ c = SleepH => paused[h]
    BY <1>1, <2>1, OpsSteps DEF HybridOK, First, Stopped
  <2>4. c = SleepH => h \notin DOMAIN inflight
    BY <1>1, <2>1 DEF HybridOK, First
  <2>5. c = Add => ~asleep[h]
    <3> SUFFICES ASSUME c = Add PROVE ~asleep[h]
      OBVIOUS
    <3>1. 1 \in 1 .. Len(script) /\ script[1] = Add /\ 1 .. 1 - 1 = {}
      BY <1>2
    <3> QED
      BY <2>1, <3>1, OpsSteps DEF HybridOK
  <2>8. todo'[h] = SleepOps => paused[h] /\ h \notin DOMAIN inflight' /\ ~Ahead(Add)'
    BY <1>7, <1>10, <2>1, <2>2, <2>3, <2>4, CallsDiffer
  <2>9. First(Drop)' \/ First(SleepH)' => Stopped(h)'
    BY <1>1, <1>4, <2>1, <2>2, <2>3 DEF First, Stopped
  <2>10. First(SleepH)' => h \notin DOMAIN inflight'
    BY <1>4, <1>10 DEF First
  <2>12. h \in DOMAIN inflight' => ~asleep[h] /\ Ahead(Drop)'
    <3>1. CASE c = Add
      BY <1>9, <2>5, <3>1
    <3>2. CASE c = Drop
      BY <1>10, <3>2
    <3>3. CASE c # Add /\ c # Drop
      BY <1>8, <1>10, <2>1, <3>3 DEF HybridOK
    <3> QED
      BY <3>1, <3>2, <3>3
  <2>13. ASSUME NEW j \in 1 .. Len(script'), script'[j] = Add
         PROVE  \/ \E i \in 1 .. j - 1 : script'[i] = WakeH
                \/ todo'[h] \in {WakeOps, NamedOps, LastOps}
                \/ ~asleep[h] /\ todo'[h] # SleepOps
    <3>1. j + 1 \in 1 .. Len(script) /\ script[j + 1] = Add /\ j \in 1 .. Len(script) - 1
      BY <1>2, <2>13
    <3>2. CASE \E i \in 1 .. (j + 1) - 1 : script[i] = WakeH
      <4>1. PICK i \in 1 .. j : script[i] = WakeH
        BY <3>1, <3>2
      <4>2. CASE i = 1
        BY <1>2, <2>1, <2>2, <4>1, <4>2
      <4>3. CASE i # 1
        <5>1. i - 1 \in 1 .. j - 1 /\ i - 1 \in 1 .. Len(script) - 1 /\ (i - 1) + 1 = i
          BY <3>1, <4>3
        <5> QED
          BY <1>2, <4>1, <5>1
      <4> QED
        BY <4>2, <4>3
    <3>3. CASE ~asleep[h]
      <4>1. Ahead(Add)'
        BY <2>13 DEF Ahead
      <4>2. c # SleepH
        BY <1>7, <4>1
      <4> QED
        BY <2>1, <2>2, <3>3, <4>2
    <3> QED
      BY <2>1, <3>1, <3>2, <3>3, OpsSteps DEF HybridOK
  <2>14. weights[h] = Mixed => asleep[h] /\ todo'[h] \notin {NamedOps, LastOps}
    <3>1. NamedOps \notin {<<>>, AbortOps, WakeOps, ResumeOps, SleepOps}
          /\ LastOps \notin {<<>>, AbortOps, WakeOps, ResumeOps, SleepOps}
      BY OpsSteps
    <3> QED
      BY <2>1, <2>2, <3>1 DEF HybridOK
  <2>15. todo'[h] \in {<<>>, AbortOps, WakeOps, NamedOps, LastOps, ResumeOps, SleepOps}
    BY <2>1, <2>2
  <2> HIDE DEF c
  <2> QED
    BY <1>1, <2>8, <2>9, <2>10, <2>12, <2>13, <2>14, <2>15 DEF HybridOK
<1> QED
  BY <1>3, <1>5, <1>6, <1>11, <1>12 DEF PhaseInv

\* A server that does one operation leaves the others as they were.
LEMMA OperateElsewhere ==
    ASSUME LoadInv, PhaseInv, NEW s \in Servers, Operate(s)
    PROVE  /\ UNCHANGED <<inflight, srv, script, version>> /\ PhaseTypes'
           /\ todo[s] # <<>> /\ todo'[s] = Tail(todo[s])
           /\ \A t \in Servers : t # s =>
                 /\ todo'[t] = todo[t] /\ paused'[t] = paused[t] /\ asleep'[t] = asleep[t]
                 /\ weights'[t] = weights[t] /\ Calls(t, "serving")' = Calls(t, "serving")
<1>1. /\ UNCHANGED <<inflight, srv, script, version>> /\ todo[s] # <<>>
      /\ todo' = [todo EXCEPT ![s] = Tail(@)]
  BY DEF Operate
<1>2. Abort(s) \/ Resume(s) \/ \E op : Device(s, op)
  BY DEF Operate
<1>3. /\ paused' = paused \/ \E b \in BOOLEAN : paused' = [paused EXCEPT ![s] = b]
      /\ asleep' = asleep \/ \E b \in BOOLEAN : asleep' = [asleep EXCEPT ![s] = b]
      /\ weights' = weights \/ \E x : weights' = [weights EXCEPT ![s] = x]
  <2>1. CASE Abort(s)
    BY <2>1 DEF Abort
  <2>2. CASE Resume(s)
    BY <2>2 DEF Resume
  <2>3. ASSUME NEW op, Device(s, op)
        PROVE  /\ paused' = paused /\ \E b \in BOOLEAN : asleep' = [asleep EXCEPT ![s] = b]
               /\ \E x : weights' = [weights EXCEPT ![s] = x]
    <3>1. paused' = paused /\ \E x : weights' = [weights EXCEPT ![s] = x]
      BY <2>3 DEF Device
    <3>2. asleep' = [asleep EXCEPT ![s] = (op = "sleep") \/ (asleep[s] /\ op # "wake")]
      BY <2>3 DEF Device
    <3>3. ((op = "sleep") \/ (asleep[s] /\ op # "wake")) \in BOOLEAN
      OBVIOUS
    <3> QED
      BY <3>1, <3>2, <3>3, Zenon
  <2> QED
    BY <1>2, <2>1, <2>2, <2>3
<1>4. \A r \in Requests : \/ pc'[r] = pc[r]
                          \/ srv[r] = s /\ pc'[r] \in {"reply", "failed", "serving"}
                                        /\ pc[r] \in {"serving", "blocked"}
  <2>1. CASE Abort(s)
    BY <2>1 DEF Abort, Ended, Calls
  <2>2. CASE Resume(s)
    BY <2>2 DEF Resume, Calls
  <2>3. CASE \E op : Device(s, op)
    BY <2>3 DEF Device
  <2> QED
    BY <1>2, <2>1, <2>2, <2>3
<1>5. PhaseTypes'
  BY <1>1, <1>3 DEF PhaseInv, PhaseTypes
<1>6. \A t \in Servers : t # s => Calls(t, "serving")' = Calls(t, "serving")
  BY <1>1, <1>4 DEF Calls
<1>7. \A t \in Servers : t # s =>
         /\ todo'[t] = todo[t] /\ paused'[t] = paused[t] /\ asleep'[t] = asleep[t]
         /\ weights'[t] = weights[t]
  BY <1>1, <1>3 DEF PhaseInv, PhaseTypes
<1>8. todo'[s] = Tail(todo[s])
  BY <1>1 DEF PhaseInv, PhaseTypes
<1> QED
  BY <1>1, <1>5, <1>6, <1>7, <1>8

\* what the operations do to the server itself
LEMMA OperateHere ==
    ASSUME LoadInv, PhaseInv, NEW s \in Servers, Operate(s)
    PROVE  LET op == Head(todo[s])
           IN  /\ op = "abort" => /\ paused'[s] /\ Calls(s, "serving")' = {}
                                  /\ weights'[s] = weights[s] /\ (asleep'[s] <=> asleep[s])
               /\ op = "resume" => /\ ~paused'[s] /\ weights'[s] = weights[s]
                                   /\ (asleep'[s] <=> asleep[s])
                                   /\ asleep[s] => Calls(s, "serving")' \subseteq Calls(s, "serving")
               /\ op \notin {"abort", "resume"} =>
                     /\ paused'[s] = paused[s] /\ Calls(s, "serving")' = Calls(s, "serving")
                     /\ weights'[s] = IF op = "load" THEN version
                                      ELSE IF op \in {"wipe", "sleep"} THEN Mixed ELSE weights[s]
                     /\ asleep'[s] <=> (op = "sleep" \/ (asleep[s] /\ op # "wake"))
<1> DEFINE op == Head(todo[s])
<1>1. DOMAIN paused = Servers /\ DOMAIN asleep = Servers /\ DOMAIN weights = Servers /\ srv' = srv
  BY DEF PhaseInv, PhaseTypes, Operate
<1>2. CASE op = "abort"
  <2>1. Abort(s)
    BY <1>2 DEF Operate
  <2>2. paused'[s] /\ UNCHANGED <<weights, asleep>>
    BY <1>1, <2>1 DEF Abort
  <2>3. Calls(s, "serving")' = {}
    BY <1>1, <2>1 DEF Abort, Ended, Calls
  <2> QED
    BY <1>2, <2>2, <2>3
<1>3. CASE op = "resume"
  <2>1. Resume(s)
    BY <1>3 DEF Operate
  <2>2. ~paused'[s] /\ UNCHANGED <<weights, asleep>>
    BY <1>1, <2>1 DEF Resume
  <2>3. asleep[s] => Calls(s, "serving")' \subseteq Calls(s, "serving")
    BY <1>1, <2>1 DEF Resume, Calls
  <2> QED
    BY <1>3, <2>2, <2>3
<1>4. CASE op \notin {"abort", "resume"}
  <2>1. Device(s, op)
    BY <1>4 DEF Operate
  <2>2. paused' = paused /\ Calls(s, "serving")' = Calls(s, "serving")
    BY <1>1, <2>1 DEF Device, Calls
  <2>3. weights'[s] = IF op = "load" THEN version
                      ELSE IF op \in {"wipe", "sleep"} THEN Mixed ELSE weights[s]
    BY <1>1, <2>1 DEF Device
  <2>4. asleep' = [asleep EXCEPT ![s] = (op = "sleep") \/ (asleep[s] /\ op # "wake")]
    BY <2>1 DEF Device
  <2>5. asleep'[s] <=> (op = "sleep" \/ (asleep[s] /\ op # "wake"))
    BY <1>1, <2>4
  <2> QED
    BY <1>4, <2>2, <2>3, <2>5
<1> QED
  BY <1>2, <1>3, <1>4

\* A server does the operations of a call one by one.
LEMMA PhaseOperate == ASSUME LoadInv, PhaseInv, NEW s \in Servers, Operate(s) PROVE PhaseInv'
<1> DEFINE op == Head(todo[s])
<1>1. /\ UNCHANGED <<inflight, srv, script, version>> /\ PhaseTypes'
      /\ todo[s] # <<>> /\ todo'[s] = Tail(todo[s])
      /\ \A t \in Servers : t # s =>
            /\ todo'[t] = todo[t] /\ paused'[t] = paused[t] /\ asleep'[t] = asleep[t]
            /\ weights'[t] = weights[t] /\ Calls(t, "serving")' = Calls(t, "serving")
  BY OperateElsewhere
<1>2. /\ op = "abort" => /\ paused'[s] /\ Calls(s, "serving")' = {}
                         /\ weights'[s] = weights[s] /\ (asleep'[s] <=> asleep[s])
      /\ op = "resume" => /\ ~paused'[s] /\ weights'[s] = weights[s] /\ (asleep'[s] <=> asleep[s])
                          /\ asleep[s] => Calls(s, "serving")' \subseteq Calls(s, "serving")
      /\ op \notin {"abort", "resume"} =>
            /\ paused'[s] = paused[s] /\ Calls(s, "serving")' = Calls(s, "serving")
            /\ weights'[s] = IF op = "load" THEN version
                             ELSE IF op \in {"wipe", "sleep"} THEN Mixed ELSE weights[s]
            /\ asleep'[s] <=> (op = "sleep" \/ (asleep[s] /\ op # "wake"))
  BY OperateHere
<1>3. /\ s \in Standalone => StandaloneOK(s) /\ s \notin Hybrid
      /\ s \in Hybrid => HybridOK(s)
      /\ s \in Standalone \/ s \in Hybrid
      /\ paused[s] \/ asleep[s] => Calls(s, "serving") = {}
      /\ version # Mixed
  BY ServingAssumption
     DEF PhaseInv, PhaseTypes, Servers, NothingServed, ServingAssumption, Mixed
<1>4. todo[s] \in {AbortOps, WipeOps, LoadOps, LabelOps, WakeOps, NamedOps, LastOps, ResumeOps, SleepOps}
  BY <1>1, <1>3 DEF StandaloneOK, HybridOK
<1>5. \A d : (First(d)' <=> First(d)) /\ (Ahead(d)' <=> Ahead(d))
  BY <1>1 DEF First, Ahead
<1>6. Ordered(script')
  BY <1>1 DEF PhaseInv
<1>7. s \in Standalone => StandaloneOK(s)'
  <2> SUFFICES ASSUME s \in Standalone PROVE StandaloneOK(s)'
    OBVIOUS
  <2>1. StandaloneOK(s)
    BY <1>3
  <2>2. todo[s] \in {AbortOps, WipeOps, LoadOps, LabelOps, ResumeOps}
    BY <1>1, <2>1 DEF StandaloneOK
  <2>3. ~asleep'[s]
    BY <1>2, <2>1, <2>2, OpsSteps DEF StandaloneOK
  <2>4. todo'[s] \in {<<>>, LoadOps, LabelOps}
    BY <1>1, <2>2, OpsSteps
  <2>5. weights'[s] = Mixed => paused'[s] /\ todo'[s] = LoadOps
    BY <1>1, <1>2, <1>3, <2>1, <2>2, OpsSteps DEF StandaloneOK
  <2>6. todo'[s] \in {WipeOps, LoadOps} => paused'[s]
    BY <1>1, <1>2, <2>1, <2>2, OpsSteps DEF StandaloneOK
  <2>7. First(LoadS) => Stopped(s)'
    <3> SUFFICES ASSUME First(LoadS) PROVE Stopped(s)'
      OBVIOUS
    <3>1. todo[s] = AbortOps
      BY <1>1, <2>1 DEF StandaloneOK, Stopped
    <3> QED
      BY <1>1, <1>2, <3>1, OpsSteps DEF Stopped
  <2> QED
    BY <1>5, <2>3, <2>4, <2>5, <2>6, <2>7 DEF StandaloneOK
<1>8. s \in Hybrid => HybridOK(s)'
  <2> SUFFICES ASSUME s \in Hybrid PROVE HybridOK(s)'
    OBVIOUS
  <2>1. HybridOK(s)
    BY <1>3
  <2>2. todo[s] \in {AbortOps, WakeOps, NamedOps, LastOps, ResumeOps, SleepOps}
    BY <1>1, <2>1 DEF HybridOK
  <2>3. todo'[s] \in {<<>>, NamedOps, LastOps}
    BY <1>1, <2>2, OpsSteps
  <2>4. weights'[s] = Mixed => asleep'[s] /\ todo'[s] \notin {NamedOps, LastOps}
    <3>1. CASE todo[s] \in {AbortOps, ResumeOps, SleepOps}
      <4>1. todo'[s] = <<>> /\ todo'[s] \notin {NamedOps, LastOps}
        BY <1>1, <3>1, OpsSteps
      <4>2. asleep'[s] \/ (weights'[s] = weights[s] /\ (asleep'[s] <=> asleep[s]))
        BY <1>2, <3>1, OpsSteps
      <4> QED
        BY <2>1, <4>1, <4>2 DEF HybridOK
    <3>2. CASE todo[s] = WakeOps
      BY <1>2, <1>3, <3>2, OpsSteps
    <3>3. CASE todo[s] \in {NamedOps, LastOps}
      BY <1>2, <2>1, <3>3, OpsSteps DEF HybridOK
    <3> QED
      BY <2>2, <3>1, <3>2, <3>3
  <2>5. First(Drop) \/ First(SleepH) => Stopped(s)'
    <3> SUFFICES ASSUME First(Drop) \/ First(SleepH) PROVE Stopped(s)'
      OBVIOUS
    <3>1. todo[s] = AbortOps
      BY <1>1, <2>1 DEF HybridOK, Stopped
    <3> QED
      BY <1>1, <1>2, <3>1, OpsSteps DEF Stopped
  <2>8. s \in DOMAIN inflight => ~asleep'[s]
    BY <1>2, <2>1, <2>2, OpsSteps DEF HybridOK
  <2>9. \A j \in 1 .. Len(script) : script[j] = Add =>
           \/ \E i \in 1 .. j - 1 : script[i] = WakeH
           \/ todo'[s] \in {WakeOps, NamedOps, LastOps}
           \/ ~asleep'[s]
    <3> SUFFICES ASSUME NEW j \in 1 .. Len(script), script[j] = Add,
                        ~ \E i \in 1 .. j - 1 : script[i] = WakeH
                 PROVE  todo'[s] \in {WakeOps, NamedOps, LastOps} \/ ~asleep'[s]
      OBVIOUS
    <3>1. todo[s] \in {WakeOps, NamedOps, LastOps} \/ (~asleep[s] /\ todo[s] # SleepOps)
      BY <2>1 DEF HybridOK
    <3>2. CASE todo[s] \in {WakeOps, NamedOps, LastOps}
      BY <1>1, <1>2, <3>2, OpsSteps
    <3>3. CASE ~asleep[s] /\ todo[s] # SleepOps
      BY <1>2, <2>2, <3>3, OpsSteps
    <3> QED
      BY <3>1, <3>2, <3>3
  <2> QED
    BY <1>1, <1>5, <2>1, <2>3, <2>4, <2>5, <2>8, <2>9, OpsSteps DEF HybridOK
<1>9. ASSUME NEW t \in Standalone PROVE StandaloneOK(t)'
  <2>1. StandaloneOK(t) /\ t \in Servers
    BY DEF PhaseInv, Servers
  <2>2. CASE t # s
    <3>1. Stopped(t)' <=> Stopped(t)
      BY <1>1, <2>1, <2>2 DEF Stopped
    <3> QED
      BY <1>1, <1>5, <2>1, <2>2, <3>1 DEF StandaloneOK
  <2> QED
    BY <1>7, <2>2
<1>10. ASSUME NEW h \in Hybrid PROVE HybridOK(h)'
  <2>1. HybridOK(h) /\ h \in Servers
    BY DEF PhaseInv, Servers
  <2>2. CASE h # s
    <3>1. Stopped(h)' <=> Stopped(h)
      BY <1>1, <2>1, <2>2 DEF Stopped
    <3> QED
      BY <1>1, <1>5, <2>1, <2>2, <3>1 DEF HybridOK
  <2> QED
    BY <1>8, <2>2
<1>11. NothingServed'
  <2>1. paused'[s] \/ asleep'[s] => Calls(s, "serving")' = {}
    <3>1. CASE op = "abort"
      BY <1>2, <3>1
    <3>2. CASE op = "resume"
      BY <1>2, <1>3, <3>2
    <3>3. CASE op \notin {"abort", "resume"}
      <4>1. op = "sleep" => paused[s]
        BY <1>3, <1>4, OpsSteps DEF StandaloneOK, HybridOK
      <4> QED
        BY <1>2, <1>3, <3>3, <4>1
    <3> QED
      BY <3>1, <3>2, <3>3
  <2> QED
    BY <1>1, <2>1 DEF PhaseInv, NothingServed
<1> QED
  BY <1>1, <1>6, <1>9, <1>10, <1>11 DEF PhaseInv

\* Every step keeps the phases.
LEMMA PhaseNext == ASSUME LoadInv, PhaseInv, [Next]_vars PROVE PhaseInv'
<1>1. CASE UNCHANGED vars
  <2>1. UNCHANGED <<inflight, pc, srv, paused, asleep, weights, script, todo, version>>
    BY <1>1 DEF vars, lbVars, clientVars, serverVars, trainerVars
  <2>2. PhaseTypes' /\ Ordered(script') /\ NothingServed'
    BY <2>1 DEF PhaseInv, PhaseTypes, NothingServed, Calls
  <2>3. \A s \in Standalone : StandaloneOK(s)'
    BY <2>1 DEF PhaseInv, StandaloneOK, First, Stopped
  <2>4. \A h \in Hybrid : HybridOK(h)'
    BY <2>1 DEF PhaseInv, HybridOK, First, Stopped, Ahead
  <2> QED
    BY <2>2, <2>3, <2>4 DEF PhaseInv
<1> QED
  BY <1>1, PhaseClient, PhaseSync, PhaseInstruct, PhaseOperate DEF Next, Trainer

\* Weights are never overwritten, nor memory released, under a running generation:
\* for any number of requests, servers and updates, with and without validation, and
\* however late a call reaches the server it was given.
THEOREM TransfersAlone == Spec => []TransferAlone
<1>1. Init => LoadInv /\ PhaseInv
  BY LoadInit, PhaseInit
<1>2. LoadInv /\ PhaseInv /\ [Next]_vars => (LoadInv /\ PhaseInv)'
  BY LoadNext, PhaseNext
<1>3. PhaseInv => TransferAlone
  <2> SUFFICES ASSUME PhaseInv, NEW s \in Servers, weights[s] = Mixed
               PROVE  Calls(s, "serving") = {}
    BY DEF TransferAlone
  <2>1. CASE s \in Standalone
    BY <2>1 DEF PhaseInv, NothingServed, StandaloneOK
  <2>2. CASE s \in Hybrid
    BY <2>2 DEF PhaseInv, NothingServed, HybridOK
  <2> QED
    BY <2>1, <2>2 DEF Servers
<1> QED
  BY <1>1, <1>2, <1>3, PTL DEF Spec

\* The load balancer never gives out a server whose engine is asleep.
THEOREM AlwaysRoutedAwake == Spec => RoutedAwake
<1>1. Init => LoadInv /\ PhaseInv
  BY LoadInit, PhaseInit
<1>2. LoadInv /\ PhaseInv /\ [Next]_vars => (LoadInv /\ PhaseInv)'
  BY LoadNext, PhaseNext
<1>3. LoadInv /\ PhaseInv /\ [Next]_vars =>
          [\A r \in Requests : pc[r] = "ready" /\ pc'[r] = "routed" => ~asleep[srv'[r]]]_vars
  <2> SUFFICES ASSUME LoadInv, PhaseInv, Next, NEW r \in Requests, pc[r] = "ready", pc'[r] = "routed"
               PROVE  ~asleep[srv'[r]]
    OBVIOUS
  <2>1. Acquire(r)
    <3>1. CASE \E s \in Servers : Operate(s)
      <4>1. PICK s \in Servers : Operate(s)
        BY <3>1
      <4>2. \A q \in Requests : pc'[q] = "routed" => pc[q] = "routed"
        BY <4>1 DEF Operate, Abort, Resume, Device, Ended, Calls
      <4> QED
        BY <4>2
    <3>2. CASE Sync \/ Instruct
      BY <3>2 DEF Sync, Instruct, clientVars
    <3>3. ASSUME NEW q \in Requests, Client(q) PROVE Acquire(r)
      <4>1. DOMAIN pc = Requests
        BY DEF LoadInv, ClientOK
      <4> QED
        BY <3>3, <4>1 DEF Client, Acquire, Arrive, Raise, Token, Ended, Receive, Release, clientVars
    <3> QED
      BY <3>1, <3>2, <3>3 DEF Next, Trainer
  <2>2. PICK s \in Servers : AcquireServer(r, s) /\ srv' = [srv EXCEPT ![r] = s]
    BY <2>1 DEF Acquire
  <2>3. srv'[r] = s /\ s \in DOMAIN inflight
    BY <2>2 DEF AcquireServer, Least, LoadInv, ClientOK
  <2> QED
    BY <2>2, <2>3 DEF PhaseInv, StandaloneOK, HybridOK, Servers
<1> QED
  BY <1>1, <1>2, <1>3, PTL DEF Spec, RoutedAwake

-----------------------------------------------------------------------------
(* The ages of weights and tokens *)

\* The version that every server generates with, as long as it generates: the
\* last one until the call that loads the new one is made.
Cur == IF Ahead(LoadS) THEN version - 1 ELSE version

\* The new weights are loaded once, before the hybrid servers are woken, and those
\* are woken once and put to sleep again.
LoadedOnce(p) ==
    /\ \A i, j \in 1 .. Len(p) : i < j /\ p[j] = LoadS => p[i] # LoadS /\ p[i] # WakeH
    /\ \A i, j \in 1 .. Len(p) : i < j /\ p[j] = WakeH => p[i] # WakeH
    /\ \A i \in 1 .. Len(p) : p[i] = WakeH => \E j \in i + 1 .. Len(p) : p[j] = SleepH

\* weights and label of a server of the rollouter, but for a server that is stopped
StandaloneAge(s) ==
    /\ weights[s] = Cur \/ todo[s] \in {WipeOps, LoadOps}
    /\ steps[s] = Cur \/ todo[s] \in {WipeOps, LoadOps, LabelOps}
    /\ todo[s] = LabelOps => paused[s]
    /\ todo[s] \in {WipeOps, LoadOps, LabelOps} => ~Ahead(LoadS)

\* A hybrid server is awake from the end of its own update to the end of the
\* validation, with the weights and the label of the last version.
HybridAge(h) ==
    /\ Ahead(WakeH) \/ Ahead(LoadS) \/ todo[h] \in {WakeOps, NamedOps, LastOps} => asleep[h]
    /\ todo[h] \in {WakeOps, NamedOps, LastOps} =>
          Ahead(SleepH) /\ ~Ahead(LoadS) /\ ~Ahead(WakeH)
    /\ todo[h] \in {NamedOps, LastOps} => weights[h] = version
    /\ todo[h] = LastOps => steps[h] = version
    /\ ~asleep[h] => /\ Ahead(SleepH) \/ todo[h] = SleepOps
                     /\ weights[h] = version /\ steps[h] = version

\* The tokens a client has do not decrease and none is younger than the servers,
\* or older than the first version it noted; those of the current call are of one
\* version, which the label names.
RequestAge(r) ==
    /\ \A i \in 1 .. Len(toks[r]) : toks[r][i] \in 0 .. Cur /\ minV[r] <= toks[r][i]
    /\ \A i, j \in 1 .. Len(toks[r]) : i < j => toks[r][i] <= toks[r][j]
    /\ minV[r] \in NoStep .. Cur /\ (toks[r] # <<>> => minV[r] # NoStep)
    /\ pc[r] = "serving" => \A i \in 1 .. Len(out[r]) : out[r][i] = Cur
    /\ pc[r] = "reply" =>
          /\ label[r] \in NoStep .. Cur
          /\ out[r] = <<>> => stop[r] # "completed"
          /\ out[r] # <<>> => label[r] # NoStep
          /\ label[r] # NoStep => /\ minV[r] <= label[r]
                                  /\ \A i \in 1 .. Len(out[r]) : out[r][i] = label[r]
                                  /\ \A i \in 1 .. Len(toks[r]) : toks[r][i] <= label[r]
    /\ pc[r] = "done" /\ stop[r] = "completed" =>
          toks[r] # <<>> /\ maxV[r] = toks[r][Len(toks[r])]

AgeTypes ==
    /\ DOMAIN inflight \in {Standalone, Servers}
    /\ session \in [Requests -> Servers \cup {None}]
    /\ label \in [Requests -> Versions \cup {NoStep}]
    /\ stop \in [Requests -> {"none", "completed", "aborted"}]
    /\ minV \in [Requests -> Versions \cup {NoStep}]
    /\ maxV \in [Requests -> Versions \cup {NoStep}]
    /\ steps \in [Servers -> Versions] /\ Cur \in Versions

AgeInv ==
    /\ AgeTypes /\ LoadedOnce(script)
    /\ \A s \in Standalone : StandaloneAge(s)
    /\ \A h \in Hybrid : HybridAge(h)
    /\ \A r \in Requests : RequestAge(r)

\* Both scripts load the weights once, before they wake the hybrid servers.
LEMMA ScriptsLoadOnce ==
    ASSUME NEW p \in {Update, Update \o Validate}
    PROVE  LoadedOnce(p) /\ 2 \in 1 .. Len(p) /\ p[2] = LoadS
<1>1. /\ Len(p) \in {3, 16}
      /\ \A i \in 1 .. Len(p) : /\ p[i] = LoadS <=> i = 2
                                /\ p[i] = WakeH <=> i = 4
                                /\ p[i] = Add <=> i = 7
                                /\ p[i] = Drop <=> i = 13
                                /\ p[i] = SleepH <=> i = 14
  BY ScriptPlaces
<1>2. CASE Len(p) = 3
  BY <1>1, <1>2 DEF LoadedOnce
<1>3. CASE Len(p) = 16
  BY <1>1, <1>3 DEF LoadedOnce
<1> QED
  BY <1>1, <1>2, <1>3

\* That stays so as calls are made.
LEMMA TailLoadsOnce ==
    ASSUME NEW p \in Seq(Steps), p # <<>>, LoadedOnce(p) PROVE LoadedOnce(Tail(p))
<1>1. /\ Len(Tail(p)) = Len(p) - 1 /\ Len(p) \in Nat \ {0}
      /\ \A i \in 1 .. Len(p) - 1 : Tail(p)[i] = p[i + 1] /\ i + 1 \in 1 .. Len(p)
  BY HeadTailProperties, EmptySeq
<1>2. ASSUME NEW i \in 1 .. Len(p) - 1, NEW j \in 1 .. Len(p) - 1, i < j
      PROVE  /\ Tail(p)[j] = LoadS => Tail(p)[i] # LoadS /\ Tail(p)[i] # WakeH
             /\ Tail(p)[j] = WakeH => Tail(p)[i] # WakeH
  <2>1. i + 1 < j + 1
    BY <1>2
  <2> QED
    BY <1>1, <1>2, <2>1 DEF LoadedOnce
<1>3. ASSUME NEW i \in 1 .. Len(p) - 1, Tail(p)[i] = WakeH
      PROVE  \E j \in i + 1 .. Len(p) - 1 : Tail(p)[j] = SleepH
  <2>1. PICK k \in i + 2 .. Len(p) : p[k] = SleepH
    BY <1>1, <1>3 DEF LoadedOnce
  <2>2. k - 1 \in i + 1 .. Len(p) - 1 /\ k - 1 \in 1 .. Len(p) - 1 /\ (k - 1) + 1 = k
    BY <1>1
  <2> QED
    BY <1>1, <2>1, <2>2
<1> QED
  BY <1>1, <1>2, <1>3 DEF LoadedOnce

\* Who generates does so with the weights of Cur, and is labelled with it.
LEMMA ServingAge ==
    ASSUME LoadInv, PhaseInv, AgeInv, NEW s \in Servers, Calls(s, "serving") # {}
    PROVE  weights[s] = Cur /\ steps[s] = Cur
<1>1. ~paused[s] /\ ~asleep[s]
  BY DEF PhaseInv, NothingServed
<1>2. CASE s \in Standalone
  BY <1>1, <1>2 DEF PhaseInv, StandaloneOK, AgeInv, StandaloneAge
<1>3. CASE s \in Hybrid
  BY <1>1, <1>3 DEF AgeInv, HybridAge, Cur
<1> QED
  BY <1>2, <1>3 DEF Servers

\* A step that leaves the tokens and labels of a request alone, and lets it begin to
\* generate at most.
LEMMA SameAge ==
    ASSUME NEW r \in Requests, RequestAge(r), Cur \in Nat, Cur' \in Nat, Cur <= Cur',
           toks'[r] = toks[r], out'[r] = out[r], label'[r] = label[r], stop'[r] = stop[r],
           minV'[r] = minV[r], maxV'[r] = maxV[r],
           \/ pc'[r] = pc[r] /\ (pc[r] = "serving" => Cur' = Cur)
           \/ pc'[r] = "serving" /\ Len(out[r]) = 0
           \/ pc'[r] \in {"ready", "routed", "blocked", "failed"}
    PROVE  RequestAge(r)'
<1>1. \A x : /\ x \in 0 .. Cur => x \in 0 .. Cur'
            /\ x \in NoStep .. Cur => x \in NoStep .. Cur'
  BY DEF NoStep
<1>2. /\ \A i \in 1 .. Len(toks'[r]) : toks'[r][i] \in 0 .. Cur' /\ minV'[r] <= toks'[r][i]
      /\ \A i, j \in 1 .. Len(toks'[r]) : i < j => toks'[r][i] <= toks'[r][j]
      /\ minV'[r] \in NoStep .. Cur' /\ (toks'[r] # <<>> => minV'[r] # NoStep)
  BY <1>1 DEF RequestAge
<1>3. pc'[r] = "serving" => \A i \in 1 .. Len(out'[r]) : out'[r][i] = Cur'
  BY DEF RequestAge
<1>4. pc'[r] = "reply" =>
          /\ label'[r] \in NoStep .. Cur'
          /\ out'[r] = <<>> => stop'[r] # "completed"
          /\ out'[r] # <<>> => label'[r] # NoStep
          /\ label'[r] # NoStep => /\ minV'[r] <= label'[r]
                                   /\ \A i \in 1 .. Len(out'[r]) : out'[r][i] = label'[r]
                                   /\ \A i \in 1 .. Len(toks'[r]) : toks'[r][i] <= label'[r]
  BY <1>1 DEF RequestAge
<1>5. pc'[r] = "done" /\ stop'[r] = "completed" =>
          toks'[r] # <<>> /\ maxV'[r] = toks'[r][Len(toks'[r])]
  BY DEF RequestAge
<1> QED
  BY <1>2, <1>3, <1>4, <1>5 DEF RequestAge

-----------------------------------------------------------------------------
(* the clients *)

\* The version of the servers is one, and a step of a client or server does not change it.
LEMMA CurStays ==
    ASSUME AgeInv, UNCHANGED <<script, version>>
    PROVE  Cur \in Versions /\ Cur \in Nat /\ Cur' = Cur
<1>1. Cur \in Versions /\ Cur \in Nat
  BY ServingAssumption DEF AgeInv, AgeTypes, Versions, ServingAssumption
<1> QED
  BY <1>1 DEF Cur, Ahead

\* The clients do not change what the servers are.
LEMMA AgeServersClient ==
    ASSUME LoadInv, PhaseInv, AgeInv, NEW r \in Requests, Client(r)
    PROVE  /\ \A s \in Standalone : StandaloneAge(s)'
           /\ \A h \in Hybrid : HybridAge(h)'
           /\ LoadedOnce(script)' /\ Cur' = Cur /\ steps' = steps
<1>1. /\ UNCHANGED <<paused, asleep, weights, script, todo, version>>
      /\ DOMAIN inflight' = DOMAIN inflight
  BY ClientElsewhere
<1>2. steps' = steps
  BY DEF Client, Acquire, Arrive, Token, Receive, Release, serverVars
<1>3. Cur' = Cur /\ \A c : Ahead(c)' <=> Ahead(c)
  BY <1>1 DEF Cur, Ahead
<1>4. ASSUME NEW s \in Standalone PROVE StandaloneAge(s)'
  BY <1>1, <1>2, <1>3 DEF AgeInv, StandaloneAge
<1>5. ASSUME NEW h \in Hybrid PROVE HybridAge(h)'
  <2>1. HybridAge(h) /\ h \in Servers
    BY DEF AgeInv, Servers
  <2> QED
    BY <1>1, <1>2, <1>3, <2>1 DEF HybridAge
<1>6. LoadedOnce(script)'
  BY <1>1 DEF AgeInv
<1> QED
  BY <1>2, <1>3, <1>4, <1>5, <1>6

\* A token is of the version that all generate with.
LEMMA AgeToken ==
    ASSUME LoadInv, PhaseInv, BudgetInv, AgeInv, NEW r \in Requests, Token(r)
    PROVE  RequestAge(r)' /\ label' \in [Requests -> Versions \cup {NoStep}]
           /\ stop' \in [Requests -> {"none", "completed", "aborted"}]
<1>1. /\ pc[r] = "serving" /\ out' = [out EXCEPT ![r] = Append(@, weights[srv[r]])]
      /\ UNCHANGED <<toks, minV, maxV, weights, steps, srv, script, version>>
      /\ Ended({r}, "completed") \/ UNCHANGED <<pc, label, stop>>
  BY DEF Token, resultVars, serverVars, trainerVars
<1>2. srv[r] \in Servers /\ r \in Calls(srv[r], "serving")
  BY <1>1 DEF LoadInv, ClientOK, Holding, Calls
<1>3. weights[srv[r]] = Cur /\ steps[srv[r]] = Cur
  BY <1>2, ServingAge
<1>4. Cur \in Versions /\ Cur \in Nat /\ Cur' = Cur
  BY <1>1, CurStays
<1>5. out[r] \in Seq(Tokens) /\ toks[r] \in Seq(Tokens) /\ DOMAIN out = Requests /\ Cur \in Tokens
  BY <1>4 DEF BudgetInv, BudgetType, Tokens
<1>6. /\ out'[r] = Append(out[r], Cur) /\ Len(out'[r]) = Len(out[r]) + 1 /\ Len(out[r]) \in Nat
      /\ \A i \in 1 .. Len(out[r]) : out'[r][i] = out[r][i]
      /\ out'[r][Len(out[r]) + 1] = Cur /\ out'[r] # <<>>
  <2>1. out'[r] = Append(out[r], Cur)
    BY <1>1, <1>3, <1>5
  <2> QED
    BY <1>5, <2>1, AppendProperties
<1>7. RequestAge(r)
  BY DEF AgeInv
<1>8. \A i \in 1 .. Len(out'[r]) : out'[r][i] = Cur
  <2>1. \A i \in 1 .. Len(out[r]) : out[r][i] = Cur
    BY <1>1, <1>7 DEF RequestAge
  <2> QED
    BY <1>6, <2>1
<1>9. CASE Ended({r}, "completed")
  <2>1. /\ pc'[r] = "reply" /\ stop'[r] = "completed" /\ label'[r] = Cur
        /\ label' \in [Requests -> Versions \cup {NoStep}]
        /\ stop' \in [Requests -> {"none", "completed", "aborted"}]
    <3>1. PICK bare \in SUBSET {q \in {r} : out'[q] = <<>>} :
             label' = [q \in Requests |-> IF q \notin {r} THEN label[q]
                                          ELSE IF q \in bare THEN NoStep ELSE steps[srv[q]]]
      BY <1>9 DEF Ended
    <3>2. label' = [q \in Requests |-> IF q = r THEN Cur ELSE label[q]]
      BY <1>3, <1>6, <3>1
    <3> QED
      BY <1>4, <1>9, <3>2 DEF Ended, AgeInv, AgeTypes
  <2>2. /\ \A i \in 1 .. Len(toks[r]) : toks[r][i] <= Cur
        /\ minV[r] <= Cur
    BY <1>4, <1>7 DEF RequestAge, NoStep
  <2>3. label'[r] \in NoStep .. Cur' /\ label'[r] # NoStep /\ out'[r] # <<>>
    BY <1>4, <1>6, <2>1 DEF NoStep
  <2>4. /\ \A i \in 1 .. Len(toks'[r]) : toks'[r][i] \in 0 .. Cur' /\ minV'[r] <= toks'[r][i]
        /\ \A i, j \in 1 .. Len(toks'[r]) : i < j => toks'[r][i] <= toks'[r][j]
        /\ minV'[r] \in NoStep .. Cur' /\ (toks'[r] # <<>> => minV'[r] # NoStep)
    BY <1>1, <1>4, <1>7 DEF RequestAge
  <2>5. minV'[r] <= label'[r] /\ \A i \in 1 .. Len(toks'[r]) : toks'[r][i] <= label'[r]
    BY <1>1, <2>1, <2>2
  <2>6. RequestAge(r)'
    BY <1>8, <2>1, <2>3, <2>4, <2>5 DEF RequestAge
  <2> QED
    BY <2>1, <2>6
<1>10. CASE UNCHANGED <<pc, label, stop>>
  BY <1>1, <1>4, <1>7, <1>8, <1>10 DEF RequestAge, AgeInv, AgeTypes
<1> QED
  BY <1>1, <1>9, <1>10

\* The answer goes behind the tokens the client has; its version is the youngest.
LEMMA AgeReceive ==
    ASSUME LoadInv, PhaseInv, BudgetInv, AgeInv, NEW r \in Requests, Receive(r)
    PROVE  RequestAge(r)' /\ label' \in [Requests -> Versions \cup {NoStep}]
           /\ minV' \in [Requests -> Versions \cup {NoStep}]
           /\ maxV' \in [Requests -> Versions \cup {NoStep}]
<1>1. /\ pc[r] = "reply" /\ toks' = [toks EXCEPT ![r] = @ \o out[r]]
      /\ minV' = [minV EXCEPT ![r] = IF @ = NoStep THEN label[r] ELSE @]
      /\ maxV' = [maxV EXCEPT ![r] = label[r]]
      /\ label' = [label EXCEPT ![r] = NoStep]
      /\ pc' = [pc EXCEPT ![r] = IF stop[r] = "aborted" /\ Partial THEN "ready" ELSE "done"]
      /\ stop' = stop /\ script' = script /\ version' = version
  BY DEF Receive, Merge, trainerVars
<1>2. /\ DOMAIN toks = Requests /\ DOMAIN minV = Requests /\ DOMAIN maxV = Requests
      /\ DOMAIN pc = Requests /\ out[r] \in Seq(Tokens) /\ toks[r] \in Seq(Tokens)
      /\ label[r] \in Versions \cup {NoStep}
  BY DEF LoadInv, ClientOK, BudgetInv, BudgetType, AgeInv, AgeTypes
<1>3. Cur \in Nat /\ Cur' = Cur
  BY <1>1, CurStays
<1>4. RequestAge(r)
  BY DEF AgeInv
<1> DEFINE m == Len(toks[r])  n == Len(out[r])
<1>5. /\ Len(toks'[r]) = m + n /\ m \in Nat /\ n \in Nat
      /\ \A i \in 1 .. m + n : toks'[r][i] = IF i <= m THEN toks[r][i] ELSE out[r][i - m]
      /\ minV'[r] = (IF minV[r] = NoStep THEN label[r] ELSE minV[r]) /\ maxV'[r] = label[r]
      /\ pc'[r] \in {"ready", "done"} /\ stop'[r] = stop[r]
      /\ toks[r] = <<>> <=> m = 0
      /\ out[r] = <<>> <=> n = 0
      /\ toks'[r] = <<>> <=> m + n = 0
  <2>1. toks'[r] = toks[r] \o out[r] /\ toks'[r] \in Seq(Tokens)
    BY <1>1, <1>2, ConcatProperties
  <2> QED
    BY <1>1, <1>2, <2>1, ConcatProperties, LenProperties, EmptySeq
<1>6. /\ \A i \in 1 .. m : toks[r][i] \in 0 .. Cur /\ minV[r] <= toks[r][i]
      /\ \A i, j \in 1 .. m : i < j => toks[r][i] <= toks[r][j]
      /\ minV[r] \in NoStep .. Cur /\ (m # 0 => minV[r] # NoStep)
      /\ label[r] \in NoStep .. Cur
      /\ n = 0 => stop[r] # "completed"
      /\ n # 0 => label[r] # NoStep /\ \A i \in 1 .. n : out[r][i] = label[r]
      /\ label[r] # NoStep => minV[r] <= label[r] /\ \A i \in 1 .. m : toks[r][i] <= label[r]
  BY <1>1, <1>4, <1>5 DEF RequestAge
<1> HIDE DEF m, n
<1>7. \A i \in 1 .. m + n : toks'[r][i] = IF i <= m THEN toks[r][i] ELSE label[r]
  <2> SUFFICES ASSUME NEW i \in 1 .. m + n, ~(i <= m) PROVE toks'[r][i] = label[r]
    BY <1>5
  <2>1. i - m \in 1 .. n /\ n # 0
    BY <1>5
  <2> QED
    BY <1>5, <1>6, <2>1
<1>8. \A i \in 1 .. m + n : toks'[r][i] \in 0 .. Cur /\ minV'[r] <= toks'[r][i]
  <2> SUFFICES ASSUME NEW i \in 1 .. m + n
               PROVE  toks'[r][i] \in 0 .. Cur /\ minV'[r] <= toks'[r][i]
    OBVIOUS
  <2>1. CASE i <= m
    <3>1. i \in 1 .. m /\ m # 0
      BY <1>5, <2>1
    <3> QED
      BY <1>5, <1>6, <1>7, <2>1, <3>1
  <2>2. CASE ~(i <= m)
    <3>1. n # 0
      BY <1>5, <2>2
    <3>2. label[r] \in 0 .. Cur /\ minV[r] <= label[r]
      BY <1>3, <1>6, <3>1 DEF NoStep
    <3> QED
      BY <1>5, <1>7, <2>2, <3>2
  <2> QED
    BY <2>1, <2>2
<1>9. \A i, j \in 1 .. m + n : i < j => toks'[r][i] <= toks'[r][j]
  <2> SUFFICES ASSUME NEW i \in 1 .. m + n, NEW j \in 1 .. m + n, i < j
               PROVE  toks'[r][i] <= toks'[r][j]
    OBVIOUS
  <2>1. CASE j <= m
    <3>1. i \in 1 .. m /\ j \in 1 .. m /\ i <= m
      BY <1>5, <2>1
    <3> QED
      BY <1>6, <1>7, <2>1, <3>1
  <2>2. CASE i <= m /\ ~(j <= m)
    <3>1. i \in 1 .. m /\ n # 0
      BY <1>5, <2>2
    <3> QED
      BY <1>6, <1>7, <2>2, <3>1
  <2>3. CASE ~(i <= m)
    <3>1. ~(j <= m) /\ n # 0
      BY <1>5, <2>3
    <3> QED
      BY <1>3, <1>6, <1>7, <2>3, <3>1
  <2> QED
    BY <2>1, <2>2, <2>3
<1>10. minV'[r] \in NoStep .. Cur /\ (m + n # 0 => minV'[r] # NoStep)
  <2>1. m + n # 0 => m # 0 \/ n # 0
    BY <1>5
  <2> QED
    BY <1>5, <1>6, <2>1
<1>11. stop'[r] = "completed" => m + n # 0 /\ maxV'[r] = toks'[r][m + n]
  <2> SUFFICES ASSUME stop'[r] = "completed" PROVE m + n # 0 /\ maxV'[r] = toks'[r][m + n]
    OBVIOUS
  <2>1. n # 0
    BY <1>5, <1>6
  <2>2. m + n \in 1 .. m + n /\ ~(m + n <= m) /\ m + n # 0
    BY <1>5, <2>1
  <2> QED
    BY <1>5, <1>7, <2>2
<1>12. RequestAge(r)'
  BY <1>3, <1>5, <1>8, <1>9, <1>10, <1>11 DEF RequestAge
<1> QED
  BY <1>1, <1>2, <1>12 DEF AgeInv, AgeTypes

\* The clients keep the ages.
LEMMA AgeClient ==
    ASSUME LoadInv, PhaseInv, BudgetInv, AgeInv, NEW r \in Requests, Client(r)
    PROVE  AgeInv'
<1>1. /\ \A s \in Standalone : StandaloneAge(s)'
      /\ \A h \in Hybrid : HybridAge(h)'
      /\ LoadedOnce(script)' /\ Cur' = Cur /\ steps' = steps
  BY AgeServersClient
<1>2. Cur \in Versions /\ Cur \in Nat /\ DOMAIN inflight' = DOMAIN inflight
  BY ClientElsewhere, CurStays DEF Client, Acquire, Arrive, Token, Receive, Release, trainerVars
<1>3. DOMAIN pc = Requests /\ \A q \in Requests : RequestAge(q)
  BY DEF LoadInv, ClientOK, AgeInv
<1>4. CASE Acquire(r) \/ Arrive(r) \/ Release(r)
  <2>1. /\ UNCHANGED <<toks, out, label, stop, minV, maxV>>
        /\ session' = session \/ \E s \in Servers : session' = [session EXCEPT ![r] = s]
    BY <1>4 DEF Acquire, AcquireServer, Arrive, Release, callVars, resultVars, clientVars
  <2>2. AgeTypes'
    BY <1>1, <1>2, <2>1 DEF AgeInv, AgeTypes
  <2>3. ASSUME NEW q \in Requests
        PROVE  \/ pc'[q] = pc[q]
               \/ pc'[q] = "serving" /\ Len(out[q]) = 0
               \/ pc'[q] \in {"ready", "routed", "blocked", "failed"}
    <3>1. pc[r] = "routed" => Len(out[r]) = 0
      BY DEF BudgetInv, Budget
    <3>2. CASE Acquire(r)
      BY <1>3, <3>2 DEF Acquire
    <3>3. CASE Arrive(r)
      BY <1>3, <3>1, <3>3 DEF Arrive, Raise
    <3>4. CASE Release(r)
      BY <3>4 DEF Release, clientVars
    <3> QED
      BY <1>4, <3>2, <3>3, <3>4
  <2>4. \A q \in Requests : RequestAge(q)'
    BY <1>1, <1>2, <1>3, <2>1, <2>3, SameAge
  <2> QED
    BY <1>1, <2>2, <2>4 DEF AgeInv
<1>5. ASSUME Token(r) \/ Receive(r), NEW q \in Requests, q # r PROVE RequestAge(q)'
  <2>1. /\ toks'[q] = toks[q] /\ minV'[q] = minV[q] /\ maxV'[q] = maxV[q] /\ out'[q] = out[q]
        /\ label'[q] = label[q] /\ stop'[q] = stop[q] /\ pc'[q] = pc[q]
    <3>1. CASE Token(r)
      BY <1>3, <1>5, <3>1 DEF Token, Ended, resultVars, BudgetInv, BudgetType
    <3>2. CASE Receive(r)
      BY <1>3, <1>5, <3>2 DEF Receive, Merge, BudgetInv, BudgetType, AgeInv, AgeTypes
    <3> QED
      BY <1>5, <3>1, <3>2
  <2> QED
    BY <1>1, <1>2, <1>3, <2>1, SameAge
<1>6. CASE Token(r)
  <2>1. session' = session /\ minV' = minV /\ maxV' = maxV
    BY <1>6 DEF Token, lbVars, resultVars
  <2>2. AgeTypes'
    BY <1>1, <1>2, <1>6, <2>1, AgeToken DEF AgeInv, AgeTypes
  <2>3. \A q \in Requests : RequestAge(q)'
    BY <1>5, <1>6, AgeToken
  <2> QED
    BY <1>1, <2>2, <2>3 DEF AgeInv
<1>7. CASE Receive(r)
  <2>1. session' = session /\ stop' = stop
    BY <1>7 DEF Receive
  <2>2. AgeTypes'
    BY <1>1, <1>2, <1>7, <2>1, AgeReceive DEF AgeInv, AgeTypes
  <2>3. \A q \in Requests : RequestAge(q)'
    BY <1>5, <1>7, AgeReceive
  <2> QED
    BY <1>1, <2>2, <2>3 DEF AgeInv
<1> QED
  BY <1>4, <1>6, <1>7 DEF Client

-----------------------------------------------------------------------------
(* the trainer *)

\* A new version is announced; until it is loaded all generate with the last one.
LEMMA AgeSync == ASSUME LoadInv, PhaseInv, AgeInv, Sync PROVE AgeInv'
<1>1. /\ script = <<>> /\ Len(script) = 0 /\ todo = [s \in Servers |-> <<>>]
      /\ version' = version + 1 /\ version < MaxVersion /\ script' \in {Update, Update \o Validate}
      /\ UNCHANGED <<inflight, session, pc, srv, out, label, stop, toks, minV, maxV, paused, asleep,
                     weights, steps, todo>>
  BY DEF Sync, lbVars, clientVars, serverVars, callVars, resultVars
<1>2. \A d : ~Ahead(d)
  BY <1>1 DEF Ahead
<1>3. LoadedOnce(script') /\ Ahead(LoadS)'
  <2>1. LoadedOnce(script') /\ 2 \in 1 .. Len(script') /\ script'[2] = LoadS
    BY <1>1, ScriptsLoadOnce
  <2> QED
    BY <2>1 DEF Ahead
<1>4. Cur = version /\ Cur' = version /\ version \in Nat
  BY <1>1, <1>2, <1>3 DEF Cur, PhaseInv, PhaseTypes
<1>5. \A h \in Hybrid : asleep[h] /\ todo[h] = <<>>
  BY <1>1, <1>2, OpsSteps DEF AgeInv, HybridAge, Servers
<1>6. AgeTypes'
  BY <1>1, <1>4 DEF AgeInv, AgeTypes
<1>7. ASSUME NEW s \in Standalone PROVE StandaloneAge(s)'
  <2>1. todo[s] = <<>> /\ StandaloneAge(s)
    BY <1>1 DEF AgeInv, Servers
  <2> QED
    BY <1>1, <1>4, <2>1, OpsSteps DEF StandaloneAge
<1>8. \A h \in Hybrid : HybridAge(h)'
  BY <1>1, <1>5, OpsSteps DEF HybridAge
<1>9. \A r \in Requests : RequestAge(r)'
  BY <1>1, <1>4, SameAge DEF AgeInv
<1> QED
  BY <1>3, <1>6, <1>7, <1>8, <1>9 DEF AgeInv

\* A call finds the servers as the order promises; the one that loads the weights
\* finds all of them stopped or asleep.
LEMMA AgeInstruct == ASSUME LoadInv, PhaseInv, BudgetInv, AgeInv, Instruct PROVE AgeInv'
<1> DEFINE c == Head(script)
<1>1. /\ script # <<>> /\ script' = Tail(script)
      /\ todo = [s \in Servers |-> <<>>] /\ todo' = [s \in Servers |-> Asked(c, s)]
      /\ UNCHANGED <<session, pc, srv, out, label, stop, toks, minV, maxV, paused, asleep, weights,
                     steps, version>>
  BY DEF Instruct, Asked, clientVars, serverVars, callVars, resultVars
<1>2. /\ script \in Seq(Steps) /\ c \in Steps /\ script[1] = c /\ Len(script) \in Nat \ {0}
      /\ Len(script') = Len(script) - 1
      /\ \A i \in 1 .. Len(script) - 1 : script'[i] = script[i + 1] /\ i + 1 \in 1 .. Len(script)
  <2>1. script \in Seq(Steps) /\ c \in Steps /\ script[1] = c /\ Len(script) \in Nat \ {0}
    BY <1>1, HeadTailProperties, EmptySeq DEF LoadInv, ScriptOK
  <2> QED
    BY <1>1, <2>1, HeadTailProperties
<1>3. LoadedOnce(script) /\ LoadedOnce(script')
  BY <1>1, <1>2, TailLoadsOnce DEF AgeInv
<1>4. \A d : (Ahead(d)' => Ahead(d)) /\ (Ahead(d) => Ahead(d)' \/ c = d)
  <2>1. ASSUME NEW d, NEW i \in 1 .. Len(script) - 1, script'[i] = d PROVE Ahead(d)
    BY <1>2, <2>1 DEF Ahead
  <2>2. ASSUME NEW d, NEW i \in 1 .. Len(script), script[i] = d, c # d PROVE Ahead(d)'
    <3>1. i - 1 \in 1 .. Len(script) - 1 /\ (i - 1) + 1 = i
      BY <1>2, <2>2
    <3> QED
      BY <1>2, <2>2, <3>1 DEF Ahead
  <2> QED
    BY <1>2, <2>1, <2>2 DEF Ahead
<1>5. c \in {LoadS, WakeH} => ~Ahead(LoadS)'
  <2> SUFFICES ASSUME c \in {LoadS, WakeH}, NEW i \in 1 .. Len(script) - 1, script'[i] = LoadS
               PROVE  FALSE
    BY <1>2 DEF Ahead
  <2>1. i + 1 \in 1 .. Len(script) /\ script[i + 1] = LoadS /\ 1 \in 1 .. Len(script) /\ 1 < i + 1
    BY <1>2
  <2> QED
    BY <1>2, <1>3, <2>1 DEF LoadedOnce
<1>6. c = WakeH => Ahead(SleepH)' /\ ~Ahead(WakeH)'
  <2> SUFFICES ASSUME c = WakeH PROVE Ahead(SleepH)' /\ ~Ahead(WakeH)'
    OBVIOUS
  <2>1. PICK k \in 1 + 1 .. Len(script) : script[k] = SleepH
    BY <1>2, <1>3 DEF LoadedOnce
  <2>2. k - 1 \in 1 .. Len(script) - 1 /\ (k - 1) + 1 = k
    BY <1>2
  <2>3. ASSUME NEW i \in 1 .. Len(script) - 1, script'[i] = WakeH PROVE FALSE
    <3>1. i + 1 \in 1 .. Len(script) /\ script[i + 1] = WakeH /\ 1 \in 1 .. Len(script) /\ 1 < i + 1
      BY <1>2, <2>3
    <3> QED
      BY <1>2, <1>3, <3>1 DEF LoadedOnce
  <2> QED
    BY <1>2, <2>1, <2>2, <2>3 DEF Ahead
<1>7. c = LoadS \/ (Ahead(LoadS)' <=> Ahead(LoadS))
  <2> HIDE DEF c
  <2>1. (Ahead(LoadS)' => Ahead(LoadS)) /\ (Ahead(LoadS) => Ahead(LoadS)' \/ c = LoadS)
    BY <1>4
  <2> QED
    BY <2>1
<1>8. version \in Nat /\ Cur \in Versions /\ Cur \in Nat
  BY ServingAssumption DEF AgeInv, AgeTypes, PhaseInv, PhaseTypes, Versions, ServingAssumption
<1>9. /\ c = LoadS => Cur = version - 1 /\ Cur' = version /\ Cur' \in Nat /\ Cur' \in Versions
      /\ c # LoadS => Cur' = Cur
  <2>1. c = LoadS => Ahead(LoadS)
    BY <1>2 DEF Ahead
  <2>2. version \in Versions
    BY DEF BudgetInv, BudgetType
  <2> QED
    BY <1>1, <1>5, <1>7, <1>8, <2>1, <2>2 DEF Cur
<1>10. \A s \in Standalone : c = LoadS => paused[s]
  <2> SUFFICES ASSUME NEW s \in Standalone, c = LoadS PROVE paused[s]
    OBVIOUS
  <2>1. StandaloneOK(s) /\ s \in Servers /\ todo[s] = <<>>
    BY <1>1 DEF PhaseInv, Servers
  <2> QED
    BY <1>1, <2>1, OpsSteps DEF StandaloneOK, First, Stopped
<1>11. DOMAIN inflight' \in {Standalone, Servers}
  <2>1. /\ c.kind = "add" <=> c = Add
        /\ c.kind = "remove" <=> c = Drop
        /\ Add.on = Hybrid /\ Drop.on = Hybrid /\ Add # Drop
    BY <1>2, CallsAsk, CallsDiffer DEF Add, Drop, Pool
  <2>2. Standalone \cup Hybrid = Servers /\ Servers \cup Hybrid = Servers
        /\ Servers \ Hybrid = Standalone /\ Standalone \ Hybrid = Standalone
    BY ServingAssumption DEF Servers, ServingAssumption
  <2>3. CASE c = Add
    <3>1. DOMAIN inflight' = DOMAIN inflight \cup Hybrid
      BY <2>1, <2>3 DEF Instruct, AddServers
    <3> QED
      BY <2>2, <3>1 DEF AgeInv, AgeTypes
  <2>4. CASE c = Drop
    <3>1. DOMAIN inflight' = DOMAIN inflight \ Hybrid
      BY <2>1, <2>4 DEF Instruct, RemoveServers
    <3> QED
      BY <2>2, <3>1 DEF AgeInv, AgeTypes
  <2>5. CASE c # Add /\ c # Drop
    BY <2>1, <2>5 DEF Instruct, AgeInv, AgeTypes
  <2> QED
    BY <2>3, <2>4, <2>5
<1>12. AgeTypes'
  BY <1>1, <1>8, <1>9, <1>11 DEF AgeInv, AgeTypes
<1>13. ASSUME NEW s \in Standalone PROVE StandaloneAge(s)'
  <2>1. StandaloneAge(s) /\ s \in Servers /\ todo[s] = <<>> /\ todo'[s] = Asked(c, s)
    BY <1>1 DEF AgeInv, Servers
  <2>2. /\ Asked(c, s) \in {<<>>, AbortOps, WipeOps, ResumeOps}
        /\ c = LoadS <=> Asked(c, s) = WipeOps
    <3>1. LoadS.on = Standalone /\ LoadS.ops = WipeOps
      BY DEF LoadS, Call, WipeOps
    <3> QED
      BY <1>2, <3>1, CallsAsk DEF Asked
  <2>3. weights[s] = Cur /\ steps[s] = Cur
    BY <2>1, OpsSteps DEF StandaloneAge
  <2>4. Asked(c, s) = WipeOps => ~Ahead(LoadS)'
    BY <1>5, <2>2
  <2> HIDE DEF c
  <2> QED
    BY <1>1, <1>9, <2>1, <2>2, <2>3, <2>4, OpsSteps DEF StandaloneAge
<1>14. ASSUME NEW h \in Hybrid PROVE HybridAge(h)'
  <2>1. HybridAge(h) /\ h \in Servers /\ todo[h] = <<>> /\ todo'[h] = Asked(c, h)
    BY <1>1 DEF AgeInv, Servers
  <2>2. /\ Asked(c, h) \in {<<>>, AbortOps, WakeOps, ResumeOps, SleepOps}
        /\ Asked(c, h) = WakeOps <=> c = WakeH
        /\ c = SleepH => Asked(c, h) = SleepOps
    <3>1. SleepH.on = Hybrid /\ SleepH.ops = SleepOps
      BY DEF SleepH, Call, SleepOps
    <3> QED
      BY <1>2, <3>1, CallsAsk DEF Asked
  <2>3. todo'[h] \notin {NamedOps, LastOps}
    BY <2>1, <2>2, OpsSteps DEF NamedOps, LastOps, AbortOps, ResumeOps, SleepOps, WakeOps
  <2>4. c \in {WakeH, LoadS} => asleep[h]
    <3>1. c \in {WakeH, LoadS} => Ahead(WakeH) \/ Ahead(LoadS)
      BY <1>2 DEF Ahead
    <3> QED
      BY <2>1, <3>1 DEF HybridAge
  <2> HIDE DEF c
  <2>5. Ahead(WakeH)' \/ Ahead(LoadS)' \/ todo'[h] = WakeOps => asleep[h]
    BY <1>4, <2>1, <2>2, <2>4 DEF HybridAge
  <2>6. todo'[h] = WakeOps => Ahead(SleepH)' /\ ~Ahead(LoadS)' /\ ~Ahead(WakeH)'
    BY <1>5, <1>6, <2>1, <2>2
  <2>7. ~asleep[h] => /\ Ahead(SleepH)' \/ todo'[h] = SleepOps
                      /\ weights[h] = version /\ steps[h] = version
    BY <1>4, <2>1, <2>2, OpsSteps DEF HybridAge
  <2> QED
    BY <1>1, <2>3, <2>5, <2>6, <2>7 DEF HybridAge
<1>15. ASSUME NEW r \in Requests PROVE RequestAge(r)'
  <2>1. pc[r] = "serving" => c # LoadS
    <3> SUFFICES ASSUME pc[r] = "serving", c = LoadS PROVE FALSE
      OBVIOUS
    <3>1. srv[r] \in Servers /\ r \in Calls(srv[r], "serving")
      BY DEF LoadInv, ClientOK, Holding, Calls
    <3>2. srv[r] \notin Standalone /\ ~asleep[srv[r]]
      BY <1>10, <3>1 DEF PhaseInv, NothingServed
    <3>3. Ahead(LoadS)
      BY <1>2 DEF Ahead
    <3> QED
      BY <3>1, <3>2, <3>3 DEF AgeInv, HybridAge, Servers
  <2>2. Cur <= Cur' /\ Cur' \in Nat
    BY <1>8, <1>9
  <2> HIDE DEF c
  <2> QED
    BY <1>1, <1>8, <1>9, <2>1, <2>2, SameAge DEF AgeInv
<1> QED
  BY <1>3, <1>12, <1>13, <1>14, <1>15 DEF AgeInv

\* What a server does keeps the ages of the servers.
LEMMA AgeServersOperate ==
    ASSUME LoadInv, PhaseInv, BudgetInv, AgeInv, NEW s \in Servers, Operate(s)
    PROVE  /\ \A t \in Standalone : StandaloneAge(t)'
           /\ \A h \in Hybrid : HybridAge(h)'
           /\ LoadedOnce(script)' /\ Cur' = Cur /\ steps' \in [Servers -> Versions]
<1> DEFINE op == Head(todo[s])
<1>1. /\ UNCHANGED <<inflight, srv, script, version>>
      /\ todo[s] # <<>> /\ todo'[s] = Tail(todo[s])
      /\ \A t \in Servers : t # s =>
            /\ todo'[t] = todo[t] /\ paused'[t] = paused[t] /\ asleep'[t] = asleep[t]
            /\ weights'[t] = weights[t] /\ Calls(t, "serving")' = Calls(t, "serving")
  BY OperateElsewhere
<1>2. /\ op = "abort" => /\ paused'[s] /\ Calls(s, "serving")' = {}
                         /\ weights'[s] = weights[s] /\ (asleep'[s] <=> asleep[s])
      /\ op = "resume" => /\ ~paused'[s] /\ weights'[s] = weights[s] /\ (asleep'[s] <=> asleep[s])
                          /\ asleep[s] => Calls(s, "serving")' \subseteq Calls(s, "serving")
      /\ op \notin {"abort", "resume"} =>
            /\ paused'[s] = paused[s] /\ Calls(s, "serving")' = Calls(s, "serving")
            /\ weights'[s] = IF op = "load" THEN version
                             ELSE IF op \in {"wipe", "sleep"} THEN Mixed ELSE weights[s]
            /\ asleep'[s] <=> (op = "sleep" \/ (asleep[s] /\ op # "wake"))
  BY OperateHere
<1>3. /\ \A t \in Servers : t # s => steps'[t] = steps[t]
      /\ steps'[s] = IF op = "label" THEN version ELSE steps[s]
      /\ steps' \in [Servers -> Versions]
  <2>1. version \in Versions /\ steps \in [Servers -> Versions]
    BY DEF BudgetInv, BudgetType, AgeInv, AgeTypes
  <2>2. CASE op \in {"abort", "resume"}
    <3>1. Abort(s) \/ Resume(s)
      BY <2>2 DEF Operate
    <3> QED
      BY <2>1, <2>2, <3>1 DEF Abort, Resume
  <2>3. CASE op \notin {"abort", "resume"}
    <3>1. Device(s, op)
      BY <2>3 DEF Operate
    <3>2. steps' = [steps EXCEPT ![s] = IF op = "label" THEN version ELSE steps[s]]
      BY <3>1 DEF Device
    <3> QED
      BY <2>1, <3>2
  <2> QED
    BY <2>2, <2>3
<1>4. Cur' = Cur /\ \A c : Ahead(c)' <=> Ahead(c)
  BY <1>1 DEF Cur, Ahead
<1>5. LoadedOnce(script)'
  BY <1>1 DEF AgeInv
<1>6. s \in Standalone => StandaloneAge(s)'
  <2> SUFFICES ASSUME s \in Standalone PROVE StandaloneAge(s)'
    OBVIOUS
  <2>1. StandaloneAge(s) /\ StandaloneOK(s)
    BY DEF AgeInv, PhaseInv
  <2>2. todo[s] \in {AbortOps, WipeOps, LoadOps, LabelOps, ResumeOps}
    BY <1>1, <2>1 DEF StandaloneOK
  <2>3. todo[s] \in {LoadOps, LabelOps} => paused[s]
    BY <2>1 DEF StandaloneOK, StandaloneAge
  <2>4. todo[s] \in {WipeOps, LoadOps} => ~Ahead(LoadS) /\ version = Cur
    BY <2>1 DEF StandaloneAge, Cur
  <2>5. CASE todo[s] = WipeOps
    BY <1>1, <1>4, <2>4, <2>5, OpsSteps DEF StandaloneAge
  <2>6. CASE todo[s] = LoadOps
    BY <1>1, <1>2, <1>4, <2>3, <2>4, <2>6, OpsSteps DEF StandaloneAge
  <2>7. CASE todo[s] = LabelOps
    <3>1. weights[s] = Cur /\ version = Cur
      BY <2>1, <2>7, OpsSteps DEF StandaloneAge, Cur
    <3> QED
      BY <1>1, <1>2, <1>3, <1>4, <2>7, <3>1, OpsSteps DEF StandaloneAge
  <2>8. CASE todo[s] \in {AbortOps, ResumeOps}
    <3>1. todo'[s] = <<>> /\ weights'[s] = weights[s] /\ steps'[s] = steps[s]
      BY <1>1, <1>2, <1>3, <2>8, OpsSteps
    <3>2. weights[s] = Cur /\ steps[s] = Cur
      BY <2>1, <2>8, OpsSteps DEF StandaloneAge
    <3> QED
      BY <1>4, <3>1, <3>2, OpsSteps DEF StandaloneAge
  <2> QED
    BY <2>2, <2>5, <2>6, <2>7, <2>8
<1>7. s \in Hybrid => HybridAge(s)'
  <2> SUFFICES ASSUME s \in Hybrid PROVE HybridAge(s)'
    OBVIOUS
  <2>1. HybridAge(s) /\ HybridOK(s)
    BY DEF AgeInv, PhaseInv
  <2>2. CASE todo[s] = WakeOps
    <3>1. /\ todo'[s] = NamedOps /\ weights'[s] = version /\ asleep'[s]
          /\ Ahead(SleepH) /\ ~Ahead(LoadS) /\ ~Ahead(WakeH)
      BY <1>1, <1>2, <2>1, <2>2, OpsSteps DEF HybridAge
    <3> QED
      BY <1>1, <1>4, <3>1, OpsSteps DEF HybridAge
  <2>3. CASE todo[s] = NamedOps
    <3>1. /\ todo'[s] = LastOps /\ weights'[s] = version /\ steps'[s] = version /\ asleep'[s]
          /\ Ahead(SleepH) /\ ~Ahead(LoadS) /\ ~Ahead(WakeH)
      BY <1>1, <1>2, <1>3, <2>1, <2>3, OpsSteps DEF HybridAge
    <3> QED
      BY <1>1, <1>4, <3>1 DEF HybridAge
  <2>4. CASE todo[s] = LastOps
    <3>1. /\ todo'[s] = <<>> /\ weights'[s] = version /\ steps'[s] = version
          /\ Ahead(SleepH) /\ ~Ahead(LoadS) /\ ~Ahead(WakeH)
      BY <1>1, <1>2, <1>3, <2>1, <2>4, OpsSteps DEF HybridAge
    <3> QED
      BY <1>1, <1>4, <3>1, OpsSteps DEF HybridAge
  <2>5. CASE todo[s] \in {AbortOps, ResumeOps}
    <3>1. /\ todo'[s] = <<>> /\ todo[s] # SleepOps
          /\ weights'[s] = weights[s] /\ steps'[s] = steps[s] /\ (asleep'[s] <=> asleep[s])
      BY <1>1, <1>2, <1>3, <2>5, OpsSteps
    <3> QED
      BY <1>1, <1>4, <2>1, <3>1, OpsSteps DEF HybridAge
  <2>6. CASE todo[s] = SleepOps
    <3>1. todo'[s] = <<>> /\ asleep'[s]
      BY <1>1, <1>2, <2>6, OpsSteps
    <3> QED
      BY <3>1, OpsSteps DEF HybridAge
  <2> QED
    BY <1>1, <2>1, <2>2, <2>3, <2>4, <2>5, <2>6 DEF HybridOK
<1>8. ASSUME NEW t \in Standalone PROVE StandaloneAge(t)'
  <2>1. StandaloneAge(t) /\ t \in Servers
    BY DEF AgeInv, Servers
  <2> QED
    BY <1>1, <1>3, <1>4, <1>6, <2>1 DEF StandaloneAge
<1>9. ASSUME NEW h \in Hybrid PROVE HybridAge(h)'
  <2>1. HybridAge(h) /\ h \in Servers
    BY DEF AgeInv, Servers
  <2>2. CASE h # s
    BY <1>1, <1>3, <1>4, <2>1, <2>2 DEF HybridAge
  <2> QED
    BY <1>7, <2>2
<1> QED
  BY <1>3, <1>4, <1>5, <1>8, <1>9

\* A generation that is interrupted is labelled with the version of its tokens.
LEMMA AgeOperate ==
    ASSUME LoadInv, PhaseInv, BudgetInv, AgeInv, NEW s \in Servers, Operate(s)
    PROVE  AgeInv'
<1>1. /\ \A t \in Standalone : StandaloneAge(t)'
      /\ \A h \in Hybrid : HybridAge(h)'
      /\ LoadedOnce(script)' /\ Cur' = Cur /\ steps' \in [Servers -> Versions]
  BY AgeServersOperate
<1>2. /\ UNCHANGED <<inflight, session, srv, toks, minV, maxV, script, version>>
      /\ Abort(s) \/ Resume(s) \/ \E op : Device(s, op)
  BY DEF Operate, resultVars
<1>3. Cur \in Versions /\ Cur \in Nat /\ out' = out
  BY <1>2, CurStays DEF Abort, Resume, Device
<1>4. \A r \in Calls(s, "serving") : steps[s] = Cur /\ steps[srv[r]] = Cur
  BY ServingAge DEF Calls
<1>5. ASSUME NEW r \in Requests
      PROVE  \/ pc'[r] = pc[r] /\ label'[r] = label[r] /\ stop'[r] = stop[r]
             \/ /\ pc'[r] \in {"serving", "failed"} /\ Len(out[r]) = 0
                /\ label'[r] = label[r] /\ stop'[r] = stop[r]
             \/ /\ r \in Calls(s, "serving") /\ pc'[r] = "reply" /\ stop'[r] = "aborted"
                /\ label'[r] \in {NoStep, Cur} /\ (out[r] # <<>> => label'[r] = Cur)
  <2>1. CASE Abort(s)
    <3> DEFINE D == Calls(s, "serving")
    <3>1. PICK bare \in SUBSET {q \in D : out'[q] = <<>>} :
             label' = [q \in Requests |-> IF q \notin D THEN label[q]
                                          ELSE IF q \in bare THEN NoStep ELSE steps[srv[q]]]
      BY <2>1 DEF Abort, Ended
    <3>2. /\ r \in D => pc'[r] = "reply" /\ stop'[r] = "aborted"
          /\ r \notin D => pc'[r] = pc[r] /\ stop'[r] = stop[r]
      BY <2>1 DEF Abort, Ended
    <3>3. r \in D => label'[r] \in {NoStep, Cur} /\ (out[r] # <<>> => label'[r] = Cur)
      BY <1>3, <1>4, <3>1
    <3> QED
      BY <3>1, <3>2, <3>3
  <2>2. CASE Resume(s)
    <3>1. pc[r] = "blocked" => Len(out[r]) = 0
      BY DEF BudgetInv, Budget
    <3> QED
      BY <2>2, <3>1 DEF Resume, Calls
  <2>3. CASE \E op : Device(s, op)
    BY <2>3 DEF Device
  <2> QED
    BY <1>2, <2>1, <2>2, <2>3
<1>6. \A r \in Requests : RequestAge(r)'
  <2> SUFFICES ASSUME NEW r \in Requests PROVE RequestAge(r)'
    OBVIOUS
  <2>1. RequestAge(r)
    BY DEF AgeInv
  <2>2. CASE pc'[r] = pc[r] /\ label'[r] = label[r] /\ stop'[r] = stop[r]
    BY <1>1, <1>2, <1>3, <2>1, <2>2, SameAge
  <2>3. CASE /\ pc'[r] \in {"serving", "failed"} /\ Len(out[r]) = 0
             /\ label'[r] = label[r] /\ stop'[r] = stop[r]
    BY <1>1, <1>2, <1>3, <2>1, <2>3, SameAge
  <2>4. CASE /\ r \in Calls(s, "serving") /\ pc'[r] = "reply" /\ stop'[r] = "aborted"
             /\ label'[r] \in {NoStep, Cur} /\ (out[r] # <<>> => label'[r] = Cur)
    <3>1. \A i \in 1 .. Len(out'[r]) : out'[r][i] = Cur
      BY <1>3, <2>1, <2>4 DEF RequestAge, Calls
    <3>2. /\ \A i \in 1 .. Len(toks'[r]) : toks'[r][i] \in 0 .. Cur' /\ minV'[r] <= toks'[r][i]
          /\ \A i, j \in 1 .. Len(toks'[r]) : i < j => toks'[r][i] <= toks'[r][j]
          /\ minV'[r] \in NoStep .. Cur' /\ (toks'[r] # <<>> => minV'[r] # NoStep)
      BY <1>1, <1>2, <2>1 DEF RequestAge
    <3>3. minV'[r] <= Cur /\ \A i \in 1 .. Len(toks'[r]) : toks'[r][i] <= Cur
      BY <1>1, <1>3, <3>2 DEF NoStep
    <3>4. NoStep \in NoStep .. Cur' /\ Cur \in NoStep .. Cur' /\ Cur # NoStep
      BY <1>1, <1>3 DEF NoStep
    <3> QED
      BY <1>3, <2>4, <3>1, <3>2, <3>3, <3>4 DEF RequestAge
  <2> QED
    BY <1>5, <2>2, <2>3, <2>4
<1>7. AgeTypes'
  <2>1. /\ \A r \in Requests : label'[r] \in Versions \cup {NoStep}
        /\ \A r \in Requests : stop'[r] \in {"none", "completed", "aborted"}
    BY <1>3, <1>5 DEF AgeInv, AgeTypes
  <2>2. /\ label' = label \/ \E f : label' = [r \in Requests |-> f[r]]
        /\ stop' = stop \/ \E f : stop' = [r \in Requests |-> f[r]]
    <3>1. Abort(s) => /\ label' = [r \in Requests |-> label'[r]]
                      /\ stop' = [r \in Requests |-> stop'[r]]
      BY DEF Abort, Ended
    <3> QED
      BY <1>2, <3>1 DEF Resume, Device
  <2>3. label' \in [Requests -> Versions \cup {NoStep}]
        /\ stop' \in [Requests -> {"none", "completed", "aborted"}]
    BY <2>1, <2>2 DEF AgeInv, AgeTypes
  <2> QED
    BY <1>1, <1>2, <1>3, <2>3 DEF AgeInv, AgeTypes
<1> QED
  BY <1>1, <1>6, <1>7 DEF AgeInv

-----------------------------------------------------------------------------
\* At first no token exists and the servers of the rollouter have version 0.
LEMMA AgeInit == ASSUME Init PROVE AgeInv
<1>1. version = 0 /\ 0 \in Versions
  BY ServingAssumption DEF Init, Versions, ServingAssumption
<1>2. LoadedOnce(script) /\ Cur = 0
  <2>1. CASE script = <<>>
    BY <1>1, <2>1 DEF LoadedOnce, Cur, Ahead
  <2>2. CASE script = Validate
    <3>1. /\ Len(Validate) = 13
          /\ \A i \in 1 .. 13 : /\ Validate[i] # LoadS
                                /\ Validate[i] = WakeH <=> i = 1
                                /\ Validate[i] = SleepH <=> i = 11
      BY ValidatePlaces
    <3>2. ~Ahead(LoadS)
      BY <2>2, <3>1 DEF Ahead
    <3>3. LoadedOnce(Validate)
      BY <3>1 DEF LoadedOnce
    <3> QED
      BY <1>1, <2>2, <3>2, <3>3 DEF Cur
  <2> QED
    BY <2>1, <2>2 DEF Init
<1>3. AgeTypes
  BY <1>1, <1>2 DEF Init, AgeTypes
<1>5. \A s \in Standalone : StandaloneAge(s)
  <2> SUFFICES ASSUME NEW s \in Standalone PROVE StandaloneAge(s)
    OBVIOUS
  <2>1. s \in Servers /\ s \notin Hybrid
    BY ServingAssumption DEF Servers, ServingAssumption
  <2>2. weights[s] = 0 /\ steps[s] = 0 /\ todo[s] = <<>>
    BY <2>1 DEF Init
  <2> QED
    BY <1>2, <2>2, OpsSteps DEF StandaloneAge
<1>6. \A h \in Hybrid : HybridAge(h)
  <2> SUFFICES ASSUME NEW h \in Hybrid PROVE HybridAge(h)
    OBVIOUS
  <2>1. asleep[h] /\ todo[h] = <<>>
    BY DEF Init, Servers
  <2> QED
    BY <2>1, OpsSteps DEF HybridAge
<1>7. \A r \in Requests : RequestAge(r)
  BY <1>2 DEF Init, RequestAge, NoStep
<1> QED
  BY <1>2, <1>3, <1>5, <1>6, <1>7 DEF AgeInv

\* Every step keeps the ages.
LEMMA AgeNext ==
    ASSUME LoadInv, PhaseInv, BudgetInv, AgeInv, [Next]_vars
    PROVE  AgeInv'
<1>1. CASE UNCHANGED vars
  <2>1. UNCHANGED <<inflight, session, pc, srv, out, label, stop, toks, minV, maxV, paused, asleep,
                    weights, steps, script, todo, version>>
    BY <1>1 DEF vars, lbVars, clientVars, callVars, resultVars, serverVars, trainerVars
  <2>2. Cur' = Cur /\ \A c : Ahead(c)' <=> Ahead(c)
    BY <2>1 DEF Cur, Ahead
  <2>4. AgeTypes' /\ LoadedOnce(script)'
    BY <2>1, <2>2 DEF AgeInv, AgeTypes
  <2>5. \A s \in Standalone : StandaloneAge(s)'
    BY <2>1, <2>2 DEF AgeInv, StandaloneAge
  <2>6. \A h \in Hybrid : HybridAge(h)'
    BY <2>1, <2>2 DEF AgeInv, HybridAge
  <2>7. \A r \in Requests : RequestAge(r)'
    BY <2>1, <2>2 DEF AgeInv, RequestAge
  <2> QED
    BY <2>4, <2>5, <2>6, <2>7 DEF AgeInv
<1> QED
  BY <1>1, AgeClient, AgeSync, AgeInstruct, AgeOperate DEF Next, Trainer

\* the inductive invariant of the whole module
AllInv == LoadInv /\ PhaseInv /\ BudgetInv /\ AgeInv

\* It holds from the start and every step keeps it.
LEMMA AllInvHolds == Spec => []AllInv
<1>1. Init => AllInv
  BY LoadInit, PhaseInit, BudgetInit, AgeInit DEF AllInv
<1>2. AllInv /\ [Next]_vars => AllInv'
  BY LoadNext, PhaseNext, BudgetNext, AgeNext DEF AllInv
<1> QED
  BY <1>1, <1>2, PTL DEF Spec

\* However often a generation is interrupted by weight updates and validations, a
\* finished response has tokens, reports the version of the last of them and a
\* minimum that is a version, no later than that of the first, and the versions of its
\* tokens do not decrease.
THEOREM LabelsAreRight == Spec => []LabelsBracket
<1>1. AllInv => LabelsBracket
  <2> SUFFICES ASSUME AllInv, NEW r \in Requests, pc[r] = "done", stop[r] = "completed"
               PROVE  /\ toks[r] # <<>> /\ maxV[r] = toks[r][Len(toks[r])]
                      /\ minV[r] # NoStep /\ minV[r] <= toks[r][1]
                      /\ \A i \in 1 .. Len(toks[r]) - 1 : toks[r][i] <= toks[r][i + 1]
    BY DEF LabelsBracket
  <2>1. RequestAge(r) /\ toks[r] \in Seq(Tokens) /\ Len(toks[r]) \in Nat
    BY LenProperties DEF AllInv, AgeInv, BudgetInv, BudgetType
  <2>2. toks[r] # <<>> /\ maxV[r] = toks[r][Len(toks[r])] /\ minV[r] # NoStep
    BY <2>1 DEF RequestAge
  <2>3. minV[r] <= toks[r][1]
    <3>1. Len(toks[r]) # 0
      BY <2>1, <2>2, EmptySeq
    <3>2. 1 \in 1 .. Len(toks[r])
      BY <2>1, <3>1
    <3> QED
      BY <2>1, <3>2 DEF RequestAge
  <2>4. ASSUME NEW i \in 1 .. Len(toks[r]) - 1 PROVE toks[r][i] <= toks[r][i + 1]
    <3>1. i \in 1 .. Len(toks[r]) /\ i + 1 \in 1 .. Len(toks[r]) /\ i < i + 1
      BY <2>1
    <3> QED
      BY <2>1, <3>1 DEF RequestAge
  <2> QED
    BY <2>2, <2>3, <2>4
<1> QED
  BY <1>1, AllInvHolds, PTL

\* Every variable of the system keeps its type.
THEOREM ServingTyped == Spec => []TypeOK
<1>1. AllInv => TypeOK
  <2> SUFFICES ASSUME AllInv PROVE TypeOK
    OBVIOUS
  <2>1. AgeTypes /\ PhaseTypes /\ ClientOK /\ CountOK /\ BudgetType
    BY DEF AllInv, AgeInv, PhaseInv, LoadInv, BudgetInv
  <2>2. \A s \in DOMAIN inflight : inflight[s] \in Nat
    BY <2>1 DEF CountOK
  <2> QED
    BY <2>1, <2>2 DEF TypeOK, AgeTypes, PhaseTypes, ClientOK, Holding, BudgetType, Tokens
<1> QED
  BY <1>1, AllInvHolds, PTL
=============================================================================
