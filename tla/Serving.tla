------------------------------- MODULE Serving -------------------------------
(***************************************************************************)
(* Generation in fully asynchronous training, below the sample tasks of    *)
(* FullyAsync: the load balancer with its sticky sessions, the clients     *)
(* that resume an aborted generation, the servers, and the trainer that    *)
(* stops them to transfer weights and lends its own GPUs (the hybrid       *)
(* servers) to validation.                                                 *)
(*                                                                         *)
(* Every remote call is a step of its own; the calls of one client to the  *)
(* load balancer arrive in the order in which they were made.  A token is  *)
(* the version of the weights it was computed with.                        *)
(***************************************************************************)
EXTENDS Integers, Sequences, FiniteSets

CONSTANTS
    Requests, Standalone, Hybrid,
    ResponseLength, \* config.response_length
    Slack,          \* prompt_length - len(prompt_ids)
    Partial,        \* async_training.partial_rollout
    MaxVersion,     \* bound: weight updates
    None            \* no server

Servers == Standalone \cup Hybrid

ASSUME ServingAssumption ==
    /\ IsFiniteSet(Requests) /\ IsFiniteSet(Servers)
    /\ Standalone \cap Hybrid = {} /\ Standalone # {} /\ None \notin Servers
    /\ ResponseLength \in Nat \ {0} /\ Slack \in Nat
    /\ Partial \in BOOLEAN /\ MaxVersion \in Nat

Mixed == -1     \* weights that are being overwritten, or were released
NoStep == -1    \* global_steps is None

VARIABLES
    inflight,       \* _inflight_requests: registered server -> count
    session,        \* _request_id_to_server, None if there is no entry
    pend,           \* the release_server call of a request, on its way
    pc, srv,        \* a client and the server it was given
    out, label, stop,   \* the TokenOutput of the current call
    toks, minV, maxV,   \* final_output, min_global_steps, max_global_steps
    paused, asleep, weights, steps,     \* the servers
    script, todo,   \* the trainer's remote calls still to be made, and the
                    \* operations of the current ones, server by server
    version         \* current_param_version

lbVars == <<inflight, session, pend>>
callVars == <<out, label, stop>>
resultVars == <<toks, minV, maxV>>
clientVars == <<pc, srv, callVars, resultVars>>
serverVars == <<paused, asleep, weights, steps>>
trainerVars == <<script, todo, version>>
vars == <<lbVars, clientVars, serverVars, trainerVars>>

-----------------------------------------------------------------------------
(* GlobalRequestLoadBalancer *)

Least == {s \in DOMAIN inflight : \A t \in DOMAIN inflight : inflight[s] <= inflight[t]}

\* mutant: a session is kept though its server was removed
AcquireStale(r, s) ==
    /\ IF session[r] # None THEN s = session[r] ELSE s \in Least
    /\ session' = [session EXCEPT ![r] = s]
    /\ inflight' = [t \in DOMAIN inflight |-> inflight[t] + IF t = s THEN 1 ELSE 0]

\* acquire_server: the session's server if it is registered, or else one with
\* the fewest requests (which of them is left open)
AcquireServer(r, s) ==
    /\ IF session[r] \in DOMAIN inflight THEN s = session[r] ELSE s \in Least
    /\ session' = [session EXCEPT ![r] = s]
    /\ inflight' = [inflight EXCEPT ![s] = @ + 1]

\* mutant: the count is not kept from falling below zero
ReleaseUnclamped(s) ==
    inflight' = [t \in DOMAIN inflight |-> inflight[t] - IF t = s THEN 1 ELSE 0]

\* mutant: a release is lost
ReleaseNothing(s) == inflight' = inflight

\* release_server: not below zero, and nothing for a server that was removed
ReleaseServer(s) ==
    inflight' = IF s \in DOMAIN inflight /\ inflight[s] > 0
                THEN [inflight EXCEPT ![s] = @ - 1] ELSE inflight

\* add_servers and remove_servers, of the replicas that are not, or are, active
AddServers(S) ==
    inflight' = [s \in DOMAIN inflight \cup S |->
                    IF s \in DOMAIN inflight THEN inflight[s] ELSE 0]

RemoveServers(S) == inflight' = [s \in DOMAIN inflight \ S |-> inflight[s]]

-----------------------------------------------------------------------------
(* FullyAsyncLLMServerClient.generate *)

\* the load balancer takes the client's call, after its release of the last one
Acquire(r) ==
    /\ pc[r] = "ready" /\ pend[r] = None
    /\ \E s \in Servers : AcquireServer(r, s) /\ srv' = [srv EXCEPT ![r] = s]
    /\ pc' = [pc EXCEPT ![r] = "routed"]
    /\ UNCHANGED <<pend, callVars, resultVars, serverVars, trainerVars>>

\* The call raises, as a generation on a sleeping engine does; the finally
\* clause releases the server.
Raise(r) ==
    /\ pc' = [pc EXCEPT ![r] = "failed"]
    /\ pend' = [pend EXCEPT ![r] = srv[r]]

\* generate() begins on the server; a paused engine holds it back
Arrive(r) ==
    /\ pc[r] = "routed"
    /\ IF asleep[srv[r]] /\ ~paused[srv[r]]
       THEN Raise(r)
       ELSE /\ pc' = [pc EXCEPT ![r] = IF paused[srv[r]] THEN "blocked" ELSE "serving"]
            /\ UNCHANGED pend
    /\ UNCHANGED <<inflight, session, srv, callVars, resultVars, serverVars,
                   trainerVars>>

\* mutant: what was generated before the interruption is not counted
LimitPerCall(r) == ResponseLength

\* max_tokens of the call: the sampling parameters of the agent loops set none,
\* so the server computes it from the length of the prompt, to which the client
\* has added the tokens it has
Limit(r) ==
    LET room == ResponseLength + Slack - Len(toks[r])
        most == IF room < ResponseLength THEN room ELSE ResponseLength
    IN  IF most < 1 THEN 1 ELSE most

\* The generations of D end; the coroutines read global_steps before the server
\* takes another call.  One that is cut off before its first token ends with an
\* output of no tokens, which is labelled like any other, or with no output at
\* all, which is not.
Ended(D, reason) ==
    /\ pc' = [r \in Requests |-> IF r \in D THEN "reply" ELSE pc[r]]
    /\ stop' = [r \in Requests |-> IF r \in D THEN reason ELSE stop[r]]
    /\ \E bare \in SUBSET {r \in D : out'[r] = <<>>} :
          label' = [r \in Requests |-> IF r \notin D THEN label[r]
                                       ELSE IF r \in bare THEN NoStep ELSE steps[srv[r]]]

\* The engine adds a token: the last of the sequence, as one at the limit is, or
\* not.
Token(r) ==
    /\ pc[r] = "serving"
    /\ out' = [out EXCEPT ![r] = Append(@, weights[srv[r]])]
    /\ \/ Ended({r}, "completed")
       \/ Len(out'[r]) < Limit(r) /\ UNCHANGED <<pc, label, stop>>
    /\ UNCHANGED <<lbVars, srv, resultVars, serverVars, trainerVars>>

\* mutant: the first version is forgotten when the generation is resumed
MergeLatest(r) ==
    /\ toks' = [toks EXCEPT ![r] = @ \o out[r]]
    /\ minV' = [minV EXCEPT ![r] = label[r]]
    /\ maxV' = [maxV EXCEPT ![r] = label[r]]

\* the answer is added to final_output, and the versions noted
Merge(r) ==
    /\ toks' = [toks EXCEPT ![r] = @ \o out[r]]
    /\ minV' = [minV EXCEPT ![r] = IF @ = NoStep THEN label[r] ELSE @]
    /\ maxV' = [maxV EXCEPT ![r] = label[r]]

\* The answer arrives and the server is released; an aborted generation goes
\* on, after a second, with the tokens it has.
Receive(r) ==
    /\ pc[r] = "reply"
    /\ Merge(r)
    /\ pend' = [pend EXCEPT ![r] = srv[r]]
    /\ pc' = [pc EXCEPT ![r] = IF stop[r] = "aborted" /\ Partial THEN "ready" ELSE "done"]
    /\ srv' = [srv EXCEPT ![r] = None]
    /\ out' = [out EXCEPT ![r] = <<>>]
    /\ label' = [label EXCEPT ![r] = NoStep]
    /\ UNCHANGED <<inflight, session, stop, serverVars, trainerVars>>

\* the load balancer takes the release, which nobody awaits
Release(r) ==
    /\ pend[r] # None
    /\ ReleaseServer(pend[r])
    /\ pend' = [pend EXCEPT ![r] = None]
    /\ UNCHANGED <<session, clientVars, serverVars, trainerVars>>

Client(r) ==
    \/ Acquire(r) \/ Arrive(r) \/ Token(r) \/ Receive(r) \/ Release(r)

-----------------------------------------------------------------------------
(* The trainer *)

\* a call of the checkpoint manager to all servers of S, which do ops in turn
Call(S, ops) == [kind |-> "call", on |-> S, ops |-> ops]
Pool(kind) == [kind |-> kind, on |-> Hybrid, ops |-> <<>>]

\* CheckpointEngineManager.update_weights
Update == <<Call(Standalone, <<"abort">>),
            Call(Standalone, <<"wipe", "load", "label">>),
            Call(Standalone, <<"resume">>)>>

\* mutant: the engine is woken as a whole before its weights are loaded
WakeThenLoad == <<"wake", "load", "label">>

\* ActorRolloutRefWorker.update_weights, on the trainer's own GPUs.  It stops no
\* generation; the KV cache comes last, and an engine is not awake before.
HybridUpdate == <<"load", "label", "wake">>

\* mutant: the rollouter's servers are left stopped after the validation
ValidateThenStop == <<Call(Hybrid, HybridUpdate),
                      Call(Standalone, <<"abort">>), Pool("add"),
                      Call(Standalone, <<"resume">>), Pool("validate"),
                      Call(Standalone, <<"abort">>), Call(Hybrid, <<"abort">>),
                      Pool("remove"), Call(Hybrid, <<"sleep">>)>>

\* _trainer_side_validate
Validate == <<Call(Hybrid, HybridUpdate),
              Call(Standalone, <<"abort">>), Call(Hybrid, <<"abort">>),
              Pool("add"),
              Call(Standalone, <<"resume">>), Call(Hybrid, <<"resume">>),
              Pool("validate"),
              Call(Standalone, <<"abort">>), Call(Hybrid, <<"abort">>),
              Pool("remove"),
              Call(Hybrid, <<"sleep">>),
              Call(Standalone, <<"resume">>), Call(Hybrid, <<"resume">>)>>

\* a new version, which is validated or not
Sync ==
    /\ script = <<>> /\ todo = [s \in Servers |-> <<>>] /\ version < MaxVersion
    /\ version' = version + 1
    /\ script' \in {Update, Update \o Validate}
    /\ UNCHANGED <<lbVars, clientVars, serverVars, todo>>

\* the next call, once every server has answered the last one
Instruct ==
    /\ script # <<>> /\ todo = [s \in Servers |-> <<>>]
    /\ script' = Tail(script)
    /\ LET c == Head(script)
       IN  /\ todo' = [s \in Servers |-> IF s \in c.on THEN c.ops ELSE <<>>]
           /\ CASE c.kind = "add" -> AddServers(c.on)
                [] c.kind = "remove" -> RemoveServers(c.on)
                [] OTHER -> UNCHANGED inflight
    /\ UNCHANGED <<session, pend, clientVars, serverVars, version>>

Calls(s, state) == {r \in Requests : srv[r] = s /\ pc[r] = state}

\* abort_all_requests: running generations end, new ones wait
Abort(s) ==
    /\ UNCHANGED <<pend, out, asleep, weights, steps>>
    /\ Ended(Calls(s, "serving"), "aborted")
    /\ paused' = [paused EXCEPT ![s] = TRUE]

\* resume_generation: the calls held back begin, and fail on a sleeping engine
Resume(s) ==
    LET D == Calls(s, "blocked")
    IN  /\ pc' = [r \in Requests |-> IF r \notin D THEN pc[r]
                                     ELSE IF asleep[s] THEN "failed" ELSE "serving"]
        /\ pend' = [r \in Requests |-> IF r \in D /\ asleep[s] THEN s ELSE pend[r]]
        /\ paused' = [paused EXCEPT ![s] = FALSE]
        /\ UNCHANGED <<out, label, stop, asleep, weights, steps>>

\* what the operations on weights and memory do
Device(s, op) ==
    /\ weights' = [weights EXCEPT ![s] = CASE op = "load" -> version
                                           [] op \in {"wipe", "sleep"} -> Mixed
                                           [] OTHER -> @]
    /\ steps' = [steps EXCEPT ![s] = IF op = "label" THEN version ELSE @]
    /\ asleep' = [asleep EXCEPT ![s] = (op = "sleep") \/ (@ /\ op # "wake")]
    /\ UNCHANGED <<pc, pend, out, label, stop, paused>>

Operate(s) ==
    /\ todo[s] # <<>>
    /\ todo' = [todo EXCEPT ![s] = Tail(@)]
    /\ LET op == Head(todo[s])
       IN  CASE op = "abort" -> Abort(s)
             [] op = "resume" -> Resume(s)
             [] OTHER -> Device(s, op)
    /\ UNCHANGED <<inflight, session, srv, resultVars, script, version>>

Trainer == Sync \/ Instruct \/ \E s \in Servers : Operate(s)

-----------------------------------------------------------------------------
\* the first weights are with the rollouter; training begins with a validation
\* (val_before_train) or not
Init ==
    /\ inflight = [s \in Standalone |-> 0]
    /\ session = [r \in Requests |-> None] /\ pend = [r \in Requests |-> None]
    /\ pc = [r \in Requests |-> "ready"] /\ srv = [r \in Requests |-> None]
    /\ out = [r \in Requests |-> <<>>] /\ toks = [r \in Requests |-> <<>>]
    /\ label = [r \in Requests |-> NoStep] /\ stop = [r \in Requests |-> "none"]
    /\ minV = [r \in Requests |-> NoStep] /\ maxV = [r \in Requests |-> NoStep]
    /\ paused = [s \in Servers |-> FALSE] /\ asleep = [s \in Servers |-> s \in Hybrid]
    /\ weights = [s \in Servers |-> IF s \in Hybrid THEN Mixed ELSE 0]
    /\ steps = [s \in Servers |-> 0]
    /\ script \in {<<>>, Validate} /\ todo = [s \in Servers |-> <<>>]
    /\ version = 0

Next == Trainer \/ \E r \in Requests : Client(r)

Spec == Init /\ [][Next]_vars

\* every remote call is answered, an engine that runs makes progress, and the
\* trainer goes through with what it began
Fairness ==
    /\ \A r \in Requests : WF_vars(Client(r))
    /\ WF_vars(Instruct \/ \E s \in Servers : Operate(s))

FairSpec == Spec /\ Fairness

-----------------------------------------------------------------------------
(* Properties *)

Versions == 0 .. MaxVersion

TypeOK ==
    /\ DOMAIN inflight \in {Standalone, Servers}
    /\ \A s \in DOMAIN inflight : inflight[s] \in Nat
    /\ session \in [Requests -> Servers \cup {None}]
    /\ pend \in [Requests -> Servers \cup {None}]
    /\ pc \in [Requests -> {"ready", "routed", "blocked", "serving", "reply",
                            "done", "failed"}]
    /\ srv \in [Requests -> Servers \cup {None}]
    /\ \A r \in Requests : /\ out[r] \in Seq(Versions \cup {Mixed})
                           /\ toks[r] \in Seq(Versions \cup {Mixed})
    /\ label \in [Requests -> Versions \cup {NoStep}]
    /\ stop \in [Requests -> {"none", "completed", "aborted"}]
    /\ minV \in [Requests -> Versions \cup {NoStep}]
    /\ maxV \in [Requests -> Versions \cup {NoStep}]
    /\ paused \in [Servers -> BOOLEAN] /\ asleep \in [Servers -> BOOLEAN]
    /\ weights \in [Servers -> Versions \cup {Mixed}] /\ steps \in [Servers -> Versions]
    /\ version \in Versions

\* the requests that the load balancer has not heard to have ended at s
Holders(s) == {r \in Requests : (srv[r] = s /\ pc[r] # "failed") \/ pend[r] = s}

\* The load the balancer decides by is the load there is: for a server of the
\* rollouter exactly the requests that hold it, whatever is aborted, resumed or
\* on its way; for a server that comes and goes never more than those, since
\* add_servers starts from zero with old requests still to be released.
LoadCounted ==
    /\ Standalone \subseteq DOMAIN inflight
    /\ \A s \in Standalone : inflight[s] = Cardinality(Holders(s))
    /\ \A s \in DOMAIN inflight : inflight[s] <= Cardinality(Holders(s))

\* While the weights of a server are overwritten or released nothing is being
\* generated with them, however late a call arrives: the servers of the rollouter
\* are stopped first and hold it back, and those of the trainer, which are loaded
\* without being stopped, have no KV cache until their weights are complete.
TransferAlone ==
    \A s \in Servers : weights[s] = Mixed => Calls(s, "serving") = {}

\* A finished response reports the versions it was computed with: every token
\* lies between min_global_steps and max_global_steps, the versions do not
\* decrease and the last token has the reported maximum, although the labels are
\* read when a generation ends and not when its tokens are computed.  The minimum
\* may be older than the first token, where a call was cut off before it.
LabelsBracket ==
    \A r \in Requests : pc[r] = "done" /\ stop[r] = "completed" =>
        /\ toks[r] # <<>> /\ maxV[r] = toks[r][Len(toks[r])]
        /\ minV[r] # NoStep /\ minV[r] <= toks[r][1]
        /\ \A i \in 1 .. Len(toks[r]) - 1 : toks[r][i] <= toks[r][i + 1]

\* However often a generation is interrupted, prompt and response together stay
\* within prompt_length + response_length.
ResponseFits ==
    \A r \in Requests : Len(toks[r]) + Len(out[r]) <= ResponseLength + Slack

\* The load balancer never gives out a server whose engine is asleep: hybrid
\* servers are woken before add_servers and put to sleep after remove_servers,
\* and the session of a removed server is not followed.
RoutedAwake ==
    [][\A r \in Requests : pc[r] = "ready" /\ pc'[r] = "routed" => ~asleep[srv'[r]]]_vars

\* Every request comes to its end, with an answer or with the error of a server
\* that fell asleep under it, through every interruption: no server is left
\* stopped.
RequestsEnd == <>(\A r \in Requests : pc[r] \in {"done", "failed"})

\* docs/advance/fully_async.md on stream mode: when the parameters are
\* synchronised the rollouter waits for the tasks that run, so that without
\* partial_rollout no response is cut off.
NotCutShort == \A r \in Requests : pc[r] = "done" => stop[r] = "completed"
=============================================================================
