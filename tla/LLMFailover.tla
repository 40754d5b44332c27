---------------------------- MODULE LLMFailover ----------------------------
(***************************************************************************)
(* A text is generated by a pool of model endpoints that stand in for each *)
(* other: LLMExecutionService (app/services/llm_execution_service.py), the *)
(* table of current models (provider_state_store.py), and the registry's   *)
(* snapshot and client cache (llm_registry.py).                            *)
(*                                                                         *)
(* All of it runs on the event loop and gives it up only while a model is  *)
(* awaited, so a step here goes from one await to the next.  In between    *)
(* other requests of the pool run, and another configuration may be        *)
(* applied (llm_config_admin_service.py).                                  *)
(***************************************************************************)
EXTENDS Integers, Sequences, FiniteSets

CONSTANTS
  Requests,        \* slots for calls of generate_text_with_pool, used again
  Features,        \* feature names
  ChatFeature,     \* the feature whose settings stand in for a missing one
  Pools,           \* provider names; each has one pool of models
  Names,           \* model names, which two pools may share
  Creds,           \* base_url, api_key and model id of an endpoint
  Kinds,           \* provider types a file may name
  SupportedKinds,  \* those build_llm_provider_from_config knows
  Files,           \* contents of llm_profiles.yml, valid or not
  NoModel, NoPool, NoKind, NoClient

Endpoint == [name : Names, cred : Creds]

\* `first' is the first provider in the file, `features' those it configures.
File == [pools : SUBSET Pools, first : Pools, models : [Pools -> Seq(Endpoint)],
         kind : [Pools -> Kinds], features : SUBSET Features,
         route : [Features -> Pools]]

ASSUME FilesAssumption ==
  /\ Files \subseteq File
  /\ \A c \in Files : c.pools # {} => c.first \in c.pools
ASSUME ChatAssumption == ChatFeature \in Features
ASSUME NullAssumption ==
  /\ NoModel \notin Names /\ NoPool \notin Pools
  /\ NoKind \notin Kinds /\ NoClient \notin Creds

VARIABLES
  snapshot,  \* the registry's configuration
  current,   \* provider_runtime_states: pool -> current model name
  clients,   \* _provider_instances: kind, model name -> credentials of the client
  pc,        \* where each request is
  call       \* its local variables

vars == <<snapshot, current, clients, pc, call>>

NoCall == [override |-> NoPool, pool |-> NoPool, kind |-> NoKind, models |-> <<>>,
           order |-> <<>>, at |-> 0, using |-> NoClient]

Ended == {"idle", "answered", "exhausted", "raised", "misrouted", "unsupported", "crashed"}
-----------------------------------------------------------------------------
(* LLMRegistry._build_snapshot                                             *)

NamesOf(ms) == {ms[i].name : i \in 1..Len(ms)}
UniqueNames(ms) == \A i, j \in 1..Len(ms) : ms[i].name = ms[j].name => i = j

\* The check of the providers a feature names is missing.
FaultyValid(c) ==
  /\ c.pools # {}
  /\ \A p \in c.pools : c.models[p] # <<>> /\ UniqueNames(c.models[p])

Valid(c) ==
  /\ c.pools # {}
  /\ \A p \in c.pools : c.models[p] # <<>> /\ UniqueNames(c.models[p])
  /\ \A f \in c.features : c.route[f] \in c.pools

\* "chat" is added when the file has no settings for it.
Snapshot(c) ==
  IF ChatFeature \in c.features THEN c
  ELSE [c EXCEPT !.features = @ \cup {ChatFeature}, !.route[ChatFeature] = c.first]

\* What AdminLLMConfig and build_snapshot_from_raw accept together.
Appliable(c) == Valid(c) /\ \A p \in c.pools : c.kind[p] \in SupportedKinds
-----------------------------------------------------------------------------
(* Which pool, in which order, through which client.                       *)

\* get_for_feature, get_for_feature_with_override
RouteOf(f) == IF f \in snapshot.features THEN snapshot.route[f]
                                         ELSE snapshot.route[ChatFeature]
PoolOf(f, o) == IF o # NoPool THEN o ELSE RouteOf(f)

Has(ms, name) == name \in NamesOf(ms)
IndexOf(ms, name) == CHOOSE i \in 1..Len(ms) : ms[i].name = name

\* The models before the current one are forgotten.
FaultyAttemptOrder(ms, name) ==
  IF Has(ms, name) THEN SubSeq(ms, IndexOf(ms, name), Len(ms)) ELSE ms

\* _build_attempt_order: the current model first, the others in their order.
AttemptOrder(ms, name) ==
  IF ~Has(ms, name) THEN ms
  ELSE LET k == IndexOf(ms, name)
       IN  [i \in 1..Len(ms) |-> IF i = 1 THEN ms[k]
                                 ELSE IF i <= k THEN ms[i - 1] ELSE ms[i]]

\* A client cached under the name is reused whatever its credentials.
FaultyClientFor(kind, e) ==
  IF clients[<<kind, e.name>>] # NoClient THEN clients[<<kind, e.name>>] ELSE e.cred

\* get_provider_instance: a cached client is reused only for its own cache key.
ClientFor(kind, e) ==
  IF clients[<<kind, e.name>>] = e.cred THEN clients[<<kind, e.name>>] ELSE e.cred
-----------------------------------------------------------------------------
Init ==
  /\ \E c \in Files : Valid(c) /\ snapshot = Snapshot(c)
  /\ current = [p \in Pools |-> NoModel]
  /\ clients = [k \in Kinds \X Names |-> NoClient]
  /\ pc = [r \in Requests |-> "idle"]
  /\ call = [r \in Requests |-> NoCall]

\* The top of the loop over ordered_models, up to the await: c.at is the turn.
Ask(r, c) ==
  LET e == c.order[c.at]
  IN /\ call' = [call EXCEPT ![r] = [c EXCEPT !.using = ClientFor(c.kind, e)]]
     /\ clients' = [clients EXCEPT ![<<c.kind, e.name>>] = ClientFor(c.kind, e)]

Finish(r, outcome, c) ==
  /\ pc' = [pc EXCEPT ![r] = outcome]
  /\ call' = [call EXCEPT ![r] = c]
  /\ UNCHANGED clients

\* A feature f asks for a text, a dynamic prompt perhaps of another pool.
Begin(r, f, o) ==
  LET p == PoolOf(f, o)
      ms == snapshot.models[p]
  IN /\ pc[r] \in Ended
     /\ p \in snapshot.pools /\ snapshot.kind[p] \in SupportedKinds
     /\ pc' = [pc EXCEPT ![r] = "calling"]
     /\ Ask(r, [override |-> o, pool |-> p, kind |-> snapshot.kind[p], models |-> ms,
                order |-> AttemptOrder(ms, current[p]), at |-> 1, using |-> NoClient])
     /\ UNCHANGED <<snapshot, current>>

\* providers[provider_name]: KeyError
Misroute(r, f, o) ==
  /\ pc[r] \in Ended /\ PoolOf(f, o) \notin snapshot.pools
  /\ Finish(r, "misrouted", [NoCall EXCEPT !.override = o])
  /\ UNCHANGED <<snapshot, current>>

\* build_llm_provider_from_config: ValueError, raised outside the loop's try
Unsupported(r, f, o) ==
  LET p == PoolOf(f, o)
  IN /\ pc[r] \in Ended
     /\ p \in snapshot.pools /\ snapshot.kind[p] \notin SupportedKinds
     /\ Finish(r, "unsupported", NoCall)
     /\ UNCHANGED <<snapshot, current>>

Awaited(r) == call[r].order[call[r].at]

\* What is recorded is not the name the models are looked up by.
FaultySetCurrent(r) == current' = [current EXCEPT ![call[r].pool] = Awaited(r).cred]

SetCurrent(r) == current' = [current EXCEPT ![call[r].pool] = Awaited(r).name]

\* The model replies; it is recorded as current and its text is returned.
Answer(r) ==
  /\ pc[r] = "calling"
  /\ SetCurrent(r)
  /\ Finish(r, "answered", NoCall)
  /\ UNCHANGED snapshot

\* The loop asks the same model again.
FaultyNextModel(r) ==
  IF call[r].at < Len(call[r].order)
  THEN Ask(r, call[r]) /\ UNCHANGED pc
  ELSE Finish(r, "exhausted", NoCall)

\* The handler of a retryable exception: the next model, if there is one.
NextModel(r) ==
  IF call[r].at < Len(call[r].order)
  THEN Ask(r, [call[r] EXCEPT !.at = @ + 1]) /\ UNCHANGED pc
  ELSE Finish(r, "exhausted", NoCall)

Handle(r, retryable) ==
  /\ IF retryable THEN NextModel(r) ELSE Finish(r, "raised", NoCall)
  /\ UNCHANGED snapshot

\* The model call raises.
Fail(r, retryable) ==
  /\ pc[r] = "calling"
  /\ Handle(r, retryable)
  /\ UNCHANGED current

\* The model replies but storing the current model, its commit or a trace event
\* raises: the same handler runs, and the reply is dropped.
LoseReply(r, recorded, retryable) ==
  /\ pc[r] = "calling"
  /\ IF recorded THEN SetCurrent(r) ELSE UNCHANGED current
  /\ Handle(r, retryable)

\* The read of the current model, or a trace event before the first call, fails.
FailEarly(r) ==
  /\ pc[r] \in Ended
  /\ Finish(r, "raised", NoCall)
  /\ UNCHANGED <<snapshot, current>>

\* apply_form_data: the registry's snapshot is replaced, its clients stay.
Apply(c) ==
  /\ Appliable(c)
  /\ snapshot' = Snapshot(c)
  /\ UNCHANGED <<current, clients, pc, call>>

\* The process dies and starts again, with a file that may have been edited.
Restart(c) ==
  /\ Valid(c)
  /\ snapshot' = Snapshot(c)
  /\ clients' = [k \in Kinds \X Names |-> NoClient]
  /\ pc' = [r \in Requests |-> IF pc[r] = "calling" THEN "crashed" ELSE pc[r]]
  /\ call' = [r \in Requests |-> IF pc[r] = "calling" THEN NoCall ELSE call[r]]
  /\ UNCHANGED current

\* What a request that awaits a model may do when the await ends.
Resume(r) ==
  \/ Answer(r)
  \/ \E retryable \in BOOLEAN :
       Fail(r, retryable) \/ \E recorded \in BOOLEAN : LoseReply(r, recorded, retryable)

Next ==
  \/ \E r \in Requests, f \in Features, o \in Pools \cup {NoPool} :
       Begin(r, f, o) \/ Misroute(r, f, o) \/ Unsupported(r, f, o)
  \/ \E r \in Requests : FailEarly(r) \/ Resume(r)
  \/ \E c \in Files : Apply(c) \/ Restart(c)

Spec == Init /\ [][Next]_vars

\* Every await of a model ends (the client library's default timeout), and the
\* event loop runs the task again.
FairSpec == Spec /\ \A r \in Requests : WF_vars(Resume(r))
-----------------------------------------------------------------------------
Call == [override : Pools \cup {NoPool}, pool : Pools \cup {NoPool},
         kind : Kinds \cup {NoKind}, models : Seq(Endpoint), order : Seq(Endpoint),
         at : Nat, using : Creds \cup {NoClient}]

\* Type invariant; an awaited model has a place in its order.
TypeOK ==
  /\ snapshot \in File
  /\ current \in [Pools -> Names \cup {NoModel}]
  /\ clients \in [Kinds \X Names -> Creds \cup {NoClient}]
  /\ pc \in [Requests -> Ended \cup {"calling"}]
  /\ call \in [Requests -> Call]

\* The client that is awaited has the credentials of the model whose turn it
\* is, although pools share model names, configurations change them under the
\* same name, and one cache serves every request.
CallsUseTheEndpoint ==
  \A r \in Requests : pc[r] = "calling" => call[r].using = Awaited(r).cred

\* A feature never looks for a pool that is not there, whichever of its
\* settings the file has: only the override of a dynamic prompt can.
OnlyOverridesMisroute ==
  \A r \in Requests : pc[r] = "misrouted" => call[r].override # NoPool

\* The service keeps the promise of ModelPool.
Phase(label) ==
  CASE label = "calling" -> "asking"
    [] label \in {"idle", "answered", "exhausted"} -> label
    [] OTHER -> "raised"

Asked(c) == {c.order[i].name : i \in 1..c.at}

Promise == INSTANCE ModelPool WITH
  phase <- [r \in Requests |-> Phase(pc[r])],
  pool <- [r \in Requests |-> call[r].pool],
  choice <- [r \in Requests |-> NamesOf(call[r].models)],
  asked <- [r \in Requests |-> Asked(call[r])]

\* Every model of the pool is asked at most once, the current one first, before
\* the pool is called exhausted, and a returned text's model becomes current,
\* although other requests and configurations come in between.
ImplementsModelPool == Promise!Spec

\* A request that has asked a model ends, whatever happens to the pool.
EveryGenerationEnds == \A r \in Requests : pc[r] = "calling" ~> pc[r] \in Ended
=============================================================================
