-------------------------- MODULE LLMFailoverProofs --------------------------
(* Theorems about LLMFailover, for every value of its constants.           *)
EXTENDS LLMFailover, TLAPS

-----------------------------------------------------------------------------
(* The order in which a pool's models are asked.                           *)

\* Each model of the pool has its place in the order, and only one; a current
\* model that the pool has comes first.
LEMMA OrderIsPermutation ==
  ASSUME NEW ms \in Seq(Endpoint), ms # <<>>, UniqueNames(ms), NEW name
  PROVE  LET ord == AttemptOrder(ms, name)
         IN  /\ ord \in Seq(Endpoint) /\ Len(ord) = Len(ms)
             /\ UniqueNames(ord) /\ NamesOf(ord) = NamesOf(ms)
             /\ name \in NamesOf(ms) => ord[1].name = name
<1> DEFINE ord == AttemptOrder(ms, name)
<1>1. CASE ~Has(ms, name)
  BY <1>1 DEF AttemptOrder, Has
<1>2. CASE Has(ms, name)
  <2> DEFINE k == IndexOf(ms, name)
             old(i) == IF i = 1 THEN k ELSE IF i <= k THEN i - 1 ELSE i
             new(j) == IF j = k THEN 1 ELSE IF j < k THEN j + 1 ELSE j
  <2>1. k \in 1..Len(ms) /\ ms[k].name = name
    BY <1>2 DEF IndexOf, Has, NamesOf
  <2>2. Len(ms) \in Nat
    OBVIOUS
  <2>3. ord = [i \in 1..Len(ms) |-> ms[old(i)]]
    BY <1>2, <2>1, <2>2 DEF AttemptOrder
  <2> HIDE DEF k, ord
  <2>4. \A i \in 1..Len(ms) : old(i) \in 1..Len(ms) /\ new(old(i)) = i
    BY <2>1, <2>2
  <2>5. \A j \in 1..Len(ms) : new(j) \in 1..Len(ms) /\ old(new(j)) = j
    BY <2>1, <2>2
  <2>6. old(1) = k /\ 1 \in 1..Len(ms)
    BY <2>1, <2>2
  <2> HIDE DEF old, new
  <2>7. \A j \in 1..Len(ms) : ms[j] \in Endpoint
    OBVIOUS
  <2>8. ord \in Seq(Endpoint) /\ Len(ord) = Len(ms)
    BY <2>2, <2>3, <2>4, <2>7
  <2>9. \A i \in 1..Len(ms) : ord[i] = ms[old(i)]
    BY <2>3
  <2>10. UniqueNames(ord)
    <3> SUFFICES ASSUME NEW i \in 1..Len(ms), NEW j \in 1..Len(ms),
                        ord[i].name = ord[j].name
                 PROVE  i = j
      BY <2>8 DEF UniqueNames
    <3>1. ms[old(i)].name = ms[old(j)].name
      BY <2>9
    <3>2. old(i) = old(j)
      BY <2>4, <3>1 DEF UniqueNames
    <3> QED BY <2>4, <3>2
  <2>11. NamesOf(ord) = NamesOf(ms)
    <3>1. ASSUME NEW n \in NamesOf(ord) PROVE n \in NamesOf(ms)
      BY <2>4, <2>8, <2>9 DEF NamesOf
    <3>2. ASSUME NEW n \in NamesOf(ms) PROVE n \in NamesOf(ord)
      <4>1. PICK j \in 1..Len(ms) : n = ms[j].name
        BY DEF NamesOf
      <4>2. n = ord[new(j)].name
        BY <2>5, <2>9, <4>1
      <4> QED BY <2>5, <2>8, <4>2 DEF NamesOf
    <3> QED BY <3>1, <3>2
  <2>12. ord[1].name = name
    BY <2>1, <2>6, <2>9
  <2> QED BY <2>8, <2>10, <2>11, <2>12 DEF ord
<1> QED BY <1>1, <1>2

-----------------------------------------------------------------------------
(* The inductive invariant.                                                *)

\* What every snapshot guarantees: routes to pools it has, models with names of
\* their own in each.
WellFormed(c) ==
  /\ c \in File
  /\ ChatFeature \in c.features
  /\ \A f \in c.features : c.route[f] \in c.pools
  /\ \A p \in c.pools : c.models[p] # <<>> /\ UniqueNames(c.models[p])

SnapshotOK == WellFormed(snapshot)

\* A request that awaits a model: its order is a permutation of the models of
\* its pool, and its client belongs to the model whose turn it is.
Calling(c) ==
  /\ c.pool \in Pools /\ c.kind \in Kinds
  /\ c.at \in 1..Len(c.order)
  /\ UniqueNames(c.order) /\ NamesOf(c.order) = NamesOf(c.models)
  /\ c.using = c.order[c.at].cred

\* A request that awaits none keeps nothing of an earlier call.
Resting(c) == c.pool = NoPool /\ c.models = <<>> /\ c.at = 0

CallsOK == \A r \in Requests : IF pc[r] = "calling" THEN Calling(call[r])
                                                    ELSE Resting(call[r])

IInv == TypeOK /\ SnapshotOK /\ CallsOK /\ OnlyOverridesMisroute

\* A valid file gives a well-formed snapshot.
LEMMA SnapshotIsWellFormed ==
  ASSUME NEW c \in Files, Valid(c)
  PROVE  WellFormed(Snapshot(c))
<1>1. c \in File /\ c.first \in c.pools
  BY FilesAssumption DEF Valid
<1>2. CASE ChatFeature \in c.features
  BY <1>1, <1>2 DEF Snapshot, WellFormed, Valid
<1>3. CASE ChatFeature \notin c.features
  <2> DEFINE s == [c EXCEPT !.features = @ \cup {ChatFeature}, !.route[ChatFeature] = c.first]
  <2>1. Snapshot(c) = s
    BY <1>3 DEF Snapshot
  <2>2. /\ s.pools = c.pools /\ s.models = c.models
        /\ s.features = c.features \cup {ChatFeature}
        /\ s.route = [c.route EXCEPT ![ChatFeature] = c.first]
    BY <1>1 DEF File
  <2>3. s \in File
    BY <1>1, ChatAssumption DEF File
  <2>4. \A f \in s.features : s.route[f] \in s.pools
    BY <1>1, <2>2, ChatAssumption DEF Valid, File
  <2>5. ChatFeature \in s.features
    BY <2>2
  <2>6. \A p \in s.pools : s.models[p] # <<>> /\ UniqueNames(s.models[p])
    BY <2>2 DEF Valid
  <2> HIDE DEF s
  <2> QED BY <2>1, <2>3, <2>4, <2>5, <2>6 DEF WellFormed
<1> QED BY <1>2, <1>3

\* The pool that is looked up has a name the file format allows, and without an
\* override it is one of the snapshot's.
LEMMA PoolIsKnown ==
  ASSUME TypeOK, SnapshotOK, NEW f \in Features, NEW o \in Pools \cup {NoPool}
  PROVE  PoolOf(f, o) \in Pools /\ (o = NoPool => PoolOf(f, o) \in snapshot.pools)
<1>1. RouteOf(f) \in snapshot.pools /\ snapshot.pools \subseteq Pools
  BY DEF RouteOf, SnapshotOK, WellFormed, File
<1> QED BY <1>1 DEF PoolOf

LEMMA NoCallType == NoCall \in Call /\ Resting(NoCall)
BY DEF NoCall, Call, Resting

\* What is asked next: the client gets the credentials of its endpoint.
LEMMA AskSetsClient ==
  ASSUME TypeOK, NEW r \in Requests, NEW c \in Call,
         c.kind \in Kinds, c.at \in 1..Len(c.order), Ask(r, c)
  PROVE  /\ clients' \in [Kinds \X Names -> Creds \cup {NoClient}]
         /\ call' \in [Requests -> Call]
         /\ call' = [call EXCEPT ![r] = [c EXCEPT !.using = c.order[c.at].cred]]
<1> DEFINE e == c.order[c.at]
<1>1. c.order \in Seq(Endpoint) /\ c.at \in Nat
  BY DEF Call
<1>2. e \in Endpoint
  BY <1>1
<1>3. e.name \in Names /\ e.cred \in Creds
  BY <1>2 DEF Endpoint
<1>4. ClientFor(c.kind, e) = e.cred
  BY DEF ClientFor
<1>5. clients' = [clients EXCEPT ![<<c.kind, e.name>>] = e.cred]
  BY <1>4 DEF Ask
<1>6. clients' \in [Kinds \X Names -> Creds \cup {NoClient}]
  BY <1>3, <1>5 DEF TypeOK
<1>7. call' = [call EXCEPT ![r] = [c EXCEPT !.using = e.cred]]
  BY <1>4 DEF Ask
<1>8. [c EXCEPT !.using = e.cred] \in Call
  BY <1>3 DEF Call
<1> QED BY <1>6, <1>7, <1>8 DEF TypeOK

\* A request that asks a model keeps the invariant.
LEMMA AskKeepsIInv ==
  ASSUME IInv, NEW r \in Requests, NEW c \in Call, Ask(r, c),
         c.pool \in Pools, c.kind \in Kinds, c.at \in 1..Len(c.order),
         UniqueNames(c.order), NamesOf(c.order) = NamesOf(c.models),
         pc' = [pc EXCEPT ![r] = "calling"], snapshot' = snapshot,
         current' \in [Pools -> Names \cup {NoModel}]
  PROVE  IInv'
<1> DEFINE new == [c EXCEPT !.using = c.order[c.at].cred]
<1> USE DEF IInv
<1>1. TypeOK' /\ call' = [call EXCEPT ![r] = new]
  BY AskSetsClient DEF TypeOK
<1>2. Calling(new)
  <2>1. /\ new.pool = c.pool /\ new.kind = c.kind /\ new.at = c.at
        /\ new.order = c.order /\ new.models = c.models
        /\ new.using = c.order[c.at].cred
    BY DEF Call
  <2> HIDE DEF new
  <2> QED BY <2>1 DEF Calling
<1> HIDE DEF new
<1>3. CallsOK'
  <2> SUFFICES ASSUME NEW q \in Requests
               PROVE  IF pc'[q] = "calling" THEN Calling(call'[q]) ELSE Resting(call'[q])
    BY DEF CallsOK
  <2>1. CASE q = r
    BY <1>1, <1>2, <2>1 DEF TypeOK
  <2>2. CASE q # r
    BY <1>1, <2>2 DEF CallsOK, TypeOK
  <2> QED BY <2>1, <2>2
<1>4. OnlyOverridesMisroute'
  BY <1>1 DEF OnlyOverridesMisroute, TypeOK
<1>5. SnapshotOK'
  BY DEF SnapshotOK
<1> QED BY <1>1, <1>3, <1>4, <1>5

\* A request that ends keeps the invariant.
LEMMA FinishKeepsIInv ==
  ASSUME IInv, NEW r \in Requests, NEW outcome \in Ended, NEW c \in Call,
         Resting(c), outcome = "misrouted" => c.override # NoPool,
         Finish(r, outcome, c), snapshot' = snapshot,
         current' \in [Pools -> Names \cup {NoModel}]
  PROVE  IInv'
<1> USE DEF IInv, Finish
<1>1. TypeOK'
  BY DEF TypeOK
<1>2. outcome # "calling"
  BY DEF Ended
<1>3. CallsOK'
  <2> SUFFICES ASSUME NEW q \in Requests
               PROVE  IF pc'[q] = "calling" THEN Calling(call'[q]) ELSE Resting(call'[q])
    BY DEF CallsOK
  <2>1. CASE q = r
    BY <1>2, <2>1 DEF TypeOK
  <2>2. CASE q # r
    BY <2>2 DEF CallsOK, TypeOK
  <2> QED BY <2>1, <2>2
<1>4. OnlyOverridesMisroute'
  BY DEF OnlyOverridesMisroute, TypeOK
<1>5. SnapshotOK'
  BY DEF SnapshotOK
<1> QED BY <1>1, <1>3, <1>4, <1>5

\* The model a request awaits is one of the file format's.
LEMMA AwaitedType ==
  ASSUME TypeOK, CallsOK, NEW r \in Requests, pc[r] = "calling"
  PROVE  /\ Awaited(r) \in Endpoint /\ Awaited(r).name \in Names
         /\ Calling(call[r]) /\ call[r] \in Call
<1>1. Calling(call[r]) /\ call[r] \in Call
  BY DEF CallsOK, TypeOK
<1>2. call[r].order \in Seq(Endpoint) /\ call[r].at \in 1..Len(call[r].order)
  BY <1>1 DEF Calling, Call
<1>3. Awaited(r) \in Endpoint
  BY <1>2 DEF Awaited
<1> QED BY <1>1, <1>3 DEF Endpoint

\* The handler of an exception keeps the invariant.
LEMMA HandleKeepsIInv ==
  ASSUME IInv, NEW r \in Requests, pc[r] = "calling", NEW retryable \in BOOLEAN,
         Handle(r, retryable), current' \in [Pools -> Names \cup {NoModel}]
  PROVE  IInv'
<1>1. snapshot' = snapshot /\ Calling(call[r]) /\ call[r] \in Call
  BY AwaitedType DEF IInv, Handle
<1>2. CASE retryable /\ call[r].at < Len(call[r].order)
  <2> DEFINE c == [call[r] EXCEPT !.at = @ + 1]
  <2>1. call[r].at \in Nat /\ call[r].order \in Seq(Endpoint)
    BY <1>1 DEF Call
  <2>2. c \in Call
    BY <1>1, <2>1 DEF Call
  <2>3. /\ c.pool = call[r].pool /\ c.kind = call[r].kind /\ c.order = call[r].order
        /\ c.models = call[r].models /\ c.at = call[r].at + 1
    BY <1>1 DEF Call
  <2>4. c.at \in 1..Len(c.order)
    BY <1>2, <2>1, <2>3
  <2>5. Ask(r, c) /\ pc' = pc
    BY <1>2 DEF Handle, NextModel
  <2>6. pc' = [pc EXCEPT ![r] = "calling"]
    BY <2>5 DEF IInv, TypeOK
  <2> HIDE DEF c
  <2> QED BY <1>1, <2>2, <2>3, <2>4, <2>5, <2>6, AskKeepsIInv DEF Calling
<1>3. CASE retryable /\ ~(call[r].at < Len(call[r].order))
  BY <1>1, <1>3, NoCallType, FinishKeepsIInv DEF Handle, NextModel, Ended
<1>4. CASE ~retryable
  BY <1>1, <1>4, NoCallType, FinishKeepsIInv DEF Handle, Ended
<1> QED BY <1>2, <1>3, <1>4

LEMMA InitIInv == Init => IInv
<1> SUFFICES ASSUME Init PROVE IInv
  OBVIOUS
<1>1. PICK c \in Files : Valid(c) /\ snapshot = Snapshot(c)
  BY DEF Init
<1>2. SnapshotOK /\ snapshot \in File
  BY <1>1, SnapshotIsWellFormed DEF SnapshotOK, WellFormed
<1>3. TypeOK
  BY <1>2, NoCallType DEF Init, TypeOK, Ended
<1>4. CallsOK
  BY NoCallType DEF Init, CallsOK
<1>5. OnlyOverridesMisroute
  BY DEF Init, OnlyOverridesMisroute
<1> QED BY <1>2, <1>3, <1>4, <1>5 DEF IInv

\* What Begin hands to Ask is the record of a call about to be made.
LEMMA BeginCall ==
  ASSUME TypeOK, SnapshotOK, NEW f \in Features, NEW o \in Pools \cup {NoPool},
         PoolOf(f, o) \in snapshot.pools
  PROVE  LET p == PoolOf(f, o)
             ms == snapshot.models[p]
             c == [override |-> o, pool |-> p, kind |-> snapshot.kind[p], models |-> ms,
                   order |-> AttemptOrder(ms, current[p]), at |-> 1, using |-> NoClient]
         IN  /\ c \in Call /\ c.pool \in Pools /\ c.kind \in Kinds
             /\ c.at \in 1..Len(c.order)
             /\ UniqueNames(c.order) /\ NamesOf(c.order) = NamesOf(c.models)
             /\ current[p] \in NamesOf(ms) => c.order[1].name = current[p]
<1> DEFINE p == PoolOf(f, o)
           ms == snapshot.models[p]
           ord == AttemptOrder(ms, current[p])
<1>1. p \in Pools
  BY PoolIsKnown
<1>2. ms \in Seq(Endpoint) /\ snapshot.kind[p] \in Kinds
  BY <1>1 DEF TypeOK, File
<1>3. ms # <<>> /\ UniqueNames(ms)
  BY DEF SnapshotOK, WellFormed
<1> HIDE DEF ms, p
<1>4. /\ ord \in Seq(Endpoint) /\ Len(ord) = Len(ms)
      /\ UniqueNames(ord) /\ NamesOf(ord) = NamesOf(ms)
      /\ current[p] \in NamesOf(ms) => ord[1].name = current[p]
  BY <1>2, <1>3, OrderIsPermutation
<1>5. 1 \in 1..Len(ord)
  BY <1>2, <1>3, <1>4
<1> HIDE DEF ord
<1> DEFINE c == [override |-> o, pool |-> p, kind |-> snapshot.kind[p], models |-> ms,
                 order |-> ord, at |-> 1, using |-> NoClient]
<1>6. c \in Call
  BY <1>1, <1>2, <1>4 DEF Call
<1> QED BY <1>1, <1>2, <1>4, <1>5, <1>6 DEF ord, ms, p

\* Every step keeps the inductive invariant.
LEMMA StepIInv == IInv /\ [Next]_vars => IInv'
<1> SUFFICES ASSUME IInv, [Next]_vars PROVE IInv'
  OBVIOUS
<1> USE DEF IInv
<1>1. ASSUME NEW r \in Requests, NEW f \in Features, NEW o \in Pools \cup {NoPool},
             Begin(r, f, o)
      PROVE  IInv'
  <2> DEFINE p == PoolOf(f, o)
             c == [override |-> o, pool |-> p, kind |-> snapshot.kind[p],
                   models |-> snapshot.models[p],
                   order |-> AttemptOrder(snapshot.models[p], current[p]),
                   at |-> 1, using |-> NoClient]
  <2>1. /\ c \in Call /\ c.pool \in Pools /\ c.kind \in Kinds
        /\ c.at \in 1..Len(c.order)
        /\ UniqueNames(c.order) /\ NamesOf(c.order) = NamesOf(c.models)
    BY <1>1, BeginCall DEF Begin
  <2>2. Ask(r, c) /\ pc' = [pc EXCEPT ![r] = "calling"]
        /\ snapshot' = snapshot /\ current' = current
    BY <1>1 DEF Begin
  <2> HIDE DEF c
  <2>3. current' \in [Pools -> Names \cup {NoModel}]
    BY <2>2 DEF TypeOK
  <2> QED BY <2>1, <2>2, <2>3, AskKeepsIInv
<1>2. ASSUME NEW r \in Requests, NEW f \in Features, NEW o \in Pools \cup {NoPool},
             Misroute(r, f, o)
      PROVE  IInv'
  <2> DEFINE c == [NoCall EXCEPT !.override = o]
  <2>1. c.override = o /\ c.pool = NoPool /\ c.models = <<>> /\ c.at = 0
    BY DEF NoCall
  <2>2. c \in Call
    BY NoCallType, Zenon DEF Call
  <2>3. o # NoPool
    BY <1>2, PoolIsKnown DEF Misroute
  <2>4. Finish(r, "misrouted", c) /\ snapshot' = snapshot /\ current' = current
    BY <1>2 DEF Misroute
  <2> HIDE DEF c
  <2>5. Resting(c)
    BY <2>1 DEF Resting
  <2>6. "misrouted" \in Ended /\ current' \in [Pools -> Names \cup {NoModel}]
    BY <2>4 DEF Ended, TypeOK
  <2> QED BY <2>1, <2>2, <2>3, <2>4, <2>5, <2>6, FinishKeepsIInv
<1>3. ASSUME NEW r \in Requests, NEW f \in Features, NEW o \in Pools \cup {NoPool},
             Unsupported(r, f, o)
      PROVE  IInv'
  <2>1. "unsupported" \in Ended /\ current' \in [Pools -> Names \cup {NoModel}]
    BY <1>3 DEF Unsupported, Ended, TypeOK
  <2> QED BY <1>3, <2>1, NoCallType, FinishKeepsIInv DEF Unsupported
<1>4. ASSUME NEW r \in Requests, FailEarly(r) PROVE IInv'
  <2>1. "raised" \in Ended /\ current' \in [Pools -> Names \cup {NoModel}]
    BY <1>4 DEF FailEarly, Ended, TypeOK
  <2> QED BY <1>4, <2>1, NoCallType, FinishKeepsIInv DEF FailEarly
<1>5. ASSUME NEW r \in Requests, pc[r] = "calling", SetCurrent(r)
      PROVE  current' \in [Pools -> Names \cup {NoModel}]
  BY <1>5, AwaitedType DEF SetCurrent, TypeOK
<1>6. ASSUME NEW r \in Requests, Answer(r) PROVE IInv'
  <2>1. "answered" \in Ended
    BY DEF Ended
  <2> QED BY <1>5, <1>6, <2>1, NoCallType, FinishKeepsIInv DEF Answer
<1>7. ASSUME NEW r \in Requests, NEW retryable \in BOOLEAN, Fail(r, retryable)
      PROVE  IInv'
  <2>1. current' \in [Pools -> Names \cup {NoModel}]
    BY <1>7 DEF Fail, TypeOK
  <2> QED BY <1>7, <2>1, HandleKeepsIInv DEF Fail
<1>8. ASSUME NEW r \in Requests, NEW recorded \in BOOLEAN, NEW retryable \in BOOLEAN,
             LoseReply(r, recorded, retryable)
      PROVE  IInv'
  <2>1. current' \in [Pools -> Names \cup {NoModel}]
    BY <1>5, <1>8 DEF LoseReply, TypeOK
  <2> QED BY <1>8, <2>1, HandleKeepsIInv DEF LoseReply
<1>9. ASSUME NEW c \in Files, Apply(c) PROVE IInv'
  <2>1. snapshot' \in File /\ SnapshotOK'
    BY <1>9, SnapshotIsWellFormed DEF Apply, Appliable, SnapshotOK, WellFormed
  <2> QED BY <1>9, <2>1 DEF Apply, TypeOK, CallsOK, OnlyOverridesMisroute
<1>10. ASSUME NEW c \in Files, Restart(c) PROVE IInv'
  <2>1. snapshot' \in File /\ SnapshotOK'
    BY <1>10, SnapshotIsWellFormed DEF Restart, SnapshotOK, WellFormed
  <2>2. TypeOK'
    BY <1>10, <2>1, NoCallType DEF Restart, TypeOK, Ended
  <2>3. ASSUME NEW q \in Requests
        PROVE  pc'[q] # "calling" /\ Resting(call'[q])
    BY <1>10, NoCallType DEF Restart, TypeOK, CallsOK
  <2>4. OnlyOverridesMisroute'
    BY <1>10 DEF Restart, TypeOK, OnlyOverridesMisroute
  <2> QED BY <2>1, <2>2, <2>3, <2>4 DEF CallsOK
<1>11. CASE UNCHANGED vars
  BY <1>11 DEF vars, TypeOK, SnapshotOK, CallsOK, OnlyOverridesMisroute
<1> QED
  BY <1>1, <1>2, <1>3, <1>4, <1>6, <1>7, <1>8, <1>9, <1>10, <1>11 DEF Next, Resume

\* IInv holds in every reachable state.
THEOREM Invariant == Spec => []IInv
<1>1. Init => IInv
  BY InitIInv
<1>2. IInv /\ [Next]_vars => IInv'
  BY StepIInv
<1> QED BY <1>1, <1>2, PTL DEF Spec

\* Every variable keeps its type.
THEOREM TypeCorrect == Spec => []TypeOK
<1>1. IInv => TypeOK
  BY DEF IInv
<1> QED BY <1>1, Invariant, PTL

\* No request ever awaits a client with the credentials of another model, or
\* with credentials that were replaced before its turn (get_provider_instance).
THEOREM ClientsAreNeverMixedUp == Spec => []CallsUseTheEndpoint
<1>1. IInv => CallsUseTheEndpoint
  BY DEF IInv, CallsOK, Calling, CallsUseTheEndpoint, Awaited
<1> QED BY <1>1, Invariant, PTL

\* Without an override a request finds its pool under every configuration
\* (_build_snapshot, get_feature_settings).
THEOREM FeaturesAreAlwaysRouted == Spec => []OnlyOverridesMisroute
<1>1. IInv => OnlyOverridesMisroute
  BY DEF IInv
<1> QED BY <1>1, Invariant, PTL

-----------------------------------------------------------------------------
(* The service implements ModelPool.                                       *)

\* A call that ends ends in ModelPool too.
LEMMA FinishEnds ==
  ASSUME TypeOK, NEW r \in Requests, NEW outcome \in Ended, NEW c,
         Resting(c), Finish(r, outcome, c)
  PROVE  Promise!End(r, Phase(outcome))
<1>1. NamesOf(c.models) = {} /\ Asked(c) = {} /\ c.pool = NoPool
  BY DEF Resting, NamesOf, Asked
<1>2. /\ pc' = [pc EXCEPT ![r] = outcome] /\ call' = [call EXCEPT ![r] = c]
      /\ pc \in [Requests -> Ended \cup {"calling"}] /\ call \in [Requests -> Call]
  BY DEF Finish, TypeOK
<1> QED BY <1>1, <1>2 DEF Promise!End

\* What a request awaits has been asked, and so may be recorded.
LEMMA SetCurrentRecords ==
  ASSUME TypeOK, CallsOK, NEW r \in Requests, pc[r] = "calling", SetCurrent(r)
  PROVE  \E m \in Names : Promise!Record(r, m)
<1>1. Awaited(r).name \in Names /\ call[r].at \in 1..call[r].at
  BY AwaitedType DEF Calling
<1>2. Awaited(r).name \in Asked(call[r])
  BY <1>1 DEF Asked, Awaited
<1> QED BY <1>1, <1>2 DEF SetCurrent, Promise!Record

\* The exception handler asks the next model, exhausts the pool or raises.
LEMMA HandleRefines ==
  ASSUME TypeOK, CallsOK, NEW r \in Requests, pc[r] = "calling",
         NEW retryable \in BOOLEAN, Handle(r, retryable)
  PROVE  \/ \E m \in Names : Promise!AskNext(r, m)
         \/ Promise!Exhaust(r)
         \/ Promise!Raise(r)
<1> DEFINE ord == call[r].order
           n == call[r].at
<1>1. /\ Calling(call[r]) /\ call[r] \in Call
      /\ ord \in Seq(Endpoint) /\ Len(ord) \in Nat /\ n \in 1..Len(ord)
  BY AwaitedType DEF Calling, Call
<1>2. CASE retryable /\ n < Len(ord)
  <2> DEFINE c == [call[r] EXCEPT !.at = @ + 1]
             m == ord[n + 1].name
  <2>1. n \in Nat /\ n + 1 \in 1..Len(ord)
    BY <1>1, <1>2
  <2>2. /\ c.pool = call[r].pool /\ c.order = ord /\ c.models = call[r].models
        /\ c.at = n + 1 /\ c.kind = call[r].kind
    BY <1>1 DEF Call
  <2>3. c \in Call
    BY <1>1, <2>1 DEF Call
  <2>4. Ask(r, c) /\ pc' = pc
    BY <1>2 DEF Handle, NextModel
  <2>5. c.kind \in Kinds /\ c.at \in 1..Len(c.order)
    BY <1>1, <2>1, <2>2 DEF Calling
  <2> HIDE DEF c
  <2>6. call' = [call EXCEPT ![r] = [c EXCEPT !.using = c.order[c.at].cred]]
    BY <2>3, <2>4, <2>5, AskSetsClient
  <2> DEFINE d == [c EXCEPT !.using = c.order[c.at].cred]
  <2>7. d.pool = c.pool /\ d.order = c.order /\ d.models = c.models /\ d.at = c.at
    BY <2>3 DEF Call
  <2> HIDE DEF d
  <2>8. Asked(d) = Asked(call[r]) \cup {m}
    BY <2>1, <2>2, <2>7 DEF Asked
  <2>9. m \in NamesOf(call[r].models) /\ m \in Names
    <3>1. ord[n + 1] \in Endpoint /\ m \in NamesOf(ord)
      BY <1>1, <2>1 DEF NamesOf
    <3> QED BY <1>1, <3>1 DEF Calling, Endpoint
  <2>10. m \notin Asked(call[r])
    <3> SUFFICES ASSUME m \in Asked(call[r]) PROVE FALSE
      OBVIOUS
    <3>1. PICK i \in 1..n : m = ord[i].name
      BY DEF Asked
    <3>2. i \in 1..Len(ord) /\ i # n + 1
      BY <1>1, <3>1
    <3>3. UniqueNames(ord)
      BY <1>1 DEF Calling
    <3> QED BY <2>1, <3>1, <3>2, <3>3 DEF UniqueNames
  <2>11. call' = [call EXCEPT ![r] = d] /\ call \in [Requests -> Call]
    BY <2>6 DEF d, TypeOK
  <2>12. /\ d.pool = call[r].pool /\ NamesOf(d.models) = NamesOf(call[r].models)
    BY <2>2, <2>7
  <2> HIDE DEF m, ord, n
  <2>13. Promise!AskNext(r, m)
    BY <2>4, <2>8, <2>9, <2>10, <2>11, <2>12 DEF Promise!AskNext, Phase
  <2> QED BY <2>9, <2>13
<1>3. CASE retryable /\ ~(n < Len(ord))
  <2>1. n = Len(ord)
    BY <1>1, <1>3
  <2>2. Asked(call[r]) = NamesOf(call[r].models)
    BY <1>1, <2>1 DEF Asked, NamesOf, Calling
  <2>3. Finish(r, "exhausted", NoCall) /\ "exhausted" \in Ended
    BY <1>3 DEF Handle, NextModel, Ended
  <2>4. Promise!End(r, Phase("exhausted"))
    BY <2>3, NoCallType, FinishEnds
  <2>5. Phase("exhausted") = "exhausted" /\ Phase("calling") = "asking"
    BY DEF Phase
  <2> QED BY <2>2, <2>4, <2>5 DEF Promise!Exhaust
<1>4. CASE ~retryable
  <2>1. Finish(r, "raised", NoCall) /\ "raised" \in Ended
    BY <1>4 DEF Handle, Ended
  <2>2. Promise!End(r, Phase("raised")) /\ Phase("raised") = "raised"
    BY <2>1, NoCallType, FinishEnds DEF Phase
  <2> QED BY <2>2 DEF Promise!Raise
<1> QED BY <1>2, <1>3, <1>4

\* The first model is asked: the current one, when the pool has it.
LEMMA BeginRefines ==
  ASSUME TypeOK, SnapshotOK, NEW r \in Requests, NEW f \in Features,
         NEW o \in Pools \cup {NoPool}, Begin(r, f, o)
  PROVE  \E p \in Pools, S \in SUBSET Names : \E m \in S : Promise!Begin(r, p, S, m)
<1> DEFINE p == PoolOf(f, o)
           ms == snapshot.models[p]
           c == [override |-> o, pool |-> p, kind |-> snapshot.kind[p], models |-> ms,
                 order |-> AttemptOrder(ms, current[p]), at |-> 1, using |-> NoClient]
           m == c.order[1].name
<1>1. /\ c \in Call /\ c.pool \in Pools /\ c.kind \in Kinds /\ c.at \in 1..Len(c.order)
      /\ NamesOf(c.order) = NamesOf(c.models)
      /\ current[p] \in NamesOf(ms) => c.order[1].name = current[p]
  BY BeginCall DEF Begin
<1>2. c.pool = p /\ c.models = ms /\ c.at = 1
  OBVIOUS
<1>3. Ask(r, c) /\ pc' = [pc EXCEPT ![r] = "calling"] /\ current' = current /\ pc[r] \in Ended
  BY DEF Begin
<1> HIDE DEF c
<1>4. call' = [call EXCEPT ![r] = [c EXCEPT !.using = c.order[c.at].cred]]
  BY <1>1, <1>3, AskSetsClient
<1> DEFINE d == [c EXCEPT !.using = c.order[c.at].cred]
<1>5. d.pool = p /\ d.order = c.order /\ d.models = ms /\ d.at = 1
  BY <1>1, <1>2 DEF Call
<1> HIDE DEF d
<1>6. Asked(d) = {m}
  BY <1>5 DEF Asked
<1>7. ms \in Seq(Endpoint) /\ c.order \in Seq(Endpoint)
  BY <1>1, <1>2 DEF Call
<1>8. m \in NamesOf(ms) /\ NamesOf(ms) \in SUBSET Names
  <2>1. m \in NamesOf(c.order)
    BY <1>1, <1>2 DEF NamesOf
  <2>2. \A i \in 1..Len(ms) : ms[i] \in Endpoint
    BY <1>7
  <2> QED BY <1>1, <1>2, <2>1, <2>2 DEF NamesOf, Endpoint
<1>9. call' = [call EXCEPT ![r] = d] /\ call \in [Requests -> Call]
  BY <1>4 DEF d, TypeOK
<1>10. Phase("calling") = "asking" /\ \A label \in Ended : Phase(label) # "asking"
  BY DEF Phase, Ended
<1>11. current[p] \in NamesOf(ms) => m = current[p]
  BY <1>1
<1>12. p \in Pools /\ pc \in [Requests -> Ended \cup {"calling"}]
  BY <1>1, <1>2 DEF TypeOK
<1> HIDE DEF m, ms, p
<1>13. Promise!Begin(r, p, NamesOf(ms), m)
  BY <1>3, <1>5, <1>6, <1>8, <1>9, <1>10, <1>11, <1>12 DEF Promise!Begin
<1> QED
  <2>1. \E n \in NamesOf(ms) : Promise!Begin(r, p, NamesOf(ms), n)
    BY <1>8, <1>13 DEF Promise!Begin
  <2>2. p \in Pools /\ NamesOf(ms) \in SUBSET Names
    BY <1>8, <1>12
  <2> QED BY <2>1, <2>2, Zenon

\* Every step is a step of ModelPool or changes nothing that it sees.
LEMMA StepRefines == IInv /\ [Next]_vars => [Promise!Next]_(Promise!vars)
<1> SUFFICES ASSUME IInv, [Next]_vars PROVE Promise!Next \/ UNCHANGED Promise!vars
  BY Zenon
<1> USE DEF IInv
<1>1. ASSUME NEW r \in Requests, NEW outcome \in Ended, NEW c \in Call, Resting(c),
             Finish(r, outcome, c), current' = current, Phase(outcome) = "raised"
      PROVE  Promise!Next
  <2>1. Promise!Raise(r)
    BY <1>1, FinishEnds DEF Promise!Raise
  <2>2. Promise!MayRecord(r)
    BY <1>1 DEF Promise!MayRecord
  <2> QED BY <2>1, <2>2 DEF Promise!Next
<1>2. ASSUME NEW r \in Requests, NEW f \in Features, NEW o \in Pools \cup {NoPool},
             Begin(r, f, o)
      PROVE  Promise!Next
  BY <1>2, BeginRefines DEF Promise!Next
<1>3. ASSUME NEW r \in Requests, NEW f \in Features, NEW o \in Pools \cup {NoPool},
             Misroute(r, f, o)
      PROVE  Promise!Next
  <2> DEFINE c == [NoCall EXCEPT !.override = o]
  <2>1. c.pool = NoPool /\ c.models = <<>> /\ c.at = 0
    BY DEF NoCall
  <2>2. c \in Call
    BY NoCallType, Zenon DEF Call
  <2>3. Finish(r, "misrouted", c) /\ current' = current
    BY <1>3 DEF Misroute
  <2> HIDE DEF c
  <2>4. Resting(c) /\ "misrouted" \in Ended /\ Phase("misrouted") = "raised"
    BY <2>1 DEF Resting, Ended, Phase
  <2> QED BY <1>1, <2>2, <2>3, <2>4
<1>4. ASSUME NEW r \in Requests, NEW f \in Features, NEW o \in Pools \cup {NoPool},
             Unsupported(r, f, o)
      PROVE  Promise!Next
  <2>1. "unsupported" \in Ended /\ Phase("unsupported") = "raised"
    BY DEF Ended, Phase
  <2> QED BY <1>1, <1>4, <2>1, NoCallType DEF Unsupported
<1>5. ASSUME NEW r \in Requests, FailEarly(r) PROVE Promise!Next
  <2>1. "raised" \in Ended /\ Phase("raised") = "raised"
    BY DEF Ended, Phase
  <2> QED BY <1>1, <1>5, <2>1, NoCallType DEF FailEarly
<1>6. ASSUME NEW r \in Requests, Answer(r) PROVE Promise!Next
  <2>1. PICK m \in Names : Promise!Record(r, m)
    BY <1>6, SetCurrentRecords DEF Answer
  <2>2. Phase("answered") = "answered" /\ Phase("calling") = "asking" /\ "answered" \in Ended
    BY DEF Phase, Ended
  <2>3. Promise!End(r, "answered")
    BY <1>6, <2>2, NoCallType, FinishEnds DEF Answer
  <2>4. Promise!Answer(r, m)
    BY <1>6, <2>1, <2>2, <2>3 DEF Answer, Promise!Answer
  <2> QED BY <2>4 DEF Promise!Next
<1>7. ASSUME NEW r \in Requests, pc[r] = "calling", NEW retryable \in BOOLEAN,
             Handle(r, retryable), SetCurrent(r) \/ current' = current
      PROVE  Promise!Next
  <2>1. Promise!MayRecord(r)
    <3>1. Phase("calling") = "asking"
      BY DEF Phase
    <3> QED BY <1>7, <3>1, SetCurrentRecords DEF Promise!MayRecord
  <2> QED BY <1>7, <2>1, HandleRefines DEF Promise!Next
<1>8. ASSUME NEW r \in Requests, Resume(r) PROVE Promise!Next
  BY <1>6, <1>7, <1>8 DEF Resume, Fail, LoseReply
<1>9. ASSUME NEW c \in Files, Apply(c) PROVE UNCHANGED Promise!vars
  BY <1>9 DEF Apply, Promise!vars
<1>10. ASSUME NEW c \in Files, Restart(c) PROVE Promise!Next
  <2>1. NamesOf(NoCall.models) = {} /\ Asked(NoCall) = {} /\ NoCall.pool = NoPool
    BY DEF NoCall, NamesOf, Asked
  <2>2. ASSUME NEW r \in Requests, pc[r] # "calling"
        PROVE  NamesOf(call[r].models) = {} /\ Asked(call[r]) = {} /\ call[r].pool = NoPool
    BY <2>2 DEF CallsOK, Resting, NamesOf, Asked
  <2>3. \A r \in Requests : /\ call'[r].pool = NoPool
                            /\ NamesOf(call'[r].models) = {} /\ Asked(call'[r]) = {}
    BY <1>10, <2>1, <2>2 DEF Restart
  <2>4. \A r \in Requests :
          Phase(pc'[r]) = IF Phase(pc[r]) = "asking" THEN "raised" ELSE Phase(pc[r])
    BY <1>10 DEF Restart, Phase, TypeOK, Ended
  <2>5. Promise!Stop
    BY <1>10, <2>3, <2>4 DEF Restart, Promise!Stop
  <2> QED BY <2>5 DEF Promise!Next
<1>11. CASE UNCHANGED vars
  BY <1>11 DEF vars, Promise!vars
<1> QED BY <1>2, <1>3, <1>4, <1>5, <1>8, <1>9, <1>10, <1>11 DEF Next

\* generate_text_with_pool keeps the promise of ModelPool under every
\* interleaving of requests, applied configurations and restarts.
THEOREM ImplementsPromise == Spec => ImplementsModelPool
<1>1. Init => Promise!Init
  <2> SUFFICES ASSUME Init PROVE Promise!Init
    OBVIOUS
  <2>1. Phase("idle") = "idle"
    BY DEF Phase
  <2>2. NamesOf(NoCall.models) = {} /\ Asked(NoCall) = {} /\ NoCall.pool = NoPool
    BY DEF NoCall, NamesOf, Asked
  <2> QED BY <2>1, <2>2 DEF Init, Promise!Init
<1>2. IInv /\ [Next]_vars => [Promise!Next]_(Promise!vars)
  BY StepRefines
<1> QED BY <1>1, <1>2, Invariant, PTL DEF Spec, ImplementsModelPool, Promise!Spec
=============================================================================
