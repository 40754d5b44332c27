------------------------------ MODULE ModelPool ------------------------------
(***************************************************************************)
(* What LLMExecutionService promises a feature that asks for a text: one   *)
(* pool's models are asked one after another, the pool's current model     *)
(* first and none twice; the model whose text is returned becomes current; *)
(* "exhausted" is reported only when every model of the pool was asked.    *)
(***************************************************************************)
CONSTANTS Requests, Pools, Names, NoModel, NoPool

VARIABLES
  current,  \* the model each pool prefers
  phase,    \* of each request
  pool,     \* the pool a request asks
  choice,   \* names of the models it may ask
  asked     \* names of the models it has asked

vars == <<current, phase, pool, choice, asked>>
Outcomes == {"answered", "exhausted", "raised"}

Init ==
  /\ current = [p \in Pools |-> NoModel]
  /\ phase = [r \in Requests |-> "idle"]
  /\ pool = [r \in Requests |-> NoPool]
  /\ choice = [r \in Requests |-> {}]
  /\ asked = [r \in Requests |-> {}]

\* A request fixes its pool and the models it may ask, and asks the current
\* one, or any of them when the current one is not among them.
Begin(r, p, S, m) ==
  /\ phase[r] # "asking"
  /\ m \in S /\ (current[p] \in S => m = current[p])
  /\ phase' = [phase EXCEPT ![r] = "asking"]
  /\ pool' = [pool EXCEPT ![r] = p]
  /\ choice' = [choice EXCEPT ![r] = S]
  /\ asked' = [asked EXCEPT ![r] = {m}]
  /\ UNCHANGED current

AskNext(r, m) ==
  /\ phase[r] = "asking" /\ m \in choice[r] \ asked[r]
  /\ asked' = [asked EXCEPT ![r] = @ \cup {m}]
  /\ UNCHANGED <<phase, pool, choice>>

End(r, outcome) ==
  /\ phase' = [phase EXCEPT ![r] = outcome]
  /\ pool' = [pool EXCEPT ![r] = NoPool]
  /\ choice' = [choice EXCEPT ![r] = {}]
  /\ asked' = [asked EXCEPT ![r] = {}]

\* The model m has replied and is recorded as the current one.
Record(r, m) == m \in asked[r] /\ current' = [current EXCEPT ![pool[r]] = m]

Answer(r, m) == phase[r] = "asking" /\ Record(r, m) /\ End(r, "answered")

Exhaust(r) == phase[r] = "asking" /\ asked[r] = choice[r] /\ End(r, "exhausted")

Raise(r) == End(r, "raised")

\* A reply that is lost after it was recorded leaves its model current.
MayRecord(r) ==
  \/ UNCHANGED current
  \/ phase[r] = "asking" /\ \E m \in Names : Record(r, m)

\* The process stops: what was being asked is never answered.
Stop ==
  /\ phase' = [r \in Requests |-> IF phase[r] = "asking" THEN "raised" ELSE phase[r]]
  /\ pool' = [r \in Requests |-> NoPool]
  /\ choice' = [r \in Requests |-> {}]
  /\ asked' = [r \in Requests |-> {}]
  /\ UNCHANGED current

Next ==
  \/ \E r \in Requests :
       \/ \E p \in Pools, S \in SUBSET Names : \E m \in S : Begin(r, p, S, m)
       \/ (\E m \in Names : AskNext(r, m)) /\ MayRecord(r)
       \/ \E m \in Names : Answer(r, m)
       \/ (Exhaust(r) \/ Raise(r)) /\ MayRecord(r)
  \/ Stop

Spec == Init /\ [][Next]_vars
=============================================================================
