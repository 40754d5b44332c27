---------------------------- MODULE RequestTrace ----------------------------
(***************************************************************************)
(* A request of the event API, or of the playground's dossier form, from   *)
(* the start of its trace run to its response: the routes (api/routes.py,  *)
(* api/admin_routes.py), the router (services/router.py), the feature      *)
(* handlers (services/features), the dynamic prompts                       *)
(* (services/dynamic_prompt_service.py) and the recorder of the trace      *)
(* (observability/trace_helpers.py, trace_recorder.py).                    *)
(*                                                                         *)
(* Every trace event is a transaction of its own on a second connection    *)
(* and may fail, usually because another connection has the write lock.    *)
(* Some calls are wrapped so that the failure is logged and dropped, the   *)
(* others raise it into the work they describe.  A step goes from one such *)
(* write, or await of a model, to the next.                                *)
(***************************************************************************)
EXTENDS Integers, Sequences

CONSTANTS
  Requests,   \* requests, each with its own trace context and run
  MaxModels,  \* models a pool may have
  MaxLost     \* bound: trace writes that fail, per request

ASSUME BoundsAssumption == MaxModels \in Nat \ {0} /\ MaxLost \in Nat

Routes == {"chat_ingest", "chat_reply", "dynamic_prompt", "dossier_run"}

VARIABLES
  status,  \* trace_runs.status of the request's run, "none" without a run
  events,  \* trace_events of the run
  lost,    \* trace writes of the request that the database failed, its own lock apart
  saved,   \* its message is committed to chat_messages
  trace,   \* the TraceState in its context variable
  job      \* where the request is, and its local variables

vars == <<status, events, lost, saved, trace, job>>

LLMSuccess == {"llm.generate.success", "dynamic_prompt.llm.success"}
LLMFailure == {"llm.model.failed", "llm.generate.failed", "dynamic_prompt.llm.failed"}
LLMSteps == LLMSuccess \cup LLMFailure \cup {"llm.generate.start", "llm.pool.switch"}
Steps == LLMSteps \cup {"request", "chat_message", "feature", "user_memory", "dynamic_prompt"}

Ended == {"ok", "error", "crashed"}

NoJob == [at |-> "idle", route |-> "none", feature |-> "none", task |-> "none",
          left |-> 0, reply |-> "none"]

Init ==
  /\ status = [r \in Requests |-> "none"]
  /\ events = [r \in Requests |-> <<>>]
  /\ lost = [r \in Requests |-> 0]
  /\ saved = [r \in Requests |-> FALSE]
  /\ trace = [r \in Requests |-> [on |-> FALSE, seq |-> 0]]
  /\ job = [r \in Requests |-> NoJob]
-----------------------------------------------------------------------------
(* Writing the trace.                                                      *)

At(r, label) == job[r].at = label
To(r, label) == [job[r] EXCEPT !.at = label]
Goto(r, j) == job' = [job EXCEPT ![r] = j]

\* _append and append_event: the number is taken before the row is written.
Record(r, step) ==
  /\ trace[r].on
  /\ trace' = [trace EXCEPT ![r].seq = @ + 1]
  /\ events' = [events EXCEPT ![r] = Append(@, [seq |-> trace[r].seq + 1, step |-> step])]
  /\ UNCHANGED lost

Lose(r) ==
  /\ trace[r].on /\ lost[r] < MaxLost
  /\ trace' = [trace EXCEPT ![r].seq = @ + 1]
  /\ lost' = [lost EXCEPT ![r] = @ + 1]
  /\ UNCHANGED events

\* While the request's own session holds the write lock no other connection can write: the
\* trace waits for the lock until SQLite gives up, and raises.
Barred(r) == trace[r].on /\ trace' = [trace EXCEPT ![r].seq = @ + 1] /\ UNCHANGED <<events, lost>>

\* Without a run there is nothing to write to.
Written(r, step) == Record(r, step) \/ (~trace[r].on /\ UNCHANGED <<trace, events, lost>>)

\* _run_trace_safely: the request goes on at j whether or not the write succeeds.
Guarded(r, step, j) ==
  /\ Written(r, step) \/ Lose(r)
  /\ Goto(r, j)
  /\ UNCHANGED <<status, saved>>

\* The request goes on at j, but at h when the write raises.
Unguarded(r, step, j, h) ==
  /\ (Written(r, step) /\ Goto(r, j)) \/ (Lose(r) /\ Goto(r, h))
  /\ UNCHANGED <<status, saved>>

Silent(r, j) == Goto(r, j) /\ UNCHANGED <<status, events, lost, saved, trace>>

\* A switch of the pool counts as an answer.
FaultyDerivedStatus(route, log) ==
  LET Has(S) == \E i \in 1..Len(log) : log[i].step \in S
  IN IF /\ route \in {"chat_reply", "dynamic_prompt"} \/ Has(LLMSteps)
        /\ Has(LLMFailure) /\ ~Has(LLMSuccess \cup {"llm.pool.switch"})
     THEN "degraded" ELSE "success"

\* TraceRecorder._derive_success_status
DerivedStatus(route, log) ==
  LET Has(S) == \E i \in 1..Len(log) : log[i].step \in S
  IN IF /\ route \in {"chat_reply", "dynamic_prompt"} \/ Has(LLMSteps)
        /\ Has(LLMFailure) /\ ~Has(LLMSuccess)
     THEN "degraded" ELSE "success"

\* finish_run, finish_run_success and the cleared context, then the response.
CloseRun(r, verdict, label) ==
  /\ status' = [status EXCEPT ![r] = IF trace[r].on THEN verdict ELSE @]
  /\ trace' = [trace EXCEPT ![r].on = FALSE]
  /\ Goto(r, To(r, label))
  /\ UNCHANGED <<events, lost, saved>>

\* The write of the verdict fails: the run stays "running".
LoseVerdict(r, label) ==
  /\ trace[r].on /\ lost[r] < MaxLost
  /\ lost' = [lost EXCEPT ![r] = @ + 1]
  /\ Goto(r, To(r, label))
  /\ UNCHANGED <<status, events, saved, trace>>
-----------------------------------------------------------------------------
(* The routes.                                                             *)

\* What the request does once its trace is started.
Entered(r, route) ==
  CASE route = "dossier_run"    -> [job[r] EXCEPT !.at = "handle", !.route = route,
                                                  !.feature = "dossier"]
    [] route = "dynamic_prompt" -> [job[r] EXCEPT !.at = "opened", !.route = route,
                                                  !.feature = "dynamic_prompt"]
    [] OTHER                    -> [job[r] EXCEPT !.at = "opened", !.route = route]

\* start_trace, in a wrapper except for the dossier form.  When it fails the row of the run
\* may be there all the same: it is committed before it is read back.
Begin(r, route) ==
  /\ At(r, "idle")
  /\ \/ /\ status' = [status EXCEPT ![r] = "running"]
        /\ trace' = [trace EXCEPT ![r].on = TRUE]
        /\ Goto(r, Entered(r, route))
        /\ UNCHANGED lost
     \/ /\ lost[r] < MaxLost
        /\ lost' = [lost EXCEPT ![r] = @ + 1]
        /\ \E left \in {"none", "running"} : status' = [status EXCEPT ![r] = left]
        /\ Goto(r, IF route = "dossier_run" THEN To(r, "unopened") ELSE Entered(r, route))
        /\ UNCHANGED trace
  /\ UNCHANGED <<events, saved>>

\* Nothing catches what start_trace raises in the dossier form's route.
Unopened(r) == At(r, "unopened") /\ Silent(r, To(r, "error"))

\* The request.start event of the wrapper.
Opened(r) ==
  /\ At(r, "opened")
  /\ Guarded(r, "request",
             To(r, IF job[r].route = "dynamic_prompt" THEN "validate" ELSE "ingest"))

Wrapped(r) == job[r].route # "dossier_run"

\* The work is done: request.finish.
Finish(r) ==
  /\ At(r, "finish")
  /\ IF Wrapped(r) THEN Guarded(r, "request", To(r, "close"))
                   ELSE Unguarded(r, "request", To(r, "close"), To(r, "fail"))

\* The trace state is not cleared.
FaultyClose(r) ==
  /\ At(r, "close")
  /\ status' = [status EXCEPT ![r] =
                  IF trace[r].on THEN DerivedStatus(job[r].route, events[r]) ELSE @]
  /\ Goto(r, To(r, "ok"))
  /\ UNCHANGED <<events, lost, saved, trace>>

\* finish_trace_success and the return of the response.
Close(r) ==
  /\ At(r, "close")
  /\ \/ CloseRun(r, DerivedStatus(job[r].route, events[r]), "ok")
     \/ LoseVerdict(r, IF Wrapped(r) THEN "ok" ELSE "fail")

\* The dossier form's handler ends the request without ending the run.
FaultyFail(r) ==
  /\ At(r, "fail")
  /\ IF Wrapped(r) THEN Guarded(r, "request", To(r, "abort"))
                   ELSE Unguarded(r, "request", To(r, "error"), To(r, "error"))

\* The exception handler: request.finish of a failed request.
Fail(r) ==
  /\ At(r, "fail")
  /\ IF Wrapped(r) THEN Guarded(r, "request", To(r, "abort"))
                   ELSE Unguarded(r, "request", To(r, "abort"), To(r, "error"))

\* The handler derives the status from the events like a finished request.
FaultyAbort(r) ==
  /\ At(r, "abort")
  /\ \/ CloseRun(r, DerivedStatus(job[r].route, events[r]), "error")
     \/ LoseVerdict(r, "error")

\* finish_trace_failure, then the exception goes on to the error handlers.
Abort(r) ==
  /\ At(r, "abort")
  /\ CloseRun(r, "failed", "error") \/ LoseVerdict(r, "error")
-----------------------------------------------------------------------------
(* RouterService                                                           *)

SaveStart(r) == At(r, "ingest") /\ Unguarded(r, "chat_message", To(r, "save"), To(r, "fail"))

\* save_message and commit; the database may refuse.
Save(r) ==
  /\ At(r, "save")
  /\ \/ Goto(r, To(r, "saved")) /\ saved' = [saved EXCEPT ![r] = TRUE]
     \/ Goto(r, To(r, "fail")) /\ UNCHANGED saved
  /\ UNCHANGED <<status, events, lost, trace>>

\* A chat_reply of the bot's own message is only ingested.
AfterSave(r) ==
  IF job[r].route = "chat_ingest" THEN {To(r, "finish")}
  ELSE {To(r, "select"), [To(r, "finish") EXCEPT !.reply = "empty"]}

\* The event after the commit is not guarded.
FaultySaved(r) ==
  /\ At(r, "saved")
  /\ \E j \in AfterSave(r) : Unguarded(r, "chat_message", j, To(r, "fail"))

Saved(r) ==
  /\ At(r, "saved")
  /\ \E j \in AfterSave(r) : Guarded(r, "chat_message", j)

\* FeatureSelector.select: the first handler, in this order, that matches.
Handlers == <<"dossier", "weekly_movies", "chat", "ignored">>
FirstMatch(matching) ==
  Handlers[CHOOSE i \in 1..Len(Handlers) :
             /\ Handlers[i] \in matching
             /\ \A k \in 1..i - 1 : Handlers[k] \notin matching]

Select(r) ==
  /\ At(r, "select")
  /\ \E matching \in SUBSET {"dossier", "weekly_movies", "chat"} :
       Unguarded(r, "feature",
                 [To(r, "handle") EXCEPT !.feature = FirstMatch(matching \cup {"ignored"})],
                 To(r, "fail"))

\* handle_chat_reply: route.result.success; run_dossier returns at once.
Result(r) ==
  /\ At(r, "result")
  /\ IF Wrapped(r) THEN Unguarded(r, "feature", To(r, "finish"), To(r, "fail"))
                   ELSE Silent(r, To(r, "finish"))
-----------------------------------------------------------------------------
(* The feature handlers.                                                   *)

Reply(r, reply) == [To(r, "result") EXCEPT !.reply = reply]
Generate(r, task) == [To(r, "generate") EXCEPT !.task = task]

\* Files, styles and the registry are read before the generation; some of it
\* inside the try that turns an exception into an apology, some of it outside.
Prepare(r) ==
  \/ Silent(r, Generate(r, "reply"))
  \/ Silent(r, To(r, "fail"))
  \/ job[r].feature # "chat" /\ Silent(r, Reply(r, "apology"))

Ignore(r) == At(r, "handle") /\ job[r].feature = "ignored" /\ Silent(r, Reply(r, "empty"))

AnswerChat(r) ==
  At(r, "handle") /\ job[r].feature \in {"weekly_movies", "chat"} /\ Prepare(r)

\* Nobody named, the bot itself named, or a viewer whose memory is refreshed.
CompileDossier(r) ==
  /\ At(r, "handle") /\ job[r].feature = "dossier"
  /\ \E j \in {Reply(r, "empty"), Reply(r, "fixed"), To(r, "refresh")} : Silent(r, j)

\* refresh_user_memory_if_needed: skipped, or started; its queries may raise.
Refresh(r) ==
  /\ At(r, "refresh")
  /\ \/ \E j \in {To(r, "dossier"), Generate(r, "memory"), To(r, "undo")} :
          Unguarded(r, "user_memory", j, To(r, "fail"))
     \/ Silent(r, To(r, "fail"))

\* The rest of the refresh (see UserMemory).  Its first statement, the UPDATE of the attempt
\* marks, takes the write lock, and every way on to a commit writes a trace event before
\* it: a traced refresh always ends here, one without a trace goes on or raises.
RefreshStep(r) ==
  /\ At(r, "extracted")
  /\ \/ Barred(r) /\ Goto(r, To(r, "undo")) /\ UNCHANGED <<status, saved>>
     \/ ~trace[r].on /\ Silent(r, To(r, "dossier"))
     \/ Silent(r, To(r, "undo"))

\* The refresh is rolled back and raises.
Undo(r) == At(r, "undo") /\ Unguarded(r, "user_memory", To(r, "fail"), To(r, "fail"))

\* The dossier itself, or the remark that too little is known.
WriteDossier(r) ==
  /\ At(r, "dossier")
  /\ Prepare(r) \/ Silent(r, Reply(r, "fixed"))
-----------------------------------------------------------------------------
(* LLMExecutionService.generate_text_with_pool (see LLMFailover).          *)

\* Where the caller goes on with a text, and with an exception.
Replied(r) ==
  CASE job[r].task = "memory"            -> {To(r, "extracted")}
    [] job[r].feature = "dynamic_prompt" -> {To(r, "trim")}
    [] OTHER                             -> {Reply(r, "model")}

Thrown(r) ==
  CASE job[r].task = "memory"            -> To(r, "extracted")
    [] job[r].feature = "dynamic_prompt" -> To(r, "llm_failed")
    [] OTHER                             -> Reply(r, "apology")

GenerateStart(r) ==
  /\ At(r, "generate")
  /\ \/ \E n \in 1..MaxModels :
          Unguarded(r, "llm.generate.start", [To(r, "ask") EXCEPT !.left = n - 1], Thrown(r))
     \/ Silent(r, Thrown(r))

\* A model is awaited, `left' others are not asked yet; its text is recorded,
\* perhaps as a switch of the pool.
\* Building the client is outside the try.
Ask(r) ==
  /\ At(r, "ask")
  /\ \E j \in {To(r, "switch"), To(r, "succeed"), To(r, "model_failed"), Thrown(r)} :
       Silent(r, j)

Switch(r) ==
  At(r, "switch") /\ Unguarded(r, "llm.pool.switch", To(r, "succeed"), To(r, "model_failed"))

\* The event of a success may be lost without losing the text.
FaultySucceed(r) ==
  At(r, "succeed") /\ \E j \in Replied(r) : Guarded(r, "llm.generate.success", j)

Succeed(r) ==
  /\ At(r, "succeed")
  /\ \E j \in Replied(r) : Unguarded(r, "llm.generate.success", j, To(r, "model_failed"))

\* The same model is asked again.
FaultyNextModel(r) == To(r, IF job[r].left = 0 THEN "exhausted" ELSE "ask")

\* The next model of the pool, if there is one.
NextModel(r) == IF job[r].left = 0 THEN To(r, "exhausted")
                ELSE [To(r, "ask") EXCEPT !.left = @ - 1]

\* The handler of an exception in the loop, retryable or not.
ModelFailed(r) ==
  /\ At(r, "model_failed")
  /\ \E j \in {NextModel(r), Thrown(r)} : Unguarded(r, "llm.model.failed", j, Thrown(r))

Exhausted(r) == At(r, "exhausted") /\ Unguarded(r, "llm.generate.failed", Thrown(r), Thrown(r))
-----------------------------------------------------------------------------
(* DynamicPromptService.generate                                           *)

\* The name is checked: an event for a good one, another for a bad one.
Validate(r) ==
  /\ At(r, "validate")
  /\ \E j \in {To(r, "read"), To(r, "fallback")} :
       Unguarded(r, "dynamic_prompt", j, To(r, "fail"))

\* Files missing, a broken template, missing fields or a failed rendering have an
\* event of their own before the fallback, data of a wrong type has none; an
\* unknown provider override raises.
ReadPrompt(r) ==
  /\ At(r, "read")
  /\ \/ Unguarded(r, "dynamic_prompt", To(r, "fallback"), To(r, "fail"))
     \/ \E j \in {To(r, "fallback"), To(r, "fail"), Generate(r, "reply")} : Silent(r, j)

GenerationFailed(r) ==
  At(r, "llm_failed") /\ Unguarded(r, "dynamic_prompt.llm.failed", To(r, "fallback"), To(r, "fail"))

\* A text that is blank, before or after it is shortened for the chat, is no reply.
TrimReply(r) ==
  /\ At(r, "trim")
  /\ \/ Silent(r, To(r, "fallback"))
     \/ Unguarded(r, "dynamic_prompt.llm.success",
                  [To(r, "finish") EXCEPT !.reply = "model"], To(r, "fail"))

Fallback(r) ==
  /\ At(r, "fallback")
  /\ Unguarded(r, "dynamic_prompt", [To(r, "finish") EXCEPT !.reply = "empty"], To(r, "fail"))
-----------------------------------------------------------------------------
RouteStep(r) ==
  \/ \E route \in Routes : Begin(r, route)
  \/ Unopened(r) \/ Opened(r) \/ Finish(r) \/ Close(r) \/ Fail(r) \/ Abort(r)
  \/ SaveStart(r) \/ Save(r) \/ Saved(r) \/ Select(r) \/ Result(r)

HandlerStep(r) ==
  \/ Ignore(r) \/ AnswerChat(r) \/ CompileDossier(r)
  \/ Refresh(r) \/ RefreshStep(r) \/ Undo(r) \/ WriteDossier(r)
  \/ GenerateStart(r) \/ Ask(r) \/ Switch(r) \/ Succeed(r) \/ ModelFailed(r) \/ Exhausted(r)
  \/ Validate(r) \/ ReadPrompt(r) \/ GenerationFailed(r) \/ TrimReply(r) \/ Fallback(r)

Step(r) == RouteStep(r) \/ HandlerStep(r)

\* The process dies: the contexts are gone, the tables stay.
Crash ==
  /\ job' = [r \in Requests |->
               IF job[r].at \in Ended \cup {"idle"} THEN job[r] ELSE To(r, "crashed")]
  /\ trace' = [r \in Requests |-> [trace[r] EXCEPT !.on = FALSE]]
  /\ UNCHANGED <<status, events, lost, saved>>

Next == (\E r \in Requests : Step(r)) \/ Crash

Spec == Init /\ [][Next]_vars

\* Every await of a model ends and the event loop, or the worker thread of a
\* plain route, runs the request again.
FairSpec == Spec /\ \A r \in Requests : WF_vars(Step(r))
-----------------------------------------------------------------------------
Labels == {"idle", "unopened", "opened", "ingest", "save", "saved", "select", "handle", "refresh", "undo",
           "extracted", "dossier", "result", "generate", "ask", "switch", "succeed", "model_failed",
           "exhausted", "validate", "read", "llm_failed", "trim", "fallback", "finish",
           "close", "fail", "abort"} \cup Ended

Job == [at : Labels, route : Routes \cup {"none"},
        feature : {"none", "dynamic_prompt", "dossier", "weekly_movies", "chat", "ignored"},
        task : {"none", "memory", "reply"}, left : 0..MaxModels,
        reply : {"none", "empty", "fixed", "apology", "model"}]

\* Type invariant; a context that still has a trace has a running one.
TypeOK ==
  /\ status \in [Requests -> {"none", "running", "success", "degraded", "failed"}]
  /\ events \in [Requests -> Seq([seq : Nat, step : Steps])]
  /\ lost \in [Requests -> 0..MaxLost]
  /\ saved \in [Requests -> BOOLEAN]
  /\ trace \in [Requests -> [on : BOOLEAN, seq : Nat]]
  /\ job \in [Requests -> Job]
  /\ \A r \in Requests : trace[r].on => status[r] = "running"

\* The client that sends chat messages can trust the response: an accepted message
\* is stored, a refused one is not, wherever in between the trace or the database fails.
ResponseTellsIfSaved ==
  \A r \in Requests : job[r].route = "chat_ingest" =>
    (At(r, "ok") => saved[r]) /\ (At(r, "error") => ~saved[r])

\* A run is called degraded only when what the chat got is not a model's text,
\* although events of earlier models, of the memory extraction and of lost
\* replies are counted together.
DegradedMeansNoModelText == \A r \in Requests : status[r] = "degraded" => job[r].reply # "model"

\* A run that stays open after its request was answered has lost a trace write;
\* when none is lost every way through the handlers closes it.
OpenRunsLostAWrite ==
  \A r \in Requests : job[r].at \in {"ok", "error"} /\ status[r] \in {"none", "running"} =>
    lost[r] > 0

\* A run is called a success only if every failure of a model it shows is followed by a
\* model's success.  The status is derived from the events as a set, so this rests on the
\* order of the handlers: no closed run shows an extraction and a reply of the same dossier,
\* because a traced extraction never gets past its lock.
FailuresWereMadeUpFor ==
  \A r \in Requests : status[r] = "success" =>
    \A i \in 1..Len(events[r]) : events[r][i].step \in LLMFailure =>
      \E k \in i + 1..Len(events[r]) : events[r][k].step \in LLMSuccess

\* Runs and responses keep the promise of TraceRun.
Response(label) ==
  IF label = "crashed" THEN "lost" ELSE IF label \in Ended THEN label ELSE "pending"

Promise == INSTANCE TraceRun WITH response <- [r \in Requests |-> Response(job[r].at)]

\* A run is closed once and together with the response, and a failed request's
\* run never says success, nor an answered one's run "failed".
ImplementsTraceRun == Promise!Spec

\* A request ends whatever the models, the database and the trace do.
EveryRequestEnds == \A r \in Requests : ~At(r, "idle") ~> job[r].at \in Ended
=============================================================================
