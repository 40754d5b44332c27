------------------------- MODULE RequestTraceProofs -------------------------
(* Theorems about RequestTrace, for every value of its constants.          *)
EXTENDS RequestTrace, TLAPS

Working(label) == label \in Labels \ (Ended \cup {"idle"})

HasSuccess(log) == \E i \in 1..Len(log) : log[i].step \in LLMSuccess

\* A request without a trace has lost the write that opens it; an ended one whose
\* run is open has lost one, too.
LifeOK(r) ==
  /\ At(r, "idle") => status[r] = "none" /\ ~trace[r].on /\ ~saved[r] /\ job[r] = NoJob
  /\ Working(job[r].at) => IF trace[r].on THEN status[r] = "running"
                                          ELSE status[r] \in {"none", "running"} /\ lost[r] > 0
  /\ At(r, "unopened") => ~trace[r].on
  /\ At(r, "ok") => \/ status[r] \in {"success", "degraded"}
                    \/ (status[r] \in {"none", "running"} /\ lost[r] > 0)
  /\ At(r, "error") => \/ status[r] = "failed"
                       \/ (status[r] \in {"none", "running"} /\ lost[r] > 0)

\* The places a chat_ingest can be at, before and after its message is stored.
IngestOK(j, stored) ==
  j.route = "chat_ingest" =>
    \/ j.at \in {"opened", "ingest", "save", "fail", "abort", "error"} /\ ~stored
    \/ j.at \in {"saved", "finish", "close", "ok"} /\ stored
    \/ j.at = "crashed"

\* A traced text has the event that its model succeeded.
ReplyOK(r) ==
  /\ job[r].reply = "model" /\ trace[r].on => HasSuccess(events[r])
  /\ status[r] = "degraded" => job[r].reply # "model"

IInv ==
  /\ TypeOK
  /\ \A r \in Requests : LifeOK(r) /\ IngestOK(job[r], saved[r]) /\ ReplyOK(r)

\* What all steps between the start and the end of a request have in common: at
\* most one trace write, and a new place.
Writes(r, step) == Written(r, step) \/ Lose(r) \/ Barred(r) \/ UNCHANGED <<trace, events, lost>>

TraceMove(r, step, j) ==
  /\ Writes(r, step)
  /\ Goto(r, j)
  /\ UNCHANGED <<status, saved>>

\* From work to work, or to an answer whose trace is lost; a reply that becomes a
\* model's text is traced as a success.
Allowed(r, step, j) ==
  /\ j \in Job /\ step \in Steps
  /\ Working(job[r].at) /\ j.at # "unopened"
  /\ Working(j.at) \/ (j.at = "error" /\ (Lose(r) \/ At(r, "unopened")))
  /\ IngestOK(j, saved[r])
  /\ j.reply = "model" => job[r].reply = "model" \/ (Written(r, step) /\ step \in LLMSuccess)

-----------------------------------------------------------------------------
LEMMA ToJob ==
  ASSUME NEW r \in Requests, job[r] \in Job, NEW label \in Labels
  PROVE  /\ To(r, label) \in Job
         /\ To(r, label).at = label /\ To(r, label).route = job[r].route
         /\ To(r, label).reply = job[r].reply
BY DEF To, Job

LEMMA StepNames ==
  /\ LLMSuccess \subseteq Steps /\ LLMFailure \subseteq Steps
  /\ {"request", "chat_message", "feature", "user_memory", "dynamic_prompt",
      "llm.generate.start", "llm.pool.switch"} \subseteq Steps
BY DEF Steps, LLMSteps, LLMSuccess, LLMFailure

LEMMA Renumbered ==
  ASSUME TypeOK, NEW r \in Requests, trace' = [trace EXCEPT ![r].seq = trace[r].seq + 1]
  PROVE  /\ trace' \in [Requests -> [on : BOOLEAN, seq : Nat]]
         /\ \A q \in Requests : trace'[q].on = trace[q].on
<1>1. trace[r] \in [on : BOOLEAN, seq : Nat] /\ trace \in [Requests -> [on : BOOLEAN, seq : Nat]]
  BY DEF TypeOK
<1>2. [trace[r] EXCEPT !.seq = trace[r].seq + 1] \in [on : BOOLEAN, seq : Nat]
  BY <1>1
<1>3. [trace[r] EXCEPT !.seq = trace[r].seq + 1].on = trace[r].on
  BY <1>1
<1>4. trace' = [trace EXCEPT ![r] = [trace[r] EXCEPT !.seq = trace[r].seq + 1]]
  OBVIOUS
<1> QED BY <1>1, <1>2, <1>3, <1>4

\* A trace write leaves everybody else's trace alone and never takes back an event.
LEMMA WritesTyped ==
  ASSUME TypeOK, NEW r \in Requests, NEW step \in Steps,
         Writes(r, step)
  PROVE  /\ events' \in [Requests -> Seq([seq : Nat, step : Steps])]
         /\ lost' \in [Requests -> 0..MaxLost]
         /\ trace' \in [Requests -> [on : BOOLEAN, seq : Nat]]
         /\ \A q \in Requests : trace'[q].on = trace[q].on
         /\ \A q \in Requests \ {r} : events'[q] = events[q] /\ lost'[q] = lost[q]
         /\ lost'[r] >= lost[r] /\ (Lose(r) => lost'[r] > 0)
         /\ HasSuccess(events[r]) => HasSuccess(events'[r])
         /\ Written(r, step) /\ step \in LLMSuccess /\ trace[r].on => HasSuccess(events'[r])
<1> USE BoundsAssumption
<1>1. CASE Record(r, step)
  <2> DEFINE e == [seq |-> trace[r].seq + 1, step |-> step]
  <2>1. e \in [seq : Nat, step : Steps] /\ e.step = step
    BY DEF TypeOK
  <2>2. /\ events' = [events EXCEPT ![r] = Append(events[r], e)]
        /\ trace' = [trace EXCEPT ![r].seq = trace[r].seq + 1] /\ lost' = lost
    BY <1>1 DEF Record
  <2>3. events[r] \in Seq([seq : Nat, step : Steps])
    BY DEF TypeOK
  <2> HIDE DEF e
  <2>4. /\ Append(events[r], e) \in Seq([seq : Nat, step : Steps])
        /\ Len(Append(events[r], e)) = Len(events[r]) + 1
        /\ \A i \in 1..Len(events[r]) : Append(events[r], e)[i] = events[r][i]
        /\ Append(events[r], e)[Len(events[r]) + 1] = e
    BY <2>1, <2>3
  <2>5. events' \in [Requests -> Seq([seq : Nat, step : Steps])]
    BY <2>2, <2>4 DEF TypeOK
  <2>6. events'[r] = Append(events[r], e)
    BY <2>2 DEF TypeOK
  <2>7. Len(events[r]) \in Nat
    BY <2>3
  <2>8. HasSuccess(events[r]) => HasSuccess(events'[r])
    BY <2>4, <2>6, <2>7 DEF HasSuccess
  <2>9. step \in LLMSuccess => HasSuccess(events'[r])
    BY <2>1, <2>4, <2>6, <2>7 DEF HasSuccess
  <2>10. /\ trace' \in [Requests -> [on : BOOLEAN, seq : Nat]]
         /\ \A q \in Requests : trace'[q].on = trace[q].on
    BY <2>2, Renumbered
  <2>11. \A q \in Requests \ {r} : events'[q] = events[q]
    BY <2>2 DEF TypeOK
  <2>12. ~Lose(r)
    BY <2>2, <1>1 DEF Record, Lose, TypeOK
  <2>13. lost \in [Requests -> 0..MaxLost] /\ lost' \in [Requests -> 0..MaxLost]
    BY <2>2 DEF TypeOK
  <2>14. lost'[r] >= lost[r] /\ \A q \in Requests : lost'[q] = lost[q]
    BY <2>2, <2>13
  <2> QED BY <2>5, <2>8, <2>9, <2>10, <2>11, <2>12, <2>13, <2>14
<1>2. CASE Lose(r)
  <2>1. /\ events' = events /\ lost' = [lost EXCEPT ![r] = lost[r] + 1]
        /\ trace' = [trace EXCEPT ![r].seq = trace[r].seq + 1]
        /\ lost[r] < MaxLost /\ trace[r].on
    BY <1>2 DEF Lose
  <2>2. lost' \in [Requests -> 0..MaxLost] /\ lost'[r] = lost[r] + 1
    BY <2>1 DEF TypeOK
  <2>3. /\ trace' \in [Requests -> [on : BOOLEAN, seq : Nat]]
        /\ \A q \in Requests : trace'[q].on = trace[q].on
    BY <2>1, Renumbered
  <2>4. ~Written(r, step)
    BY <2>1, <2>2 DEF Written, Record, TypeOK
  <2>5. lost[r] \in Nat /\ HasSuccess(events[r]) => HasSuccess(events'[r])
    BY <2>1
  <2>6. \A q \in Requests \ {r} : lost'[q] = lost[q]
    BY <2>1 DEF TypeOK
  <2>7. lost'[r] >= lost[r] /\ lost'[r] > 0
    BY <2>2 DEF TypeOK
  <2> QED BY <2>1, <2>2, <2>3, <2>4, <2>5, <2>6, <2>7 DEF TypeOK
<1>3. CASE UNCHANGED <<trace, events, lost>>
  <2>1. ~Lose(r)
    BY <1>3 DEF Lose, TypeOK
  <2>2. trace[r].on => ~Written(r, step)
    <3>1. trace[r].seq \in Nat
      BY DEF TypeOK
    <3>2. Record(r, step) => trace'[r].seq = trace[r].seq + 1
      BY DEF Record, TypeOK
    <3> QED BY <1>3, <3>1, <3>2 DEF Written
  <2>3. /\ events' \in [Requests -> Seq([seq : Nat, step : Steps])]
        /\ lost' \in [Requests -> 0..MaxLost]
        /\ trace' \in [Requests -> [on : BOOLEAN, seq : Nat]]
        /\ trace' = trace /\ events' = events /\ lost' = lost
    BY <1>3 DEF TypeOK
  <2>4. HasSuccess(events[r]) => HasSuccess(events'[r])
    BY <2>3
  <2>5. lost'[r] >= lost[r]
    BY <2>3
  <2> QED BY <2>1, <2>2, <2>3, <2>4, <2>5
<1>4. CASE Barred(r)
  <2>1. /\ events' = events /\ lost' = lost
        /\ trace' = [trace EXCEPT ![r].seq = trace[r].seq + 1]
    BY <1>4 DEF Barred
  <2>2. /\ trace' \in [Requests -> [on : BOOLEAN, seq : Nat]]
        /\ \A q \in Requests : trace'[q].on = trace[q].on
    BY <2>1, Renumbered
  <2>3. ~Lose(r)
    BY <2>1 DEF Lose, TypeOK
  <2>4. trace[r].on => ~Written(r, step)
    <3>1. events[r] \in Seq([seq : Nat, step : Steps])
      BY DEF TypeOK
    <3>2. Record(r, step) => events'[r] # events[r]
      <4> DEFINE e == [seq |-> trace[r].seq + 1, step |-> step]
      <4>1. e \in [seq : Nat, step : Steps]
        BY DEF TypeOK
      <4>2. Record(r, step) => events'[r] = Append(events[r], e)
        BY DEF Record, TypeOK
      <4> HIDE DEF e
      <4>3. Len(Append(events[r], e)) = Len(events[r]) + 1
        BY <3>1, <4>1
      <4>4. Len(events[r]) \in Nat
        BY <3>1
      <4> QED BY <4>2, <4>3, <4>4
    <3> QED BY <2>1, <3>2 DEF Written
  <2>5. lost' \in [Requests -> 0..MaxLost] /\ lost'[r] >= lost[r]
    BY <2>1 DEF TypeOK
  <2> QED BY <2>1, <2>2, <2>3, <2>4, <2>5 DEF TypeOK
<1> QED BY <1>1, <1>2, <1>3, <1>4 DEF Writes, Written

\* Such a step keeps the invariant.
LEMMA MoveKeeps ==
  ASSUME IInv, NEW r \in Requests, NEW step, NEW j,
         TraceMove(r, step, j), Allowed(r, step, j)
  PROVE  IInv'
<1> USE BoundsAssumption
<1>1. /\ j \in Job /\ step \in Steps /\ job' = [job EXCEPT ![r] = j]
      /\ status' = status /\ saved' = saved
  BY DEF TraceMove, Allowed, Goto
<1>2. /\ events' \in [Requests -> Seq([seq : Nat, step : Steps])]
      /\ lost' \in [Requests -> 0..MaxLost]
      /\ trace' \in [Requests -> [on : BOOLEAN, seq : Nat]]
      /\ \A q \in Requests : trace'[q].on = trace[q].on
      /\ \A q \in Requests \ {r} : events'[q] = events[q] /\ lost'[q] = lost[q]
      /\ lost'[r] >= lost[r] /\ (Lose(r) => lost'[r] > 0)
      /\ HasSuccess(events[r]) => HasSuccess(events'[r])
      /\ Written(r, step) /\ step \in LLMSuccess /\ trace[r].on => HasSuccess(events'[r])
  BY <1>1, WritesTyped DEF TraceMove, IInv
<1>3. /\ job' \in [Requests -> Job] /\ job'[r] = j
      /\ \A q \in Requests \ {r} : job'[q] = job[q]
  BY <1>1 DEF IInv, TypeOK
<1>4. TypeOK'
  BY <1>1, <1>2, <1>3 DEF IInv, TypeOK
<1>5. \A q \in Requests \ {r} : LifeOK(q)' /\ IngestOK(job[q], saved[q])' /\ ReplyOK(q)'
  BY <1>1, <1>2, <1>3 DEF IInv, LifeOK, At, IngestOK, ReplyOK
<1>6. LifeOK(r)'
  <2>1. Working(job[r].at) /\ (Working(j.at) \/ (j.at = "error" /\ lost'[r] > 0))
    <3>1. CASE Lose(r) \/ Working(j.at)
      BY <1>2, <3>1 DEF Allowed
    <3>2. CASE At(r, "unopened") /\ j.at = "error"
      <4>1. Working(job[r].at) /\ ~trace[r].on /\ LifeOK(r)
        BY <3>2 DEF IInv, LifeOK, Allowed
      <4>2. lost[r] > 0 /\ lost[r] \in Nat /\ lost'[r] \in Nat
        BY <1>2, <4>1 DEF LifeOK, IInv, TypeOK
      <4>3. lost'[r] > 0
        BY <1>2, <4>2
      <4> QED BY <3>2, <4>1, <4>3
    <3> QED BY <3>1, <3>2 DEF Allowed
  <2>2. LifeOK(r) /\ lost[r] \in Nat /\ lost'[r] \in Nat
    BY <1>2 DEF IInv, TypeOK
  <2>3. job'[r].at # "unopened"
    BY <1>3, <2>1 DEF Allowed
  <2> QED BY <1>1, <1>2, <1>3, <2>1, <2>2, <2>3 DEF LifeOK, At, Working, Ended
<1>7. IngestOK(job[r], saved[r])'
  BY <1>1, <1>3 DEF Allowed, IngestOK
<1>8. ReplyOK(r)'
  <2>1. status[r] # "degraded"
    BY DEF IInv, LifeOK, Allowed
  <2>2. ReplyOK(r)
    BY DEF IInv
  <2> QED BY <1>1, <1>2, <1>3, <2>1, <2>2 DEF ReplyOK, Allowed
<1> QED BY <1>4, <1>5, <1>6, <1>7, <1>8 DEF IInv
-----------------------------------------------------------------------------
(* The three kinds of step, and the places they may lead to.               *)

Fits(r, j) ==
  /\ j \in Job /\ Working(j.at) /\ j.at # "unopened" /\ IngestOK(j, saved[r])
  /\ j.reply = "model" => job[r].reply = "model"

LEMMA WithText ==
  ASSUME NEW j \in Job
  PROVE  /\ [j EXCEPT !.reply = "model"] \in Job
         /\ [j EXCEPT !.reply = "model"].at = j.at /\ [j EXCEPT !.reply = "model"].route = j.route
BY DEF Job

LEMMA SilentKeeps ==
  ASSUME IInv, NEW r \in Requests, Working(job[r].at), NEW j, Fits(r, j), Silent(r, j)
  PROVE  IInv'
<1>1. TraceMove(r, "request", j)
  BY DEF Silent, TraceMove, Writes
<1>2. Allowed(r, "request", j)
  BY StepNames DEF Allowed, Fits
<1> QED BY <1>1, <1>2, MoveKeeps

LEMMA GuardedKeeps ==
  ASSUME IInv, NEW r \in Requests, Working(job[r].at), NEW step \in Steps,
         NEW j, Fits(r, j), Guarded(r, step, j)
  PROVE  IInv'
<1>1. TraceMove(r, step, j)
  BY DEF Guarded, TraceMove, Writes
<1>2. Allowed(r, step, j)
  BY DEF Allowed, Fits
<1> QED BY <1>1, <1>2, MoveKeeps

\* The new place j may show a model's text when the write says so; the handler h
\* may be the end of the request.
LEMMA UnguardedKeeps ==
  ASSUME IInv, NEW r \in Requests, Working(job[r].at), NEW step \in Steps, NEW j, NEW h,
         j \in Job, Working(j.at), j.at # "unopened", IngestOK(j, saved[r]),
         j.reply = "model" => job[r].reply = "model" \/ step \in LLMSuccess,
         h \in Job, Working(h.at) \/ h.at = "error", h.at # "unopened", IngestOK(h, saved[r]),
         h.reply = "model" => job[r].reply = "model",
         Unguarded(r, step, j, h)
  PROVE  IInv'
<1>1. CASE Written(r, step) /\ Goto(r, j)
  <2>1. TraceMove(r, step, j)
    BY <1>1 DEF Unguarded, TraceMove, Writes
  <2>2. Allowed(r, step, j)
    BY <1>1 DEF Allowed
  <2> QED BY <2>1, <2>2, MoveKeeps
<1>2. CASE Lose(r) /\ Goto(r, h)
  <2>1. TraceMove(r, step, h)
    BY <1>2 DEF Unguarded, TraceMove, Writes
  <2>2. Allowed(r, step, h)
    BY <1>2 DEF Allowed
  <2> QED BY <2>1, <2>2, MoveKeeps
<1> QED BY <1>1, <1>2 DEF Unguarded

LEMMA UnguardedFits ==
  ASSUME IInv, NEW r \in Requests, Working(job[r].at), NEW step \in Steps, NEW j, NEW h,
         Fits(r, j), Fits(r, h), Unguarded(r, step, j, h)
  PROVE  IInv'
BY UnguardedKeeps DEF Fits

\* Only a few labels are places of a chat_ingest.
LEMMA NotIngest ==
  ASSUME IInv, NEW r \in Requests, Working(job[r].at),
         job[r].at \notin {"opened", "ingest", "save", "saved", "finish", "close", "fail", "abort"}
  PROVE  job[r].route # "chat_ingest"
BY DEF IInv, IngestOK, Working, Ended

\* The places of all other requests.
LEMMA PlacesFit ==
  ASSUME IInv, NEW r \in Requests, job[r].route # "chat_ingest",
         NEW label, Working(label), label # "unopened"
  PROVE  /\ Fits(r, To(r, label))
         /\ \A reply \in {"empty", "fixed", "apology"} :
              Fits(r, [To(r, label) EXCEPT !.reply = reply])
         /\ \A task \in {"memory", "reply"} : Fits(r, [To(r, label) EXCEPT !.task = task])
         /\ \A n \in 0..MaxModels : Fits(r, [To(r, label) EXCEPT !.left = n])
         /\ \A f \in {"dossier", "weekly_movies", "chat", "ignored"} :
              Fits(r, [To(r, label) EXCEPT !.feature = f])
<1>1. job[r] \in Job /\ label \in Labels
  BY DEF IInv, TypeOK, Working
<1>2. Fits(r, To(r, label))
  BY <1>1, ToJob DEF Fits, IngestOK
<1>3. \A reply \in {"empty", "fixed", "apology"} :
        Fits(r, [To(r, label) EXCEPT !.reply = reply])
  BY <1>1 DEF Fits, IngestOK, To, Job
<1>4. \A task \in {"memory", "reply"} : Fits(r, [To(r, label) EXCEPT !.task = task])
  BY <1>1 DEF Fits, IngestOK, To, Job
<1>5. \A n \in 0..MaxModels : Fits(r, [To(r, label) EXCEPT !.left = n])
  BY <1>1 DEF Fits, IngestOK, To, Job
<1>6. \A f \in {"dossier", "weekly_movies", "chat", "ignored"} :
        Fits(r, [To(r, label) EXCEPT !.feature = f])
  BY <1>1 DEF Fits, IngestOK, To, Job
<1> QED BY <1>2, <1>3, <1>4, <1>5, <1>6

LEMMA Workplaces ==
  \A label \in {"unopened", "opened", "ingest", "save", "saved", "select", "handle", "refresh",
                "undo", "extracted", "dossier", "result", "generate", "ask", "switch", "succeed",
                "model_failed", "exhausted", "validate", "read", "llm_failed", "trim", "fallback",
                "finish", "close", "fail", "abort"} : Working(label)
BY DEF Working, Labels, Ended

\* Where the callers of a generation go on.
LEMMA CallersFit ==
  ASSUME IInv, NEW r \in Requests, job[r].route # "chat_ingest"
  PROVE  /\ Fits(r, Thrown(r))
         /\ \A j \in Replied(r) : /\ j \in Job /\ Working(j.at) /\ j.at # "unopened"
                                  /\ IngestOK(j, saved[r])
<1>1. \A label \in {"extracted", "trim", "llm_failed", "result"} : Working(label)
  BY Workplaces
<1>2. Fits(r, Thrown(r))
  <2>1. /\ Fits(r, To(r, "extracted")) /\ Fits(r, To(r, "llm_failed"))
        /\ Fits(r, Reply(r, "apology"))
    BY <1>1, PlacesFit DEF Reply
  <2> QED BY <2>1 DEF Thrown
<1>3. Reply(r, "model") \in Job /\ Reply(r, "model").at = "result"
      /\ Reply(r, "model").route = job[r].route
  <2>1. To(r, "result") \in Job /\ To(r, "result").at = "result"
        /\ To(r, "result").route = job[r].route
    BY <1>1, ToJob DEF IInv, TypeOK, Working
  <2> QED BY <2>1, WithText DEF Reply
<1>4. \A j \in Replied(r) :
        j \in {To(r, "extracted"), To(r, "trim"), Reply(r, "model")}
  <2>1. CASE job[r].task = "memory"
    BY <2>1 DEF Replied
  <2>2. CASE job[r].task # "memory" /\ job[r].feature = "dynamic_prompt"
    BY <2>2 DEF Replied
  <2>3. CASE job[r].task # "memory" /\ job[r].feature # "dynamic_prompt"
    BY <2>3 DEF Replied
  <2> QED BY <2>1, <2>2, <2>3
<1>5. \A label \in {"extracted", "trim"} : Fits(r, To(r, label))
  BY <1>1, PlacesFit
<1>6. IngestOK(Reply(r, "model"), saved[r])
  BY <1>3 DEF IngestOK
<1> QED BY <1>1, <1>2, <1>3, <1>4, <1>5, <1>6 DEF Fits

LEMMA PrepareKeeps ==
  ASSUME IInv, NEW r \in Requests, Working(job[r].at), job[r].route # "chat_ingest", Prepare(r)
  PROVE  IInv'
<1>1. /\ Fits(r, Generate(r, "reply")) /\ Fits(r, To(r, "fail"))
      /\ Fits(r, Reply(r, "apology"))
  BY Workplaces, PlacesFit DEF Generate, Reply
<1> QED BY <1>1, SilentKeeps DEF Prepare

LEMMA HandlersKeep ==
  ASSUME IInv, NEW r \in Requests, HandlerStep(r)
  PROVE  IInv'
<1>1. Working(job[r].at) /\ job[r].route # "chat_ingest"
  <2>1. /\ job[r].at \in {"handle", "refresh", "extracted", "undo", "dossier", "generate", "ask",
                          "switch", "succeed", "model_failed", "exhausted", "validate", "read",
                          "llm_failed", "trim", "fallback"}
    BY DEF HandlerStep, At, Ignore, AnswerChat, CompileDossier, Refresh, RefreshStep, Undo,
           WriteDossier, GenerateStart, Ask, Switch, Succeed, ModelFailed, Exhausted,
           Validate, ReadPrompt, GenerationFailed, TrimReply, Fallback
  <2>2. Working(job[r].at)
    BY <2>1, Workplaces
  <2> QED BY <2>1, <2>2, NotIngest
<1>2. /\ \A label \in {"fail", "fallback", "undo", "dossier", "refresh", "ask", "read", "switch",
                       "succeed", "model_failed", "exhausted", "finish", "generate", "result"} :
           Working(label) /\ Fits(r, To(r, label))
      /\ Fits(r, Thrown(r)) /\ Fits(r, Generate(r, "memory")) /\ Fits(r, Generate(r, "reply"))
      /\ Fits(r, Reply(r, "empty")) /\ Fits(r, Reply(r, "fixed"))
      /\ Fits(r, [To(r, "finish") EXCEPT !.reply = "empty"])
      /\ \A n \in 0..MaxModels : Fits(r, [To(r, "ask") EXCEPT !.left = n])
  BY <1>1, Workplaces, PlacesFit, CallersFit DEF Generate, Reply
<1>3. CASE Ignore(r)
  BY <1>1, <1>2, <1>3, SilentKeeps DEF Ignore
<1>4. CASE AnswerChat(r)
  BY <1>1, <1>4, PrepareKeeps DEF AnswerChat
<1>5. CASE CompileDossier(r)
  BY <1>1, <1>2, <1>5, SilentKeeps DEF CompileDossier
<1>6. CASE Refresh(r)
  BY <1>1, <1>2, <1>6, SilentKeeps, UnguardedFits, StepNames DEF Refresh
<1>7. CASE RefreshStep(r)
  <2>1. CASE Barred(r) /\ Goto(r, To(r, "undo")) /\ UNCHANGED <<status, saved>>
    <3>1. TraceMove(r, "user_memory", To(r, "undo"))
      BY <2>1 DEF TraceMove, Writes
    <3>2. Allowed(r, "user_memory", To(r, "undo"))
      BY <1>1, <1>2, StepNames DEF Allowed, Fits
    <3> QED BY <3>1, <3>2, MoveKeeps
  <2> QED BY <1>1, <1>2, <1>7, <2>1, SilentKeeps DEF RefreshStep
<1>8. CASE Undo(r)
  BY <1>1, <1>2, <1>8, UnguardedFits, StepNames DEF Undo
<1>9. CASE WriteDossier(r)
  BY <1>1, <1>2, <1>9, SilentKeeps, PrepareKeeps DEF WriteDossier
<1>10. CASE GenerateStart(r)
  <2>1. \A n \in 1..MaxModels : n - 1 \in 0..MaxModels
    BY BoundsAssumption
  <2> QED BY <1>1, <1>2, <1>10, <2>1, SilentKeeps, UnguardedFits, StepNames DEF GenerateStart
<1>11. CASE Ask(r)
  BY <1>1, <1>2, <1>11, SilentKeeps DEF Ask
<1>12. CASE Switch(r)
  BY <1>1, <1>2, <1>12, UnguardedFits, StepNames DEF Switch
<1>13. CASE Succeed(r)
  <2>1. PICK j \in Replied(r) : Unguarded(r, "llm.generate.success", j, To(r, "model_failed"))
    BY <1>13 DEF Succeed
  <2>2. j \in Job /\ Working(j.at) /\ j.at # "unopened" /\ IngestOK(j, saved[r])
    BY <1>1, CallersFit
  <2>3. "llm.generate.success" \in LLMSuccess /\ Fits(r, To(r, "model_failed"))
    BY <1>2 DEF LLMSuccess
  <2> QED BY <1>1, <2>1, <2>2, <2>3, UnguardedKeeps, StepNames DEF Fits
<1>14. CASE ModelFailed(r)
  <2>1. Fits(r, NextModel(r))
    <3>1. CASE job[r].left = 0
      BY <1>2, <3>1 DEF NextModel
    <3>2. CASE job[r].left # 0
      <4>1. job[r].left \in 0..MaxModels
        BY DEF IInv, TypeOK, Job
      <4>2. To(r, "ask").left = job[r].left
        BY DEF To, IInv, TypeOK, Job
      <4>4. NextModel(r) = [To(r, "ask") EXCEPT !.left = job[r].left - 1]
        BY <3>2, <4>2 DEF NextModel
      <4>3. job[r].left - 1 \in 0..MaxModels
        BY <3>2, <4>1, BoundsAssumption
      <4> QED BY <1>2, <4>3, <4>4
    <3> QED BY <3>1, <3>2
  <2> QED BY <1>1, <1>2, <1>14, <2>1, UnguardedFits, StepNames DEF ModelFailed, LLMFailure
<1>15. CASE Exhausted(r)
  BY <1>1, <1>2, <1>15, UnguardedFits, StepNames DEF Exhausted, LLMFailure
<1>16. CASE Validate(r)
  BY <1>1, <1>2, <1>16, UnguardedFits, StepNames DEF Validate
<1>17. CASE ReadPrompt(r)
  BY <1>1, <1>2, <1>17, SilentKeeps, UnguardedFits, StepNames DEF ReadPrompt
<1>18. CASE GenerationFailed(r)
  BY <1>1, <1>2, <1>18, UnguardedFits, StepNames DEF GenerationFailed, LLMFailure
<1>19. CASE TrimReply(r)
  <2> DEFINE j == [To(r, "finish") EXCEPT !.reply = "model"]
  <2>1. j \in Job /\ Working(j.at) /\ j.at # "unopened" /\ IngestOK(j, saved[r])
    <3>1. To(r, "finish") \in Job /\ To(r, "finish").at = "finish"
          /\ To(r, "finish").route = job[r].route
      BY <1>2, ToJob DEF IInv, TypeOK, Working
    <3>2. j \in Job /\ j.at = "finish" /\ j.route = job[r].route
      BY <3>1, WithText
    <3> QED BY <1>1, <3>2, Workplaces DEF IngestOK
  <2>2. "dynamic_prompt.llm.success" \in LLMSuccess /\ Fits(r, To(r, "fail"))
    BY <1>2 DEF LLMSuccess
  <2> HIDE DEF j
  <2>3. \/ Silent(r, To(r, "fallback"))
        \/ Unguarded(r, "dynamic_prompt.llm.success", j, To(r, "fail"))
    BY <1>19 DEF TrimReply, j
  <2> QED BY <1>1, <1>2, <2>1, <2>2, <2>3, SilentKeeps, UnguardedKeeps, StepNames DEF Fits
<1>20. CASE Fallback(r)
  BY <1>1, <1>2, <1>20, UnguardedFits, StepNames DEF Fallback
<1> QED BY <1>3, <1>4, <1>5, <1>6, <1>7, <1>8, <1>9, <1>10, <1>11, <1>12, <1>13, <1>14,
           <1>15, <1>16, <1>17, <1>18, <1>19, <1>20 DEF HandlerStep

\* There is a first handler that matches, and it is one of the four.
LEMMA FirstMatchIsHandler ==
  ASSUME NEW matching \in SUBSET {"dossier", "weekly_movies", "chat"}
  PROVE  FirstMatch(matching \cup {"ignored"}) \in {"dossier", "weekly_movies", "chat", "ignored"}
<1> DEFINE Is(i) == /\ i \in 1..4 /\ Handlers[i] \in matching \cup {"ignored"}
                    /\ \A k \in 1..i - 1 : Handlers[k] \notin matching \cup {"ignored"}
<1>1. /\ Len(Handlers) = 4 /\ Handlers[1] = "dossier" /\ Handlers[2] = "weekly_movies"
      /\ Handlers[3] = "chat" /\ Handlers[4] = "ignored"
  BY DEF Handlers
<1>2. \E i \in 1..4 : Is(i)
  <2>1. CASE "dossier" \in matching
    <3>1. Is(1)
      BY <1>1, <2>1
    <3> QED BY <3>1
  <2>2. CASE "dossier" \notin matching /\ "weekly_movies" \in matching
    <3>1. Is(2)
      BY <1>1, <2>2
    <3> QED BY <3>1
  <2>3. CASE "dossier" \notin matching /\ "weekly_movies" \notin matching /\ "chat" \in matching
    <3>1. \A k \in 1..2 : k = 1 \/ k = 2
      OBVIOUS
    <3>2. Is(3)
      BY <1>1, <2>3, <3>1
    <3> QED BY <3>2
  <2>4. CASE matching = {}
    <3>1. \A k \in 1..3 : k = 1 \/ k = 2 \/ k = 3
      OBVIOUS
    <3>2. Is(4)
      BY <1>1, <2>4, <3>1
    <3> QED BY <3>2
  <2> QED BY <2>1, <2>2, <2>3, <2>4
<1>3. FirstMatch(matching \cup {"ignored"}) = Handlers[CHOOSE i \in 1..Len(Handlers) :
             /\ Handlers[i] \in matching \cup {"ignored"}
             /\ \A k \in 1..i - 1 : Handlers[k] \notin matching \cup {"ignored"}]
  BY DEF FirstMatch
<1>4. \A i \in 1..4 : Handlers[i] \in {"dossier", "weekly_movies", "chat", "ignored"}
  <2>1. \A i \in 1..4 : i = 1 \/ i = 2 \/ i = 3 \/ i = 4
    OBVIOUS
  <2> QED BY <1>1, <2>1
<1> QED BY <1>1, <1>2, <1>3, <1>4

\* The steps of the routes and the router that are trace writes or read nothing.
LEMMA RoutesKeep ==
  ASSUME IInv, NEW r \in Requests,
         \/ Unopened(r) \/ Opened(r) \/ Finish(r) \/ Fail(r)
         \/ SaveStart(r) \/ Saved(r) \/ Select(r) \/ Result(r)
  PROVE  IInv'
<1>1. /\ job[r] \in Job /\ saved[r] \in BOOLEAN /\ Working(job[r].at)
  <2>1. job[r].at \in {"unopened", "opened", "finish", "fail", "ingest", "saved", "select", "result"}
    BY DEF At, Unopened, Opened, Finish, Fail, SaveStart, Saved, Select, Result
  <2> QED BY <2>1, Workplaces DEF IInv, TypeOK
<1>2. IngestOK(job[r], saved[r])
  BY DEF IInv
<1>3. \A label \in {"validate", "ingest", "close", "abort", "save", "fail", "finish"} :
        Working(label) /\ label \in Labels /\ label # "unopened"
  BY Workplaces DEF Working
<1>4. CASE Opened(r)
  <2> DEFINE j == To(r, IF job[r].route = "dynamic_prompt" THEN "validate" ELSE "ingest")
  <2>1. Fits(r, j)
    BY <1>1, <1>2, <1>3, <1>4, ToJob DEF Opened, At, Fits, IngestOK
  <2> QED BY <1>1, <1>4, <2>1, GuardedKeeps, StepNames DEF Opened
<1>5. CASE Finish(r)
  <2>1. Fits(r, To(r, "close"))
    BY <1>1, <1>2, <1>3, <1>5, ToJob DEF Finish, At, Fits, IngestOK
  <2>2. ~Wrapped(r) => Fits(r, To(r, "fail"))
    BY <1>1, <1>3, ToJob DEF Wrapped, Fits, IngestOK
  <2> QED BY <1>1, <1>5, <2>1, <2>2, GuardedKeeps, UnguardedFits, StepNames DEF Finish
<1>6. CASE Fail(r)
  <2>1. Fits(r, To(r, "abort"))
    BY <1>1, <1>2, <1>3, <1>6, ToJob DEF Fail, At, Fits, IngestOK
  <2>2. /\ To(r, "error") \in Job /\ To(r, "error").at = "error"
        /\ To(r, "error").reply = job[r].reply
        /\ ~Wrapped(r) => IngestOK(To(r, "error"), saved[r])
    BY <1>1, ToJob DEF Labels, Ended, Wrapped, IngestOK
  <2> QED BY <1>1, <1>6, <2>1, <2>2, GuardedKeeps, UnguardedKeeps, StepNames DEF Fail, Fits
<1>7. CASE SaveStart(r)
  <2>1. Fits(r, To(r, "save")) /\ Fits(r, To(r, "fail"))
    BY <1>1, <1>2, <1>3, <1>7, ToJob DEF SaveStart, At, Fits, IngestOK
  <2> QED BY <1>1, <1>7, <2>1, UnguardedFits, StepNames DEF SaveStart
<1>8. CASE Saved(r)
  <2>1. \A j \in AfterSave(r) : Fits(r, j)
    <3>1. CASE job[r].route = "chat_ingest"
      <4>1. Fits(r, To(r, "finish"))
        BY <1>1, <1>2, <1>3, <1>8, ToJob DEF Saved, At, Fits, IngestOK
      <4> QED BY <3>1, <4>1 DEF AfterSave
    <3>2. CASE job[r].route # "chat_ingest"
      BY <3>2, Workplaces, PlacesFit DEF AfterSave
    <3> QED BY <3>1, <3>2
  <2> QED BY <1>1, <1>8, <2>1, GuardedKeeps, StepNames DEF Saved
<1>9. CASE Select(r)
  <2>1. job[r].route # "chat_ingest"
    BY <1>1, <1>9, NotIngest DEF Select, At
  <2>2. PICK matching \in SUBSET {"dossier", "weekly_movies", "chat"} :
          Unguarded(r, "feature",
                    [To(r, "handle") EXCEPT !.feature = FirstMatch(matching \cup {"ignored"})],
                    To(r, "fail"))
    BY <1>9 DEF Select
  <2>3. FirstMatch(matching \cup {"ignored"}) \in {"dossier", "weekly_movies", "chat", "ignored"}
    BY FirstMatchIsHandler
  <2> QED BY <1>1, <2>1, <2>2, <2>3, Workplaces, PlacesFit, UnguardedFits, StepNames
<1>10. CASE Result(r)
  <2>1. job[r].route # "chat_ingest"
    BY <1>1, <1>10, NotIngest DEF Result, At
  <2> QED BY <1>1, <1>10, <2>1, Workplaces, PlacesFit, UnguardedFits, SilentKeeps, StepNames
          DEF Result
<1>11. CASE Unopened(r)
  <2>1. TraceMove(r, "request", To(r, "error"))
    BY <1>11 DEF Unopened, Silent, TraceMove, Writes
  <2>2. /\ To(r, "error") \in Job /\ To(r, "error").at = "error"
        /\ To(r, "error").reply = job[r].reply /\ To(r, "error").route = job[r].route
    BY <1>1, ToJob DEF Labels, Ended
  <2>3. job[r].route # "chat_ingest"
    BY <1>1, <1>11, NotIngest DEF Unopened, At
  <2>4. Allowed(r, "request", To(r, "error"))
    BY <1>1, <1>11, <2>2, <2>3, StepNames DEF Allowed, IngestOK, Unopened
  <2> QED BY <2>1, <2>4, MoveKeeps
<1> QED BY <1>4, <1>5, <1>6, <1>7, <1>8, <1>9, <1>10, <1>11

\* The start of a request.
LEMMA BeginKeeps ==
  ASSUME IInv, NEW r \in Requests, NEW route \in Routes, Begin(r, route)
  PROVE  IInv'
<1> DEFINE e == Entered(r, route)
<1> USE BoundsAssumption
<1>1. job[r] = NoJob /\ status[r] = "none" /\ ~trace[r].on /\ ~saved[r] /\ At(r, "idle")
  BY DEF IInv, LifeOK, Begin
<1>2. /\ e \in Job /\ e.route = route /\ e.reply = "none"
      /\ e.at \in {"handle", "opened"} /\ (route = "chat_ingest" => e.at = "opened")
  <2>1. "handle" \in Labels /\ "opened" \in Labels
    BY DEF Labels
  <2>2. job[r] \in Job /\ job[r].reply = "none"
    BY <1>1 DEF IInv, TypeOK, NoJob
  <2>3. CASE route = "dossier_run"
    BY <2>1, <2>2, <2>3 DEF Entered, Job
  <2>4. CASE route = "dynamic_prompt"
    BY <2>1, <2>2, <2>4 DEF Entered, Job
  <2>5. CASE route # "dossier_run" /\ route # "dynamic_prompt"
    BY <2>1, <2>2, <2>5 DEF Entered, Job, Routes
  <2> QED BY <2>3, <2>4, <2>5
<1> HIDE DEF e
<1>3. Working(e.at) /\ IngestOK(e, saved[r])
  BY <1>1, <1>2, Workplaces DEF IngestOK
<1>4. CASE /\ status' = [status EXCEPT ![r] = "running"]
           /\ trace' = [trace EXCEPT ![r].on = TRUE]
           /\ Goto(r, e) /\ UNCHANGED <<lost, events, saved>>
  <2>1. /\ trace' \in [Requests -> [on : BOOLEAN, seq : Nat]] /\ trace'[r].on
        /\ \A q \in Requests \ {r} : trace'[q] = trace[q]
    <3>1. trace[r] \in [on : BOOLEAN, seq : Nat] /\ trace \in [Requests -> [on : BOOLEAN, seq : Nat]]
      BY DEF IInv, TypeOK
    <3>2. [trace[r] EXCEPT !.on = TRUE] \in [on : BOOLEAN, seq : Nat] /\ [trace[r] EXCEPT !.on = TRUE].on
      BY <3>1
    <3>3. trace' = [trace EXCEPT ![r] = [trace[r] EXCEPT !.on = TRUE]]
      BY <1>4
    <3> QED BY <3>1, <3>2, <3>3
  <2>2. /\ job' \in [Requests -> Job] /\ job'[r] = e
        /\ \A q \in Requests \ {r} : job'[q] = job[q]
    BY <1>2, <1>4 DEF IInv, TypeOK, Goto
  <2>3. /\ status' \in [Requests -> {"none", "running", "success", "degraded", "failed"}]
        /\ status'[r] = "running" /\ \A q \in Requests \ {r} : status'[q] = status[q]
    BY <1>4 DEF IInv, TypeOK
  <2>4. TypeOK'
    BY <1>4, <2>1, <2>2, <2>3 DEF IInv, TypeOK
  <2>5. \A q \in Requests \ {r} : LifeOK(q)' /\ IngestOK(job[q], saved[q])' /\ ReplyOK(q)'
    BY <1>4, <2>1, <2>2, <2>3 DEF IInv, LifeOK, At, IngestOK, ReplyOK
  <2>6. LifeOK(r)' /\ IngestOK(job[r], saved[r])' /\ ReplyOK(r)'
    BY <1>2, <1>3, <1>4, <2>1, <2>2, <2>3 DEF LifeOK, At, IngestOK, ReplyOK
  <2> QED BY <2>4, <2>5, <2>6 DEF IInv
<1>5. ASSUME NEW left \in {"none", "running"},
             lost[r] < MaxLost, lost' = [lost EXCEPT ![r] = @ + 1],
             status' = [status EXCEPT ![r] = left],
             Goto(r, IF route = "dossier_run" THEN To(r, "unopened") ELSE e),
             UNCHANGED <<trace, events, saved>>
      PROVE  IInv'
  <2> DEFINE j == IF route = "dossier_run" THEN To(r, "unopened") ELSE e
  <2>1. j \in Job /\ j.reply = "none" /\ IngestOK(j, saved[r]) /\ Working(j.at)
    <3>1. /\ To(r, "unopened") \in Job /\ To(r, "unopened").at = "unopened"
          /\ To(r, "unopened").reply = "none" /\ To(r, "unopened").route = "none"
      BY <1>1, ToJob DEF IInv, TypeOK, Labels, NoJob
    <3> QED BY <1>2, <1>3, <3>1, Workplaces DEF IngestOK
  <2> HIDE DEF j
  <2>2. /\ lost' \in [Requests -> 0..MaxLost] /\ lost'[r] > 0
        /\ \A q \in Requests \ {r} : lost'[q] = lost[q]
    BY <1>5 DEF IInv, TypeOK
  <2>3. /\ job' \in [Requests -> Job] /\ job'[r] = j
        /\ \A q \in Requests \ {r} : job'[q] = job[q]
    BY <1>5, <2>1 DEF IInv, TypeOK, Goto, j
  <2>4. /\ status' \in [Requests -> {"none", "running", "success", "degraded", "failed"}]
        /\ status'[r] = left /\ \A q \in Requests \ {r} : status'[q] = status[q]
    BY <1>5 DEF IInv, TypeOK
  <2>5. trace' = trace /\ ~trace[r].on /\ events' = events /\ saved' = saved
    BY <1>1, <1>5
  <2>6. TypeOK'
    <3>1. \A q \in Requests : trace'[q].on => status'[q] = "running"
      BY <2>4, <2>5 DEF IInv, TypeOK
    <3> QED BY <2>2, <2>3, <2>4, <2>5, <3>1 DEF IInv, TypeOK
  <2>7. \A q \in Requests \ {r} : LifeOK(q)' /\ IngestOK(job[q], saved[q])' /\ ReplyOK(q)'
    BY <2>2, <2>3, <2>4, <2>5 DEF IInv, LifeOK, At, IngestOK, ReplyOK
  <2>8. LifeOK(r)' /\ IngestOK(job[r], saved[r])' /\ ReplyOK(r)'
    BY <1>5, <2>1, <2>2, <2>3, <2>4, <2>5 DEF LifeOK, At, IngestOK, ReplyOK, Working, Ended
  <2> QED BY <2>6, <2>7, <2>8 DEF IInv
<1> QED BY <1>4, <1>5 DEF Begin, e

\* The message is stored, or the database refuses.
LEMMA SaveKeeps ==
  ASSUME IInv, NEW r \in Requests, Save(r)
  PROVE  IInv'
<1>1. /\ job[r] \in Job /\ IngestOK(job[r], saved[r]) /\ At(r, "save") /\ Working("save")
      /\ Working("saved") /\ Working("fail")
  BY Workplaces DEF IInv, TypeOK, Save
<1>2. \A label \in {"saved", "fail"} : /\ To(r, label) \in Job /\ To(r, label).at = label
                                       /\ To(r, label).route = job[r].route
                                       /\ To(r, label).reply = job[r].reply
  BY <1>1, ToJob DEF Working
<1>3. CASE Goto(r, To(r, "fail")) /\ UNCHANGED saved
  <2>1. Silent(r, To(r, "fail"))
    BY <1>3 DEF Silent, Save
  <2>2. Fits(r, To(r, "fail"))
    BY <1>1, <1>2 DEF Fits, IngestOK, At
  <2> QED BY <1>1, <2>1, <2>2, SilentKeeps DEF At
<1>4. CASE Goto(r, To(r, "saved")) /\ saved' = [saved EXCEPT ![r] = TRUE]
  <2>1. /\ job' \in [Requests -> Job] /\ job'[r] = To(r, "saved")
        /\ \A q \in Requests \ {r} : job'[q] = job[q] /\ saved'[q] = saved[q]
        /\ saved' \in [Requests -> BOOLEAN] /\ saved'[r]
    BY <1>2, <1>4 DEF IInv, TypeOK, Goto
  <2>2. status' = status /\ events' = events /\ lost' = lost /\ trace' = trace
    BY DEF Save
  <2>3. TypeOK'
    BY <2>1, <2>2 DEF IInv, TypeOK
  <2>4. \A q \in Requests \ {r} : LifeOK(q)' /\ IngestOK(job[q], saved[q])' /\ ReplyOK(q)'
    BY <2>1, <2>2 DEF IInv, LifeOK, At, IngestOK, ReplyOK
  <2>5. LifeOK(r)'
    BY <1>1, <1>2, <2>1, <2>2 DEF IInv, LifeOK, At
  <2>6. IngestOK(job[r], saved[r])' /\ ReplyOK(r)'
    BY <1>2, <2>1, <2>2 DEF IInv, IngestOK, ReplyOK
  <2> QED BY <2>3, <2>4, <2>5, <2>6 DEF IInv
<1> QED BY <1>3, <1>4 DEF Save

\* The run is closed, or never was one, and the request is answered.
LEMMA CloseRunKeeps ==
  ASSUME IInv, NEW r \in Requests, Working(job[r].at), NEW verdict, NEW label,
         CloseRun(r, verdict, label), IngestOK(To(r, label), saved[r]),
         \/ label = "ok" /\ verdict \in {"success", "degraded"}
         \/ label = "error" /\ verdict = "failed",
         verdict = "degraded" => ~HasSuccess(events[r])
  PROVE  IInv'
<1>1. /\ LifeOK(r) /\ ReplyOK(r) /\ job[r] \in Job
      /\ lost[r] \in Nat /\ saved[r] \in BOOLEAN
  BY BoundsAssumption DEF IInv, TypeOK
<1>2. /\ To(r, label) \in Job /\ To(r, label).at = label
      /\ To(r, label).reply = job[r].reply
  BY <1>1, ToJob DEF Labels, Ended
<1>3. /\ job' \in [Requests -> Job] /\ job'[r] = To(r, label)
      /\ \A q \in Requests \ {r} : job'[q] = job[q]
  BY <1>2 DEF IInv, TypeOK, CloseRun, Goto
<1>4. /\ trace' \in [Requests -> [on : BOOLEAN, seq : Nat]] /\ ~trace'[r].on
      /\ \A q \in Requests \ {r} : trace'[q] = trace[q]
  <2>1. trace[r] \in [on : BOOLEAN, seq : Nat] /\ trace \in [Requests -> [on : BOOLEAN, seq : Nat]]
    BY DEF IInv, TypeOK
  <2>2. /\ [trace[r] EXCEPT !.on = FALSE] \in [on : BOOLEAN, seq : Nat]
        /\ ~[trace[r] EXCEPT !.on = FALSE].on
    BY <2>1
  <2>3. trace' = [trace EXCEPT ![r] = [trace[r] EXCEPT !.on = FALSE]]
    BY DEF CloseRun
  <2> QED BY <2>1, <2>2, <2>3
<1>5. /\ status'[r] = IF trace[r].on THEN verdict ELSE status[r]
      /\ \A q \in Requests \ {r} : status'[q] = status[q]
      /\ status' \in [Requests -> {"none", "running", "success", "degraded", "failed"}]
  BY DEF IInv, TypeOK, CloseRun
<1>6. events' = events /\ lost' = lost /\ saved' = saved
  BY DEF CloseRun
<1>7. TypeOK'
  BY <1>3, <1>4, <1>5, <1>6 DEF IInv, TypeOK
<1>8. \A q \in Requests \ {r} : LifeOK(q)' /\ IngestOK(job[q], saved[q])' /\ ReplyOK(q)'
  BY <1>3, <1>4, <1>5, <1>6 DEF IInv, LifeOK, At, IngestOK, ReplyOK
<1>9. LifeOK(r)'
  <2>1. status'[r] = verdict \/ (status'[r] \in {"none", "running"} /\ lost'[r] > 0)
    BY <1>1, <1>5, <1>6 DEF LifeOK
  <2>2. job'[r].at = label /\ label \in {"ok", "error"}
    BY <1>2, <1>3
  <2>3. ~Working(label) /\ label # "idle"
    BY <2>2 DEF Working, Ended
  <2>4. CASE label = "ok"
    <3>1. verdict \in {"success", "degraded"}
      BY <2>4
    <3> QED BY <2>1, <2>2, <2>3, <2>4, <3>1 DEF LifeOK, At
  <2>5. CASE label = "error"
    <3>1. verdict = "failed"
      BY <2>5
    <3> QED BY <2>1, <2>2, <2>3, <2>5, <3>1 DEF LifeOK, At
  <2> QED BY <2>2, <2>4, <2>5
<1>10. IngestOK(job[r], saved[r])'
  BY <1>3, <1>6
<1>11. ReplyOK(r)'
  <2>1. status[r] \in {"none", "running"}
    BY <1>1 DEF LifeOK
  <2> QED BY <1>1, <1>2, <1>3, <1>4, <1>5, <2>1 DEF ReplyOK
<1> QED BY <1>7, <1>8, <1>9, <1>10, <1>11 DEF IInv

LEMMA LoseVerdictKeeps ==
  ASSUME IInv, NEW r \in Requests, Working(job[r].at), NEW label \in {"ok", "error", "fail"},
         LoseVerdict(r, label), IngestOK(To(r, label), saved[r])
  PROVE  IInv'
<1> USE BoundsAssumption
<1>1. LifeOK(r) /\ ReplyOK(r) /\ job[r] \in Job /\ lost[r] \in Nat
  BY DEF IInv, TypeOK
<1>2. /\ To(r, label) \in Job /\ To(r, label).at = label
      /\ To(r, label).reply = job[r].reply
  BY <1>1, ToJob DEF Labels, Ended
<1>3. /\ job' \in [Requests -> Job] /\ job'[r] = To(r, label)
      /\ \A q \in Requests \ {r} : job'[q] = job[q]
  BY <1>2 DEF IInv, TypeOK, LoseVerdict, Goto
<1>4. /\ lost' \in [Requests -> 0..MaxLost] /\ lost'[r] > 0
      /\ \A q \in Requests \ {r} : lost'[q] = lost[q]
  BY DEF IInv, TypeOK, LoseVerdict
<1>5. /\ status' = status /\ events' = events /\ saved' = saved /\ trace' = trace
      /\ trace[r].on
  BY DEF LoseVerdict
<1>6. TypeOK'
  BY <1>3, <1>4, <1>5 DEF IInv, TypeOK
<1>7. \A q \in Requests \ {r} : LifeOK(q)' /\ IngestOK(job[q], saved[q])' /\ ReplyOK(q)'
  BY <1>3, <1>4, <1>5 DEF IInv, LifeOK, At, IngestOK, ReplyOK
<1>8. LifeOK(r)'
  BY <1>1, <1>2, <1>3, <1>4, <1>5 DEF LifeOK, At, Working, Ended
<1>9. IngestOK(job[r], saved[r])' /\ ReplyOK(r)'
  BY <1>1, <1>2, <1>3, <1>5 DEF ReplyOK
<1> QED BY <1>6, <1>7, <1>8, <1>9 DEF IInv

\* The two ends of a request.
LEMMA EndsKeep ==
  ASSUME IInv, NEW r \in Requests, Close(r) \/ Abort(r)
  PROVE  IInv'
<1>1. /\ job[r] \in Job /\ IngestOK(job[r], saved[r])
      /\ Working("close") /\ Working("abort") /\ Working("fail")
  BY Workplaces DEF IInv, TypeOK
<1>2. \A label \in {"ok", "error", "fail"} : /\ To(r, label).at = label
                                             /\ To(r, label).route = job[r].route
  BY <1>1, ToJob DEF Labels, Ended
<1>3. CASE Close(r)
  <2> DEFINE v == DerivedStatus(job[r].route, events[r])
  <2>1. v \in {"success", "degraded"} /\ (v = "degraded" => ~HasSuccess(events[r]))
    BY DEF DerivedStatus, HasSuccess
  <2> HIDE DEF v
  <2>2. IngestOK(To(r, "ok"), saved[r]) /\ Working(job[r].at)
    BY <1>1, <1>2, <1>3 DEF Close, At, IngestOK
  <2>3. ~Wrapped(r) => IngestOK(To(r, "fail"), saved[r])
    BY <1>2 DEF Wrapped, IngestOK
  <2>4. CloseRun(r, v, "ok") \/ LoseVerdict(r, IF Wrapped(r) THEN "ok" ELSE "fail")
    BY <1>3 DEF Close, v
  <2>5. CASE CloseRun(r, v, "ok")
    BY <2>1, <2>2, <2>5, CloseRunKeeps
  <2>6. CASE LoseVerdict(r, IF Wrapped(r) THEN "ok" ELSE "fail")
    BY <2>2, <2>3, <2>6, LoseVerdictKeeps
  <2> QED BY <2>4, <2>5, <2>6
<1>4. CASE Abort(r)
  <2>1. IngestOK(To(r, "error"), saved[r]) /\ Working(job[r].at)
    BY <1>1, <1>2, <1>4 DEF Abort, At, IngestOK
  <2> QED BY <1>4, <2>1, CloseRunKeeps, LoseVerdictKeeps DEF Abort
<1> QED BY <1>3, <1>4

LEMMA CrashKeeps ==
  ASSUME IInv, Crash
  PROVE  IInv'
<1>1. \A r \in Requests :
        /\ job[r] \in Job /\ To(r, "crashed") \in Job /\ To(r, "crashed").at = "crashed"
        /\ To(r, "crashed").reply = job[r].reply
  BY ToJob DEF IInv, TypeOK, Labels, Ended
<1>2. /\ job' \in [Requests -> Job]
      /\ \A r \in Requests : job'[r] = IF job[r].at \in Ended \cup {"idle"} THEN job[r]
                                                                      ELSE To(r, "crashed")
  BY <1>1 DEF Crash
<1>3. /\ trace' \in [Requests -> [on : BOOLEAN, seq : Nat]]
      /\ \A r \in Requests : ~trace'[r].on
  <2>1. \A r \in Requests : /\ [trace[r] EXCEPT !.on = FALSE] \in [on : BOOLEAN, seq : Nat]
                            /\ ~[trace[r] EXCEPT !.on = FALSE].on
    BY DEF IInv, TypeOK
  <2>2. trace' = [r \in Requests |-> [trace[r] EXCEPT !.on = FALSE]]
    BY DEF Crash
  <2> QED BY <2>1, <2>2
<1>4. status' = status /\ events' = events /\ lost' = lost /\ saved' = saved
  BY DEF Crash
<1>5. TypeOK'
  BY <1>2, <1>3, <1>4 DEF IInv, TypeOK
<1>6. ASSUME NEW r \in Requests
      PROVE  LifeOK(r)' /\ IngestOK(job[r], saved[r])' /\ ReplyOK(r)'
  <2>1. LifeOK(r) /\ IngestOK(job[r], saved[r]) /\ ReplyOK(r)
    BY DEF IInv
  <2>2. CASE job[r].at \in Ended \cup {"idle"}
    <3>1. job'[r] = job[r] /\ ~trace'[r].on
      BY <1>2, <1>3, <2>2
    <3> QED BY <1>4, <2>1, <2>2, <3>1 DEF LifeOK, At, IngestOK, ReplyOK, Working
  <2>3. CASE job[r].at \notin Ended \cup {"idle"}
    <3>1. job'[r] = To(r, "crashed") /\ ~trace'[r].on
      BY <1>2, <1>3, <2>3
    <3> QED BY <1>1, <1>4, <2>1, <3>1 DEF LifeOK, At, IngestOK, ReplyOK, Working, Ended
  <2> QED BY <2>2, <2>3
<1> QED BY <1>5, <1>6 DEF IInv
-----------------------------------------------------------------------------
(* The theorems.                                                           *)

LEMMA InitOK == Init => IInv
<1> SUFFICES ASSUME Init PROVE IInv
  OBVIOUS
<1>1. NoJob \in Job /\ NoJob.at = "idle" /\ NoJob.route = "none" /\ NoJob.reply = "none"
  BY BoundsAssumption DEF NoJob, Job, Labels
<1>2. TypeOK
  BY <1>1, BoundsAssumption DEF Init, TypeOK
<1>3. \A r \in Requests : LifeOK(r) /\ IngestOK(job[r], saved[r]) /\ ReplyOK(r)
  BY <1>1 DEF Init, LifeOK, At, IngestOK, ReplyOK, Working, Ended
<1> QED BY <1>2, <1>3 DEF IInv

LEMMA NextKeeps == IInv /\ [Next]_vars => IInv'
<1> SUFFICES ASSUME IInv, [Next]_vars PROVE IInv'
  OBVIOUS
<1>1. ASSUME NEW r \in Requests, RouteStep(r) PROVE IInv'
  BY <1>1, BeginKeeps, RoutesKeep, EndsKeep, SaveKeeps DEF RouteStep
<1>2. ASSUME NEW r \in Requests, HandlerStep(r) PROVE IInv'
  BY <1>2, HandlersKeep
<1>3. CASE Crash
  BY <1>3, CrashKeeps
<1>4. CASE UNCHANGED vars
  BY <1>4 DEF vars, IInv, TypeOK, LifeOK, At, IngestOK, ReplyOK
<1> QED BY <1>1, <1>2, <1>3, <1>4 DEF Next, Step

\* The inductive invariant holds in every reachable state.
THEOREM Invariance == Spec => []IInv
BY InitOK, NextKeeps, PTL DEF Spec

\* Every variable keeps its type, and a context that still has a trace belongs to a
\* run that is still running, however many requests there are.
THEOREM TypeCorrect == Spec => []TypeOK
<1>1. IInv => TypeOK
  BY DEF IInv
<1> QED BY <1>1, Invariance, PTL

\* The response to a chat_ingest says whether its message is stored, wherever the
\* trace or the database fails.
THEOREM ResponsesAreTrue == Spec => []ResponseTellsIfSaved
<1>1. IInv => ResponseTellsIfSaved
  BY DEF IInv, IngestOK, ResponseTellsIfSaved, At
<1> QED BY <1>1, Invariance, PTL

\* A degraded run never hides a model's text, however many models are asked and
\* however often.
THEOREM DegradedIsHonest == Spec => []DegradedMeansNoModelText
<1>1. IInv => DegradedMeansNoModelText
  BY DEF IInv, ReplyOK, DegradedMeansNoModelText
<1> QED BY <1>1, Invariance, PTL

\* An answered request without a closed run has lost a write of its trace.
THEOREM OpenRunsAreExplained == Spec => []OpenRunsLostAWrite
<1>1. IInv => OpenRunsLostAWrite
  BY DEF IInv, LifeOK, At, OpenRunsLostAWrite
<1> QED BY <1>1, Invariance, PTL
-----------------------------------------------------------------------------
(* Runs and responses keep the promise of TraceRun.                        *)

Answer(r) == Response(job[r].at)

LEMMA Answers ==
  /\ \A label : Working(label) => Response(label) = "pending"
  /\ Response("idle") = "pending" /\ Response("crashed") = "lost"
  /\ Response("ok") = "ok" /\ Response("error") = "error"
BY DEF Response, Working, Ended

\* Nobody's answer changes but that of r.
LEMMA OneAnswer ==
  ASSUME IInv, NEW r \in Requests, NEW j, Goto(r, j)
  PROVE  [q \in Requests |-> Response(job'[q].at)]
           = [[q \in Requests |-> Response(job[q].at)] EXCEPT ![r] = Response(j.at)]
<1>1. \A q \in Requests : job'[q] = IF q = r THEN j ELSE job[q]
  BY DEF Goto, IInv, TypeOK
<1> QED BY <1>1

\* A step to another place of work changes neither.
LEMMA WorkIsSilent ==
  ASSUME IInv, NEW r \in Requests, NEW j, Goto(r, j), UNCHANGED status,
         Response(job[r].at) = "pending", Response(j.at) = "pending"
  PROVE  UNCHANGED Promise!vars
<1>1. [q \in Requests |-> Response(job'[q].at)] = [q \in Requests |-> Response(job[q].at)]
  BY OneAnswer
<1> QED BY <1>1 DEF Promise!vars

LEMMA ErrorResponds ==
  ASSUME IInv, NEW r \in Requests, NEW j, Goto(r, j), UNCHANGED status,
         Response(job[r].at) = "pending", j.at \in {"ok", "error"}
  PROVE  Promise!Next
<1>1. [q \in Requests |-> Response(job'[q].at)]
        = [[q \in Requests |-> Response(job[q].at)] EXCEPT ![r] = j.at]
  BY OneAnswer, Answers
<1>2. Promise!Respond(r, j.at)
  BY <1>1 DEF Promise!Respond
<1> QED BY <1>2 DEF Promise!Next

\* Any step of a request that is not answered yet, which leaves the runs alone.
LEMMA MoveRefines ==
  ASSUME IInv, NEW r \in Requests, NEW j, Goto(r, j), UNCHANGED status,
         job[r].at \notin Ended
  PROVE  [Promise!Next]_(Promise!vars)
<1>1. Response(job[r].at) = "pending"
  BY DEF Response, Ended
<1>2. CASE j.at \in {"ok", "error"}
  BY <1>1, <1>2, ErrorResponds
<1>3. CASE j.at = "crashed"
  <2> DEFINE old == [q \in Requests |-> Response(job[q].at)]
             new == [q \in Requests |-> Response(job'[q].at)]
  <2>1. new = [old EXCEPT ![r] = "lost"]
    BY <1>3, OneAnswer, Answers
  <2>2. new = [q \in Requests |-> IF q \in {r} THEN "lost" ELSE old[q]]
    BY <2>1
  <2>3. {r} \in SUBSET {q \in Requests : old[q] = "pending"}
    BY <1>1
  <2> HIDE DEF old, new
  <2>4. Promise!Stop
    BY <2>2, <2>3 DEF Promise!Stop, old, new
  <2> QED BY <2>4 DEF Promise!Next
<1>4. CASE j.at \notin Ended
  <2>1. Response(j.at) = "pending"
    BY <1>4 DEF Response, Ended
  <2> QED BY <1>1, <2>1, WorkIsSilent
<1> QED BY <1>2, <1>3, <1>4 DEF Ended

\* The steps between the start and the end of a request are such steps.
Moves(r) == UNCHANGED status /\ job[r].at \notin Ended /\ \E j : Goto(r, j)

LEMMA WorkMoves ==
  ASSUME NEW r \in Requests,
         \/ HandlerStep(r)
         \/ Unopened(r) \/ Opened(r) \/ Finish(r) \/ Fail(r)
         \/ SaveStart(r) \/ Save(r) \/ Saved(r) \/ Select(r) \/ Result(r)
  PROVE  Moves(r)
<1>1. job[r].at \notin Ended
  BY DEF Ended, At, HandlerStep, Ignore, AnswerChat, CompileDossier, Refresh, RefreshStep,
         Undo, WriteDossier, GenerateStart, Ask, Switch, Succeed, ModelFailed,
         Exhausted, Validate, ReadPrompt, GenerationFailed, TrimReply, Fallback,
         Unopened, Opened, Finish, Fail, SaveStart, Save, Saved, Select, Result
<1>2. \A step, j, h : Unguarded(r, step, j, h) \/ Guarded(r, step, j) \/ Silent(r, j) =>
        UNCHANGED status /\ \E k : Goto(r, k)
  BY DEF Unguarded, Guarded, Silent
<1>3. CASE HandlerStep(r)
  <2>1. UNCHANGED status /\ \E j : Goto(r, j)
    BY <1>2, <1>3 DEF HandlerStep, Ignore, AnswerChat, CompileDossier, Prepare, Refresh, RefreshStep,
           Undo, WriteDossier, GenerateStart, Ask, Switch, Succeed, ModelFailed, Exhausted,
           Validate, ReadPrompt, GenerationFailed, TrimReply, Fallback
  <2> QED BY <1>1, <2>1 DEF Moves
<1>4. CASE \/ Unopened(r) \/ Opened(r) \/ Finish(r) \/ Fail(r)
           \/ SaveStart(r) \/ Save(r) \/ Saved(r) \/ Select(r) \/ Result(r)
  <2>1. UNCHANGED status /\ \E j : Goto(r, j)
    BY <1>2, <1>4 DEF Unopened, Opened, Finish, Fail, SaveStart, Save, Saved, Select, Result
  <2> QED BY <1>1, <2>1 DEF Moves
<1> QED BY <1>3, <1>4

LEMMA StepRefines ==
  ASSUME IInv, NEW r \in Requests, Step(r)
  PROVE  [Promise!Next]_(Promise!vars)
<1>1. job[r] \in Job /\ LifeOK(r) /\ status \in [Requests -> {"none", "running", "success", "degraded", "failed"}]
  BY DEF IInv, TypeOK
<1>2. \A label \in Labels : To(r, label).at = label
  BY <1>1, ToJob
<1>3. ASSUME NEW route \in Routes, Begin(r, route) PROVE [Promise!Next]_(Promise!vars)
  <2>1. job[r].at = "idle" /\ status[r] = "none"
    BY <1>1, <1>3 DEF Begin, At, LifeOK
  <2>2. Response(Entered(r, route).at) = "pending"
    <3>1. Entered(r, route).at \in {"handle", "opened"}
      BY <1>1 DEF Entered, Job
    <3> QED BY <3>1, Answers, Workplaces
  <2>3. ASSUME status' = [status EXCEPT ![r] = "running"], NEW j, Goto(r, j),
               Response(j.at) = "pending"
        PROVE  [Promise!Next]_(Promise!vars)
    <3>1. \A q \in Requests : job'[q] = IF q = r THEN j ELSE job[q]
      BY <2>3 DEF Goto, IInv, TypeOK
    <3>2. \A q \in Requests : Response(job'[q].at) = Response(job[q].at)
      BY <2>1, <2>3, <3>1, Answers
    <3>3. [q \in Requests |-> Response(job'[q].at)] = [q \in Requests |-> Response(job[q].at)]
      BY <3>2
    <3>4. Promise!Open(r)
      BY <2>1, <2>3, <3>3, Answers DEF Promise!Open
    <3> QED BY <3>4 DEF Promise!Next
  <2>4. ASSUME status' = [status EXCEPT ![r] = "none"], NEW j, Goto(r, j),
               Response(j.at) = "pending"
        PROVE  [Promise!Next]_(Promise!vars)
    <3>1. status' = status
      BY <1>1, <2>1, <2>4
    <3> QED BY <2>1, <2>4, <3>1, Answers, WorkIsSilent
  <2>5. Response(To(r, "unopened").at) = "pending"
    BY <1>2, Answers, Workplaces DEF Labels
  <2> QED BY <1>3, <2>2, <2>3, <2>4, <2>5 DEF Begin
<1>4. ASSUME Close(r) \/ Abort(r) PROVE [Promise!Next]_(Promise!vars)
  <2>1. Response(job[r].at) = "pending" /\ status[r] \in {"none", "running"}
        /\ (trace[r].on => status[r] = "running")
    BY <1>1, <1>4, Answers, Workplaces DEF Close, Abort, At, LifeOK
  <2>2. ASSUME NEW label \in {"ok", "error"}, NEW verdict \in Promise!Verdicts(label),
               CloseRun(r, verdict, label)
        PROVE  Promise!Respond(r, label)
    <3>1. To(r, label).at = label
      BY <1>2 DEF Labels, Ended
    <3>2. [q \in Requests |-> Response(job'[q].at)]
            = [[q \in Requests |-> Response(job[q].at)] EXCEPT ![r] = label]
      BY <2>2, <3>1, OneAnswer, Answers DEF CloseRun
    <3>3. CASE trace[r].on
      <4>1. status' = [status EXCEPT ![r] = verdict] /\ status[r] = "running"
        BY <2>1, <2>2, <3>3 DEF CloseRun
      <4> QED BY <2>1, <3>2, <4>1 DEF Promise!Respond
    <3>4. CASE ~trace[r].on
      <4>1. status' = status
        BY <1>1, <2>2, <3>4 DEF CloseRun
      <4> QED BY <2>1, <3>2, <4>1 DEF Promise!Respond
    <3> QED BY <3>3, <3>4
  <2>3. ASSUME NEW label \in {"ok", "error", "fail"}, LoseVerdict(r, label)
        PROVE  [Promise!Next]_(Promise!vars)
    <3>1. To(r, label).at = label /\ Goto(r, To(r, label)) /\ UNCHANGED status
      BY <1>2, <2>3 DEF Labels, Ended, LoseVerdict
    <3> QED BY <2>1, <3>1, Answers, Workplaces, WorkIsSilent, ErrorResponds
  <2>4. DerivedStatus(job[r].route, events[r]) \in Promise!Verdicts("ok")
        /\ "failed" \in Promise!Verdicts("error")
    BY DEF DerivedStatus, Promise!Verdicts
  <2>5. CASE Close(r)
    <3>1. CASE CloseRun(r, DerivedStatus(job[r].route, events[r]), "ok")
      BY <2>2, <2>4, <3>1 DEF Promise!Next
    <3>2. CASE LoseVerdict(r, IF Wrapped(r) THEN "ok" ELSE "fail")
      BY <2>3, <3>2
    <3> QED BY <2>5, <3>1, <3>2 DEF Close
  <2>6. CASE Abort(r)
    <3>1. CASE CloseRun(r, "failed", "error")
      BY <2>2, <2>4, <3>1 DEF Promise!Next
    <3>2. CASE LoseVerdict(r, "error")
      BY <2>3, <3>2
    <3> QED BY <2>6, <3>1, <3>2 DEF Abort
  <2> QED BY <1>4, <2>5, <2>6
<1>5. ASSUME \/ HandlerStep(r)
             \/ Unopened(r) \/ Opened(r) \/ Finish(r) \/ Fail(r)
             \/ SaveStart(r) \/ Save(r) \/ Saved(r) \/ Select(r) \/ Result(r)
      PROVE  [Promise!Next]_(Promise!vars)
  BY <1>5, WorkMoves, MoveRefines DEF Moves
<1> QED BY <1>3, <1>4, <1>5 DEF Step, RouteStep

\* A crash answers nobody.
LEMMA CrashRefines ==
  ASSUME IInv, Crash
  PROVE  Promise!Next
<1> DEFINE L == {r \in Requests : job[r].at \notin Ended \cup {"idle"}}
<1>1. \A r \in Requests : To(r, "crashed").at = "crashed"
  BY ToJob DEF IInv, TypeOK, Labels, Ended
<1>2. \A r \in Requests : job'[r] = IF r \in L THEN To(r, "crashed") ELSE job[r]
  BY DEF Crash
<1>3. \A r \in Requests : r \in L => Response(job[r].at) = "pending"
  BY DEF Response, Ended
<1>4. \A r \in Requests : Response(job'[r].at) = IF r \in L THEN "lost" ELSE Response(job[r].at)
  BY <1>1, <1>2, Answers
<1> DEFINE old == [r \in Requests |-> Response(job[r].at)]
           new == [r \in Requests |-> Response(job'[r].at)]
<1>5. L \in SUBSET {r \in Requests : old[r] = "pending"}
  BY <1>3
<1>6. new = [r \in Requests |-> IF r \in L THEN "lost" ELSE old[r]]
  BY <1>4
<1>7. status' = status
  BY DEF Crash
<1> HIDE DEF L
<1>8. Promise!Stop
  BY <1>5, <1>6, <1>7 DEF Promise!Stop
<1> QED BY <1>8 DEF Promise!Next

LEMMA InitRefines == Init => Promise!Init
BY Answers DEF Init, Promise!Init, NoJob

LEMMA NextRefines == IInv /\ [Next]_vars => [Promise!Next]_(Promise!vars)
<1> SUFFICES ASSUME IInv, [Next]_vars PROVE [Promise!Next]_(Promise!vars)
  OBVIOUS
<1>1. CASE UNCHANGED vars
  BY <1>1 DEF vars, Promise!vars
<1> QED BY <1>1, StepRefines, CrashRefines DEF Next

\* Runs and responses keep the promise of TraceRun: a run is closed once, with the
\* response, by a verdict that fits it.
THEOREM RunsKeepThePromise == Spec => ImplementsTraceRun
BY InitRefines, NextRefines, Invariance, PTL DEF Spec, Promise!Spec, ImplementsTraceRun
-----------------------------------------------------------------------------
(* A run that is called a success makes up for its failures.               *)

\* Places from which no traced request reaches a generation: an extraction of memory ends
\* at the lock of its refresh.
Past == {"extracted", "undo", "result", "trim", "fallback", "finish", "close", "fail", "abort"}

\* A generation that has succeeded was the last one.  Without a trace nothing is told.
Told(j, log, on) ==
  /\ HasSuccess(log) => j.at \in Past \cup Ended
  /\ HasSuccess(log) /\ Working(j.at) => on
  /\ \A i, k \in 1..Len(log) :
       i < k /\ log[i].step \in LLMSuccess => log[k].step \notin LLMFailure

MadeUpFor(log) ==
  \A i \in 1..Len(log) : log[i].step \in LLMFailure =>
    \E k \in i + 1..Len(log) : log[k].step \in LLMSuccess

TellsInv ==
  \A r \in Requests :
    /\ Told(job[r], events[r], trace[r].on)
    /\ status[r] = "success" => MadeUpFor(events[r])

\* Where a step may go, and what it may write on the way.
Follows(r, j) == trace[r].on /\ job[r].at \in Past => j.at \in Past \cup Ended

Tells(r, step, j) ==
  /\ Follows(r, j) /\ step \in Steps
  /\ step \in LLMFailure => job[r].at \notin Past
  /\ step \in LLMSuccess => j.at \in Past

\* One event more, in a log that may take it.
LEMMA AppendTells ==
  ASSUME NEW log \in Seq([seq : Nat, step : Steps]), NEW e \in [seq : Nat, step : Steps],
         e.step \in LLMFailure => ~HasSuccess(log),
         \A i, k \in 1..Len(log) :
           i < k /\ log[i].step \in LLMSuccess => log[k].step \notin LLMFailure
  PROVE  LET new == Append(log, e) IN
         /\ HasSuccess(new) => HasSuccess(log) \/ e.step \in LLMSuccess
         /\ \A i, k \in 1..Len(new) :
              i < k /\ new[i].step \in LLMSuccess => new[k].step \notin LLMFailure
<1> DEFINE new == Append(log, e)
<1>1. /\ Len(log) \in Nat /\ Len(new) = Len(log) + 1 /\ new[Len(log) + 1] = e
      /\ \A i \in 1..Len(log) : new[i] = log[i]
  OBVIOUS
<1> HIDE DEF new
<1>2. \A i \in 1..Len(new) : i \in 1..Len(log) \/ i = Len(log) + 1
  BY <1>1
<1>3. HasSuccess(new) => HasSuccess(log) \/ e.step \in LLMSuccess
  BY <1>1, <1>2 DEF HasSuccess
<1>4. ASSUME NEW i \in 1..Len(new), NEW k \in 1..Len(new), i < k,
             new[i].step \in LLMSuccess
      PROVE  new[k].step \notin LLMFailure
  <2>1. i \in 1..Len(log) /\ new[i] = log[i]
    BY <1>1, <1>4
  <2>2. CASE k \in 1..Len(log)
    BY <1>1, <1>4, <2>1, <2>2
  <2>3. CASE k = Len(log) + 1
    BY <1>1, <1>4, <2>1, <2>3 DEF HasSuccess
  <2> QED BY <1>2, <2>2, <2>3
<1> QED BY <1>3, <1>4 DEF new

\* A step of the work that goes where it may and writes what it may.
LEMMA MoveTells ==
  ASSUME IInv, TellsInv, NEW r \in Requests, Working(job[r].at), NEW step, NEW j,
         Goto(r, j), UNCHANGED status, \A q \in Requests : trace'[q].on = trace[q].on,
         \/ events' = events /\ Follows(r, j)
         \/ Record(r, step) /\ Tells(r, step, j)
  PROVE  TellsInv'
<1>1. /\ job'[r] = j /\ \A q \in Requests \ {r} : job'[q] = job[q]
      /\ \A q \in Requests \ {r} : events'[q] = events[q]
      /\ status' = status /\ trace'[r].on = trace[r].on
  BY DEF Goto, Record, IInv, TypeOK
<1>2. status[r] # "success"
  BY DEF IInv, LifeOK
<1>3. /\ HasSuccess(events[r]) => job[r].at \in Past /\ trace[r].on
      /\ \A i, k \in 1..Len(events[r]) :
           i < k /\ events[r][i].step \in LLMSuccess => events[r][k].step \notin LLMFailure
  BY DEF TellsInv, Told, Working
<1>4. Told(j, events'[r], trace[r].on)
  <2>1. CASE events' = events /\ Follows(r, j)
    BY <1>3, <2>1 DEF Follows, Told
  <2>2. CASE Record(r, step) /\ Tells(r, step, j)
    <3> DEFINE e == [seq |-> trace[r].seq + 1, step |-> step]
    <3>1. /\ e \in [seq : Nat, step : Steps] /\ e.step = step
          /\ events[r] \in Seq([seq : Nat, step : Steps])
      <4>1. step \in Steps /\ trace[r].seq + 1 \in Nat
        BY <2>2 DEF IInv, TypeOK, Tells
      <4>2. events[r] \in Seq([seq : Nat, step : Steps])
        BY DEF IInv, TypeOK
      <4> QED BY <4>1, <4>2
    <3>2. events'[r] = Append(events[r], e)
      BY <2>2 DEF Record, IInv, TypeOK
    <3> HIDE DEF e
    <3>3. e.step \in LLMFailure => ~HasSuccess(events[r])
      BY <1>3, <2>2, <3>1 DEF Tells
    <3>4. /\ HasSuccess(events'[r]) => HasSuccess(events[r]) \/ step \in LLMSuccess
          /\ \A i, k \in 1..Len(events'[r]) :
               i < k /\ events'[r][i].step \in LLMSuccess => events'[r][k].step \notin LLMFailure
      BY <1>3, <3>1, <3>2, <3>3, AppendTells
    <3>5. /\ trace[r].on /\ (job[r].at \in Past => j.at \in Past \cup Ended)
          /\ step \in LLMSuccess => j.at \in Past
      BY <2>2 DEF Record, Tells, Follows
    <3>6. HasSuccess(events'[r]) => j.at \in Past \cup Ended
      BY <1>3, <3>4, <3>5
    <3> QED BY <3>4, <3>5, <3>6 DEF Told
  <2> QED BY <2>1, <2>2
<1>5. \A q \in Requests \ {r} :
        /\ Told(job'[q], events'[q], trace'[q].on)
        /\ status'[q] = "success" => MadeUpFor(events'[q])
  BY <1>1 DEF TellsInv
<1> QED BY <1>1, <1>2, <1>4, <1>5 DEF TellsInv

\* A write does not close the context.
LEMMA StillOn ==
  ASSUME IInv, NEW r \in Requests, NEW step, Record(r, step) \/ Lose(r) \/ Barred(r)
  PROVE  \A q \in Requests : trace'[q].on = trace[q].on
<1>1. trace' = [trace EXCEPT ![r].seq = trace[r].seq + 1]
  BY DEF Record, Lose, Barred
<1> QED BY <1>1, Renumbered DEF IInv

LEMMA SilentTells ==
  ASSUME IInv, TellsInv, NEW r \in Requests, Working(job[r].at), NEW j, Follows(r, j), Silent(r, j)
  PROVE  TellsInv'
BY MoveTells DEF Silent

LEMMA UnguardedTells ==
  ASSUME IInv, TellsInv, NEW r \in Requests, Working(job[r].at), NEW step, NEW j, NEW h,
         Tells(r, step, j), Follows(r, h), Unguarded(r, step, j, h)
  PROVE  TellsInv'
<1>1. Follows(r, j)
  BY DEF Tells
<1>2. CASE Record(r, step) /\ Goto(r, j)
  BY <1>2, StillOn, MoveTells DEF Unguarded
<1>3. CASE ~trace[r].on /\ UNCHANGED <<trace, events, lost>> /\ Goto(r, j)
  BY <1>1, <1>3, MoveTells DEF Unguarded
<1>4. CASE Lose(r) /\ Goto(r, h)
  <2>1. events' = events
    BY <1>4 DEF Lose
  <2> QED BY <1>4, <2>1, StillOn, MoveTells DEF Unguarded
<1> QED BY <1>2, <1>3, <1>4 DEF Unguarded, Written

LEMMA GuardedTells ==
  ASSUME IInv, TellsInv, NEW r \in Requests, Working(job[r].at), NEW step, NEW j,
         Tells(r, step, j), Guarded(r, step, j)
  PROVE  TellsInv'
<1>1. Follows(r, j)
  BY DEF Tells
<1>2. Unguarded(r, step, j, j)
  BY DEF Guarded, Unguarded
<1> QED BY <1>1, <1>2, UnguardedTells

\* What tells nothing of a model may be written on any step.
LEMMA NeutralWrites ==
  ASSUME IInv, TellsInv, NEW r \in Requests, Working(job[r].at),
         NEW step \in {"request", "chat_message", "feature", "user_memory", "dynamic_prompt",
                       "llm.generate.start", "llm.pool.switch"},
         NEW j, NEW h, Follows(r, j), Follows(r, h),
         Unguarded(r, step, j, h) \/ Guarded(r, step, j)
  PROVE  TellsInv'
<1>1. Tells(r, step, j)
  BY DEF Tells, Steps, LLMSteps, LLMSuccess, LLMFailure
<1> QED BY <1>1, UnguardedTells, GuardedTells

\* Where the place a step goes to is.
LEMMA PlacesAre ==
  ASSUME IInv, NEW r \in Requests, NEW label
  PROVE  /\ To(r, label).at = label
         /\ \A reply : [To(r, label) EXCEPT !.reply = reply].at = label
         /\ \A n : [To(r, label) EXCEPT !.left = n].at = label
         /\ \A task : [To(r, label) EXCEPT !.task = task].at = label
         /\ \A f : [To(r, label) EXCEPT !.feature = f].at = label
BY DEF To, IInv, TypeOK, Job

\* What fails, ends or follows a generation may come next at any place.
LEMMA EndingsFollow ==
  ASSUME IInv, NEW r \in Requests, NEW label \in Past \cup Ended
  PROVE  /\ Follows(r, To(r, label))
         /\ \A reply : Follows(r, [To(r, label) EXCEPT !.reply = reply])
BY PlacesAre DEF Follows

LEMMA CallersFollow ==
  ASSUME IInv, NEW r \in Requests
  PROVE  \A j \in Replied(r) : j.at \in Past
<1>1. /\ To(r, "extracted").at \in Past /\ To(r, "trim").at \in Past
      /\ \A reply : Reply(r, reply).at \in Past
  BY PlacesAre DEF Reply, Past
<1>2. CASE job[r].task = "memory"
  BY <1>1, <1>2 DEF Replied
<1>3. CASE job[r].task # "memory" /\ job[r].feature = "dynamic_prompt"
  BY <1>1, <1>3 DEF Replied
<1>4. CASE job[r].task # "memory" /\ job[r].feature # "dynamic_prompt"
  BY <1>1, <1>4 DEF Replied
<1> QED BY <1>2, <1>3, <1>4

\* Before a generation is over, any place may come next.
LEMMA AnyFollows ==
  ASSUME NEW r, job[r].at \notin Past \/ ~trace[r].on
  PROVE  \A j : Follows(r, j)
BY DEF Follows

LEMMA PrepareTells ==
  ASSUME IInv, TellsInv, NEW r \in Requests, Working(job[r].at), job[r].at \notin Past, Prepare(r)
  PROVE  TellsInv'
BY AnyFollows, SilentTells DEF Prepare

\* The steps of the feature handlers that do not generate.
LEMMA FeaturesTell ==
  ASSUME IInv, TellsInv, NEW r \in Requests, Working(job[r].at),
         \/ Ignore(r) \/ AnswerChat(r) \/ CompileDossier(r)
         \/ Refresh(r) \/ RefreshStep(r) \/ Undo(r) \/ WriteDossier(r)
  PROVE  TellsInv'
<1>1. CASE job[r].at \in {"handle", "refresh", "dossier"}
  <2>1. job[r].at \notin Past
    BY <1>1 DEF Past
  <2>2. \A j : Follows(r, j)
    BY <2>1, AnyFollows
  <2>3. CASE Ignore(r)
    BY <2>2, <2>3, SilentTells DEF Ignore
  <2>4. CASE AnswerChat(r)
    BY <2>1, <2>4, PrepareTells DEF AnswerChat
  <2>5. CASE CompileDossier(r)
    BY <2>2, <2>5, SilentTells DEF CompileDossier
  <2>6. CASE Refresh(r)
    BY <2>2, <2>6, SilentTells, NeutralWrites DEF Refresh
  <2>7. CASE WriteDossier(r)
    BY <2>1, <2>2, <2>7, SilentTells, PrepareTells DEF WriteDossier
  <2> QED BY <1>1, <2>3, <2>4, <2>5, <2>6, <2>7 DEF RefreshStep, Undo, At
<1>2. CASE RefreshStep(r)
  <2>1. Follows(r, To(r, "undo"))
    BY EndingsFollow DEF Past
  <2>2. CASE Barred(r) /\ Goto(r, To(r, "undo")) /\ UNCHANGED <<status, saved>>
    <3>1. events' = events
      BY <2>2 DEF Barred
    <3> QED BY <2>1, <2>2, <3>1, StillOn, MoveTells
  <2>3. CASE ~trace[r].on /\ Silent(r, To(r, "dossier"))
    BY <2>3, AnyFollows, SilentTells
  <2> QED BY <1>2, <2>1, <2>2, <2>3, SilentTells DEF RefreshStep
<1>3. CASE Undo(r)
  <2>1. Follows(r, To(r, "fail"))
    BY EndingsFollow DEF Past
  <2> QED BY <1>3, <2>1, NeutralWrites DEF Undo
<1> QED BY <1>1, <1>2, <1>3
        DEF Ignore, AnswerChat, CompileDossier, Refresh, WriteDossier, At

\* The steps of a generation.
LEMMA GenerationsTell ==
  ASSUME IInv, TellsInv, NEW r \in Requests, Working(job[r].at), job[r].at \notin Past,
         GenerateStart(r) \/ Ask(r) \/ Switch(r) \/ Succeed(r) \/ ModelFailed(r) \/ Exhausted(r)
  PROVE  TellsInv'
<1>1. \A j : Follows(r, j)
  BY AnyFollows
<1>2. ASSUME NEW step \in LLMFailure, NEW j
      PROVE  Tells(r, step, j)
  BY <1>1, <1>2, StepNames DEF Tells, LLMSuccess, LLMFailure
<1>3. CASE GenerateStart(r)
  BY <1>1, <1>3, SilentTells, NeutralWrites DEF GenerateStart
<1>4. CASE Ask(r)
  BY <1>1, <1>4, SilentTells DEF Ask
<1>5. CASE Switch(r)
  BY <1>1, <1>5, NeutralWrites DEF Switch
<1>6. CASE Succeed(r)
  <2>1. PICK j \in Replied(r) : Unguarded(r, "llm.generate.success", j, To(r, "model_failed"))
    BY <1>6 DEF Succeed
  <2>2. Tells(r, "llm.generate.success", j)
    BY <1>1, <2>1, CallersFollow, StepNames DEF Tells, LLMSuccess, LLMFailure
  <2> QED BY <1>1, <2>1, <2>2, UnguardedTells
<1>7. CASE ModelFailed(r)
  BY <1>1, <1>2, <1>7, UnguardedTells DEF ModelFailed, LLMFailure
<1>8. CASE Exhausted(r)
  BY <1>1, <1>2, <1>8, UnguardedTells DEF Exhausted, LLMFailure
<1> QED BY <1>3, <1>4, <1>5, <1>6, <1>7, <1>8

\* The steps of a dynamic prompt besides its generation.
LEMMA PromptsTell ==
  ASSUME IInv, TellsInv, NEW r \in Requests, Working(job[r].at),
         Validate(r) \/ ReadPrompt(r) \/ GenerationFailed(r) \/ TrimReply(r) \/ Fallback(r)
  PROVE  TellsInv'
<1>1. /\ \A label \in {"fail", "finish", "fallback"} : Follows(r, To(r, label))
      /\ \A reply : Follows(r, [To(r, "finish") EXCEPT !.reply = reply])
  BY EndingsFollow DEF Past
<1>2. CASE Validate(r)
  <2>1. \A j : Follows(r, j)
    BY <1>2, AnyFollows DEF Validate, At, Past
  <2> QED BY <1>2, <2>1, NeutralWrites DEF Validate
<1>3. CASE ReadPrompt(r)
  <2>1. \A j : Follows(r, j)
    BY <1>3, AnyFollows DEF ReadPrompt, At, Past
  <2> QED BY <1>3, <2>1, SilentTells, NeutralWrites DEF ReadPrompt
<1>4. CASE GenerationFailed(r)
  <2>1. Tells(r, "dynamic_prompt.llm.failed", To(r, "fallback"))
    BY <1>1, <1>4, StepNames DEF GenerationFailed, At, Past, Tells, LLMSuccess, LLMFailure
  <2> QED BY <1>1, <1>4, <2>1, UnguardedTells DEF GenerationFailed
<1>5. CASE TrimReply(r)
  <2> DEFINE j == [To(r, "finish") EXCEPT !.reply = "model"]
  <2>1. Follows(r, j) /\ j.at = "finish"
    BY <1>1, PlacesAre
  <2>2. Tells(r, "dynamic_prompt.llm.success", j)
    BY <2>1, StepNames DEF Tells, LLMSuccess, LLMFailure, Past
  <2> QED BY <1>1, <1>5, <2>2, SilentTells, UnguardedTells DEF TrimReply
<1>6. CASE Fallback(r)
  BY <1>1, <1>6, NeutralWrites DEF Fallback
<1> QED BY <1>2, <1>3, <1>4, <1>5, <1>6

LEMMA HandlersTell ==
  ASSUME IInv, TellsInv, NEW r \in Requests, HandlerStep(r)
  PROVE  TellsInv'
<1>1. CASE Validate(r) \/ ReadPrompt(r) \/ GenerationFailed(r) \/ TrimReply(r) \/ Fallback(r)
  <2>1. Working(job[r].at)
    BY <1>1, Workplaces DEF At, Validate, ReadPrompt, GenerationFailed, TrimReply, Fallback
  <2> QED BY <1>1, <2>1, PromptsTell
<1>2. CASE \/ Ignore(r) \/ AnswerChat(r) \/ CompileDossier(r)
           \/ Refresh(r) \/ RefreshStep(r) \/ Undo(r) \/ WriteDossier(r)
  <2>1. job[r].at \in {"handle", "refresh", "extracted", "undo", "dossier"}
    BY <1>2 DEF At, Ignore, AnswerChat, CompileDossier, Refresh, RefreshStep, Undo, WriteDossier
  <2>2. Working(job[r].at)
    BY <2>1, Workplaces
  <2> QED BY <1>2, <2>2, FeaturesTell
<1>3. CASE GenerateStart(r) \/ Ask(r) \/ Switch(r) \/ Succeed(r) \/ ModelFailed(r) \/ Exhausted(r)
  <2>1. job[r].at \in {"generate", "ask", "switch", "succeed", "model_failed", "exhausted"}
    BY <1>3 DEF At, GenerateStart, Ask, Switch, Succeed, ModelFailed, Exhausted
  <2>2. Working(job[r].at) /\ job[r].at \notin Past
    BY <2>1, Workplaces DEF Past
  <2> QED BY <1>3, <2>2, GenerationsTell
<1> QED BY <1>1, <1>2, <1>3 DEF HandlerStep

\* The steps of the routes between the start and the end of a request.
LEMMA RoutesTell ==
  ASSUME IInv, TellsInv, NEW r \in Requests,
         \/ Unopened(r) \/ Opened(r) \/ Finish(r) \/ Fail(r)
         \/ SaveStart(r) \/ Save(r) \/ Saved(r) \/ Select(r) \/ Result(r)
  PROVE  TellsInv'
<1>1. Working(job[r].at)
  <2>1. job[r].at \in {"unopened", "opened", "finish", "fail", "ingest", "save", "saved", "select",
                       "result"}
    BY DEF At, Unopened, Opened, Finish, Fail, SaveStart, Save, Saved, Select, Result
  <2> QED BY <2>1, Workplaces
<1>2. CASE job[r].at \in {"opened", "ingest", "save", "saved", "select"}
  <2>1. \A j : Follows(r, j)
    BY <1>2, AnyFollows DEF Past
  <2>2. CASE Opened(r)
    BY <1>1, <2>1, <2>2, NeutralWrites DEF Opened
  <2>3. CASE SaveStart(r)
    BY <1>1, <2>1, <2>3, NeutralWrites DEF SaveStart
  <2>4. CASE Save(r)
    BY <1>1, <2>1, <2>4, MoveTells DEF Save
  <2>5. CASE Saved(r)
    BY <1>1, <2>1, <2>5, NeutralWrites DEF Saved
  <2>6. CASE Select(r)
    BY <1>1, <2>1, <2>6, NeutralWrites DEF Select
  <2> QED BY <1>2, <2>2, <2>3, <2>4, <2>5, <2>6 DEF At, Unopened, Finish, Fail, Result
<1>3. CASE job[r].at \notin {"opened", "ingest", "save", "saved", "select"}
  <2>1. /\ Follows(r, To(r, "finish")) /\ Follows(r, To(r, "close")) /\ Follows(r, To(r, "fail"))
        /\ Follows(r, To(r, "abort")) /\ Follows(r, To(r, "error"))
    BY EndingsFollow DEF Past, Ended
  <2>2. CASE Unopened(r)
    BY <1>1, <2>1, <2>2, SilentTells DEF Unopened
  <2>3. CASE Finish(r)
    BY <1>1, <2>1, <2>3, NeutralWrites DEF Finish
  <2>4. CASE Fail(r)
    BY <1>1, <2>1, <2>4, NeutralWrites DEF Fail
  <2>5. CASE Result(r)
    BY <1>1, <2>1, <2>5, SilentTells, NeutralWrites DEF Result
  <2> QED BY <1>3, <2>2, <2>3, <2>4, <2>5 DEF At, Opened, SaveStart, Save, Saved, Select
<1> QED BY <1>2, <1>3

LEMMA BeginTells ==
  ASSUME IInv, TellsInv, NEW r \in Requests, NEW route \in Routes, Begin(r, route)
  PROVE  TellsInv'
<1>1. status[r] = "none" /\ ~HasSuccess(events[r])
  <2>1. job[r] = NoJob /\ status[r] = "none"
    BY DEF IInv, LifeOK, Begin
  <2>2. Told(NoJob, events[r], trace[r].on)
    BY <2>1 DEF TellsInv
  <2> QED BY <2>1, <2>2 DEF Told, NoJob, Past, Ended
<1>2. \A j, on : Told(j, events[r], on)
  BY <1>1 DEF Told, HasSuccess
<1>3. /\ events' = events
      /\ \A q \in Requests \ {r} :
           job'[q] = job[q] /\ status'[q] = status[q] /\ trace'[q] = trace[q]
      /\ status'[r] # "success"
  BY <1>1 DEF Begin, Goto, IInv, TypeOK
<1> QED BY <1>2, <1>3 DEF TellsInv

\* A run called a success has no failure, or a success, which comes last.
LEMMA SuccessMadeUp ==
  ASSUME NEW log, NEW j, NEW on, NEW route, Told(j, log, on),
         DerivedStatus(route, log) = "success", Len(log) \in Nat
  PROVE  MadeUpFor(log)
<1> SUFFICES ASSUME NEW i \in 1..Len(log), log[i].step \in LLMFailure
             PROVE  \E k \in i + 1..Len(log) : log[k].step \in LLMSuccess
  BY DEF MadeUpFor
<1>1. PICK k \in 1..Len(log) : log[k].step \in LLMSuccess
  BY DEF DerivedStatus, LLMSteps
<1>2. ~(k < i)
  BY <1>1 DEF Told
<1>3. k # i
  BY <1>1 DEF LLMSuccess, LLMFailure
<1> QED BY <1>1, <1>2, <1>3

\* The ends of a request; a context that is closed has answered it.
LEMMA EndTells ==
  ASSUME IInv, TellsInv, NEW r \in Requests, Working(job[r].at),
         NEW label \in {"ok", "error", "fail"}, Goto(r, To(r, label)), events' = events,
         job[r].at \in Past, trace'[r].on = trace[r].on \/ label # "fail",
         \A q \in Requests \ {r} : status'[q] = status[q] /\ trace'[q].on = trace[q].on,
         status'[r] = "success" =>
           status[r] = "success" \/ status'[r] = DerivedStatus(job[r].route, events[r])
  PROVE  TellsInv'
<1>1. /\ Told(job[r], events[r], trace[r].on) /\ status[r] # "success"
      /\ events[r] \in Seq([seq : Nat, step : Steps])
  BY DEF IInv, TypeOK, TellsInv, LifeOK
<1>2. To(r, label).at = label
  BY PlacesAre
<1>3. job'[r] = To(r, label) /\ \A q \in Requests \ {r} : job'[q] = job[q]
  BY DEF Goto, IInv, TypeOK
<1>4. Told(To(r, label), events[r], trace'[r].on)
  <2>1. label \in Past \cup Ended /\ (Working(label) => label = "fail")
    BY DEF Past, Ended, Working
  <2> QED BY <1>1, <1>2, <2>1 DEF Told
<1>5. status'[r] = "success" => MadeUpFor(events[r])
  BY <1>1, SuccessMadeUp
<1>6. \A q \in Requests \ {r} :
        /\ Told(job'[q], events'[q], trace'[q].on)
        /\ status'[q] = "success" => MadeUpFor(events'[q])
  BY <1>3 DEF TellsInv
<1> QED BY <1>3, <1>4, <1>5, <1>6 DEF TellsInv

LEMMA EndsTell ==
  ASSUME IInv, TellsInv, NEW r \in Requests, Close(r) \/ Abort(r)
  PROVE  TellsInv'
<1>1. job[r].at \in Past /\ Working(job[r].at)
  BY Workplaces DEF Close, Abort, At, Past
<1>2. ASSUME NEW verdict, NEW label \in {"ok", "error"}, CloseRun(r, verdict, label),
             verdict \in {"failed", DerivedStatus(job[r].route, events[r])}
      PROVE  TellsInv'
  <2>1. /\ Goto(r, To(r, label)) /\ events' = events
        /\ \A q \in Requests \ {r} : status'[q] = status[q] /\ trace'[q].on = trace[q].on
        /\ status'[r] = IF trace[r].on THEN verdict ELSE status[r]
    BY <1>2 DEF CloseRun, IInv, TypeOK
  <2> QED BY <1>1, <1>2, <2>1, EndTells
<1>3. ASSUME NEW label \in {"ok", "error", "fail"}, LoseVerdict(r, label) PROVE TellsInv'
  BY <1>1, <1>3, EndTells DEF LoseVerdict
<1>4. CASE Close(r)
  BY <1>2, <1>3, <1>4 DEF Close
<1>5. CASE Abort(r)
  BY <1>2, <1>3, <1>5 DEF Abort
<1> QED BY <1>4, <1>5

LEMMA CrashTells ==
  ASSUME IInv, TellsInv, Crash
  PROVE  TellsInv'
<1>1. events' = events /\ status' = status
  BY DEF Crash
<1>2. ASSUME NEW r \in Requests
      PROVE  Told(job'[r], events[r], trace'[r].on)
  <2>1. Told(job[r], events[r], trace[r].on)
    BY DEF TellsInv
  <2>2. \/ job'[r] = job[r] /\ job[r].at \in Ended \cup {"idle"}
        \/ job'[r] = To(r, "crashed")
    BY DEF Crash
  <2>3. To(r, "crashed").at = "crashed"
    BY PlacesAre
  <2>4. ~Working(job'[r].at)
    BY <2>2, <2>3 DEF Working, Ended
  <2> QED BY <2>1, <2>2, <2>3, <2>4 DEF Told, Ended
<1> QED BY <1>1, <1>2 DEF TellsInv

LEMMA NextTells == IInv /\ TellsInv /\ [Next]_vars => TellsInv'
<1> SUFFICES ASSUME IInv, TellsInv, [Next]_vars PROVE TellsInv'
  OBVIOUS
<1>1. CASE UNCHANGED vars
  BY <1>1 DEF vars, TellsInv
<1>2. ASSUME NEW r \in Requests, RouteStep(r) PROVE TellsInv'
  BY <1>2, BeginTells, RoutesTell, EndsTell DEF RouteStep
<1> QED BY <1>1, <1>2, HandlersTell, CrashTells DEF Next, Step

LEMMA InitTells == Init => TellsInv
<1> SUFFICES ASSUME Init, NEW r \in Requests
             PROVE  /\ Told(job[r], events[r], trace[r].on)
                    /\ status[r] = "success" => MadeUpFor(events[r])
  BY DEF TellsInv
<1>1. events[r] = <<>> /\ status[r] # "success"
  BY DEF Init
<1>2. Told(job[r], <<>>, trace[r].on)
  BY DEF Told, HasSuccess
<1> QED BY <1>1, <1>2

\* A run is called a success only if every failure of a model it shows was made up for by
\* a later answer of a model, on every route, however many models a pool has, wherever
\* events are lost and however the requests interleave.
THEOREM SuccessesAreEarned == Spec => []FailuresWereMadeUpFor
<1>1. TellsInv => FailuresWereMadeUpFor
  BY DEF TellsInv, MadeUpFor, FailuresWereMadeUpFor
<1> QED BY <1>1, InitTells, NextTells, Invariance, PTL DEF Spec
=============================================================================
