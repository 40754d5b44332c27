-------------------------- MODULE PromptPlayground --------------------------
(***************************************************************************)
(* The dynamic prompts of the playground page (static/admin/playground.js) *)
(* over the prompt files (prompt_store.py, api/admin_routes.py): two       *)
(* editors that save themselves when they lose the focus, and the handlers *)
(* that switch the prompt, create one, reset the form and run the prompt.  *)
(*                                                                         *)
(* Handlers are asynchronous and overlap.  The page runs one of them at a  *)
(* time, up to its next await, and then takes the next event: a click, a   *)
(* key or the answer of the server, whose routes run in threads.           *)
(***************************************************************************)
EXTENDS Integers, Sequences, FiniteSets

CONSTANTS
  Names,        \* names of dynamic prompts
  Given,        \* those whose files exist when the page is opened
  Parts,        \* the parts of a prompt, in the order they are flushed, written and read
  Slots,        \* handlers that run at a time
  MaxTyped,     \* bound: edits
  MaxClicks,    \* bound: handlers started
  MaxFailures   \* bound: refused requests and crashes of the server

ASSUME PageAssumption ==
  /\ Given \subseteq Names /\ "" \notin Names
  /\ Parts \in Seq(STRING) /\ Len(Parts) > 0
  /\ MaxTyped \in Nat

\* "none" is what has the focus when no editor has it.
ASSUME FocusAssumption == \A i \in 1..Len(Parts) : Parts[i] # "none"

Part == {Parts[i] : i \in 1..Len(Parts)}

VARIABLES
  file,      \* the prompt files
  requests,  \* saves on their way, at the server or answered
  options,   \* names the page lists
  chosen,    \* the one that is selected, "" for none
  shown,     \* the one the editors were last filled from
  text,      \* what is in the editors
  dirty,     \* state.dirty of each editor's manager
  inflight,  \* state.inflight
  focus,     \* the editor that has the focus
  handler,   \* the running handlers
  typed, clicks, failures

page == <<options, chosen, shown, text, dirty, inflight, focus, typed>>
vars == <<file, requests, page, handler, clicks, failures>>

\* A text belongs to the prompt it was written for; versions 0 and 1 are a blank
\* one and the one found at the start.
Text == [of : Names \cup {""}, v : 0..MaxTyped + 1]
Blank(n) == [of |-> n, v |-> 0]
NoFile == [of |-> "no file", v |-> 0]
\* Between the truncation of a file and the write.
Torn == [of |-> "torn", v |-> 0]

Idle == [kind |-> "none", at |-> "idle", part |-> 1, name |-> "", names |-> {},
         got |-> [p \in Part |-> NoFile], edits |-> {}]

\* The page asks for the names when it is opened.
Opening == [Idle EXCEPT !.kind = "open", !.at = "list"]

Init ==
  /\ file = [np \in Names \X Part |->
               IF np[1] \in Given THEN [of |-> np[1], v |-> 1] ELSE NoFile]
  /\ requests = {}
  /\ options = {} /\ chosen = "" /\ shown = ""
  /\ text = [p \in Part |-> Blank("")]
  /\ dirty = [p \in Part |-> FALSE]
  /\ inflight = [p \in Part |-> FALSE]
  /\ focus = "none"
  /\ \E first \in Slots : handler = [h \in Slots |-> IF h = first THEN Opening ELSE Idle]
  /\ typed = 0 /\ clicks = 0 /\ failures = 0
-----------------------------------------------------------------------------
(* The page.                                                               *)

\* No handler is about to go on: the next event is taken.
Settled == \A h \in Slots : handler[h].at \notin {"flush", "flushed"}

Put(h, rec) == handler' = [handler EXCEPT ![h] = rec]
Goto(h, place) == Put(h, [handler[h] EXCEPT !.at = place, !.part = 1])
End(h) == Put(h, Idle)

\* Edits that somebody else may have replaced since a run was started.
Forget(P) == [h \in Slots |-> [handler[h] EXCEPT !.edits = @ \ P]]

\* saveNow of a dirty editor: the request, unless one is on its way.
FaultyStart(p) ==
  /\ requests' = requests \cup {[part |-> p, name |-> chosen, text |-> text[p], at |-> "sent"]}
  /\ inflight' = [inflight EXCEPT ![p] = TRUE]

Start(p) ==
  IF inflight[p] THEN UNCHANGED <<requests, inflight>>
  ELSE /\ requests' = requests \cup
                        {[part |-> p, name |-> chosen, text |-> text[p], at |-> "sent"]}
       /\ inflight' = [inflight EXCEPT ![p] = TRUE]

Focus(p) ==
  /\ Settled /\ focus = "none"
  /\ focus' = p
  /\ UNCHANGED <<file, requests, options, chosen, shown, text, dirty, inflight, handler, typed,
                 clicks, failures>>

Type(p) ==
  /\ Settled /\ focus = p /\ typed < MaxTyped
  /\ text' = [text EXCEPT ![p] = [of |-> shown, v |-> typed + 2]]
  /\ dirty' = [dirty EXCEPT ![p] = TRUE]
  /\ typed' = typed + 1
  /\ handler' = Forget({p})
  /\ UNCHANGED <<file, requests, options, chosen, shown, inflight, focus, clicks, failures>>

Blur(p) ==
  /\ Settled /\ focus = p
  /\ focus' = "none"
  /\ IF dirty[p] THEN Start(p) ELSE UNCHANGED <<requests, inflight>>
  /\ UNCHANGED <<file, options, chosen, shown, text, dirty, handler, typed, clicks, failures>>

\* The select's change event, with the new value already in place.
Choose(h, n) ==
  /\ Settled /\ focus = "none" /\ clicks < MaxClicks /\ handler[h].at = "idle"
  /\ n \in options \cup {""} /\ n # chosen
  /\ chosen' = n
  /\ handler' = [Forget(Part) EXCEPT ![h] = [Idle EXCEPT !.kind = "switch", !.at = "flush"]]
  /\ clicks' = clicks + 1
  /\ UNCHANGED <<file, requests, options, shown, text, dirty, inflight, focus, typed, failures>>

\* The form's submit event.
Submit(h) ==
  /\ Settled /\ focus = "none" /\ clicks < MaxClicks /\ handler[h].at = "idle"
  /\ Put(h, [Idle EXCEPT !.kind = "run", !.at = "flush",
                         !.edits = {p \in Part : dirty[p] /\ ~inflight[p]}])
  /\ clicks' = clicks + 1
  /\ UNCHANGED <<file, requests, page, failures>>

NewPrompt(h, n) ==
  /\ Settled /\ focus = "none" /\ clicks < MaxClicks /\ handler[h].at = "idle"
  /\ Put(h, [Idle EXCEPT !.kind = "create", !.at = "check", !.name = n])
  /\ clicks' = clicks + 1
  /\ UNCHANGED <<file, requests, page, failures>>

\* The form's reset deselects the prompt, so that the editors are emptied; their
\* managers keep their state.
Reset ==
  /\ Settled /\ focus = "none" /\ clicks < MaxClicks
  /\ chosen' = "" /\ shown' = ""
  /\ text' = [p \in Part |-> Blank("")]
  /\ handler' = Forget(Part)
  /\ clicks' = clicks + 1
  /\ UNCHANGED <<file, requests, options, dirty, inflight, focus, typed, failures>>

\* A run goes on although the last editor is not saved yet.
FaultyFlush(h) ==
  LET p == Parts[handler[h].part]
  IN /\ handler[h].at = "flush"
     /\ IF dirty[p] THEN /\ Start(p)
                         /\ IF handler[h].part < Len(Parts)
                            THEN Put(h, [handler[h] EXCEPT !.at = "wait"])
                            ELSE Goto(h, "flushed")
        ELSE /\ IF handler[h].part < Len(Parts)
                THEN Put(h, [handler[h] EXCEPT !.part = @ + 1])
                ELSE Goto(h, "flushed")
             /\ UNCHANGED <<requests, inflight>>
     /\ UNCHANGED <<file, options, chosen, shown, text, dirty, focus, typed, clicks, failures>>

\* flushPendingSaves: a clean editor is passed over, the save of a dirty one awaited.
Flush(h) ==
  LET p == Parts[handler[h].part]
  IN /\ handler[h].at = "flush"
     /\ IF dirty[p] THEN Start(p) /\ Put(h, [handler[h] EXCEPT !.at = "wait"])
        ELSE /\ IF handler[h].part < Len(Parts)
                THEN Put(h, [handler[h] EXCEPT !.part = @ + 1])
                ELSE Goto(h, "flushed")
             /\ UNCHANGED <<requests, inflight>>
     /\ UNCHANGED <<file, options, chosen, shown, text, dirty, focus, typed, clicks, failures>>

\* Everybody who awaits the save of p goes on, or gets its error.
Awaited(p, ok) ==
  [h \in Slots |->
     IF handler[h].at # "wait" \/ Parts[handler[h].part] # p THEN handler[h]
     ELSE IF ~ok THEN Idle
     ELSE IF handler[h].part < Len(Parts)
          THEN [handler[h] EXCEPT !.at = "flush", !.part = @ + 1]
          ELSE [handler[h] EXCEPT !.at = "flushed", !.part = 1]]

SaveSucceeded(q) ==
  /\ Settled /\ q \in requests /\ q.at = "stored"
  /\ requests' = requests \ {q}
  /\ dirty' = [dirty EXCEPT ![q.part] = FALSE]
  /\ inflight' = [inflight EXCEPT ![q.part] = FALSE]
  /\ handler' = Awaited(q.part, TRUE)
  /\ UNCHANGED <<file, options, chosen, shown, text, focus, typed, clicks, failures>>

\* The error is shown but those who await the save are not told.
FaultySaveFailed(q) ==
  /\ Settled /\ q \in requests /\ q.at = "refused"
  /\ requests' = requests \ {q}
  /\ inflight' = [inflight EXCEPT ![q.part] = FALSE]
  /\ UNCHANGED <<file, options, chosen, shown, text, dirty, focus, handler, typed, clicks,
                 failures>>

SaveFailed(q) ==
  /\ Settled /\ q \in requests /\ q.at = "refused"
  /\ requests' = requests \ {q}
  /\ inflight' = [inflight EXCEPT ![q.part] = FALSE]
  /\ handler' = Awaited(q.part, FALSE)
  /\ UNCHANGED <<file, options, chosen, shown, text, dirty, focus, typed, clicks, failures>>

\* The name is read only now; without one the editors are emptied at once.
Flushed(h) ==
  /\ handler[h].at = "flushed"
  /\ IF chosen # ""
     THEN /\ Put(h, [handler[h] EXCEPT !.at = "read", !.name = chosen])
          /\ UNCHANGED <<shown, text, dirty>>
     ELSE /\ End(h)
          /\ IF handler[h].kind = "switch"
             THEN /\ shown' = ""
                  /\ text' = [p \in Part |-> Blank("")]
                  /\ dirty' = [p \in Part |-> FALSE]
             ELSE UNCHANGED <<shown, text, dirty>>
  /\ UNCHANGED <<file, requests, options, chosen, inflight, focus, typed, clicks, failures>>

\* loadDynamicPromptNames: the options are those of this answer, however late it is.  A new
\* prompt is selected and then loaded; when the page is opened, none is.
Listed(h) ==
  /\ Settled /\ handler[h].at = "listed"
  /\ options' = handler[h].names
  /\ chosen' = handler[h].name
  /\ handler' = [Forget(Part) EXCEPT ![h] = IF handler[h].name = "" THEN Idle
                                            ELSE [@ EXCEPT !.at = "read", !.part = 1]]
  /\ UNCHANGED <<file, requests, shown, text, dirty, inflight, focus, typed, clicks, failures>>

\* The managers are not told that the editors have another text, and a file that is
\* being written is taken for one with a text.
FaultyLoaded(h) ==
  /\ Settled /\ handler[h].at = "got" /\ handler[h].kind # "run"
  /\ text' = handler[h].got
  /\ shown' = handler[h].name
  /\ handler' = [Forget(Part) EXCEPT ![h] = Idle]
  /\ UNCHANGED <<file, requests, options, chosen, dirty, inflight, focus, typed, clicks, failures>>

\* loadDynamicMeta and setClean.
Loaded(h) ==
  /\ Settled /\ handler[h].at = "got" /\ handler[h].kind # "run"
  /\ text' = [p \in Part |-> IF handler[h].got[p] = Torn THEN Blank(handler[h].name)
                             ELSE handler[h].got[p]]
  /\ shown' = handler[h].name
  /\ dirty' = [p \in Part |-> FALSE]
  /\ handler' = [Forget(Part) EXCEPT ![h] = Idle]
  /\ UNCHANGED <<file, requests, options, chosen, inflight, focus, typed, clicks, failures>>

Answered(h) ==
  /\ Settled /\ handler[h].at = "got" /\ handler[h].kind = "run"
  /\ End(h)
  /\ UNCHANGED <<file, requests, page, clicks, failures>>
-----------------------------------------------------------------------------
(* The server.                                                             *)

Replace(q, label) == requests' = (requests \ {q}) \cup {[q EXCEPT !.at = label]}

\* PromptStore.write opens the file, which empties it, and then writes.
Truncate(q) ==
  /\ q \in requests /\ q.at = "sent" /\ q.name # ""
  /\ Replace(q, "open")
  /\ file' = [file EXCEPT ![<<q.name, q.part>>] = Torn]
  /\ UNCHANGED <<page, handler, clicks, failures>>

Write(q) ==
  /\ q \in requests /\ q.at = "open"
  /\ Replace(q, "stored")
  /\ file' = [file EXCEPT ![<<q.name, q.part>>] = q.text]
  /\ UNCHANGED <<page, handler, clicks, failures>>

\* There is no name, or the file cannot be opened.
Refuse(q) ==
  /\ q \in requests /\ q.at = "sent"
  /\ IF q.name = "" THEN UNCHANGED failures
     ELSE failures < MaxFailures /\ failures' = failures + 1
  /\ Replace(q, "refused")
  /\ UNCHANGED <<file, page, handler, clicks>>

\* list_dynamic_prompt_names.
Listable == {n \in Names : \A p \in Part : file[<<n, p>>] # NoFile}

ListNames(h) ==
  /\ handler[h].at = "list"
  /\ Put(h, [handler[h] EXCEPT !.at = "listed", !.names = Listable])
  /\ UNCHANGED <<file, requests, page, clicks, failures>>

\* create_dynamic_prompt: the check, then one file after the other.
Check(h) ==
  /\ handler[h].at = "check"
  /\ IF handler[h].name \in Listable THEN End(h) ELSE Goto(h, "write")
  /\ UNCHANGED <<file, requests, page, clicks, failures>>

WriteBlank(h) ==
  LET np == <<handler[h].name, Parts[handler[h].part]>>
  IN /\ handler[h].at = "write"
     /\ file' = [file EXCEPT ![np] = Blank(np[1])]
     /\ handler' = [Forget({np[2]}) EXCEPT
                      ![h] = IF @.part < Len(Parts) THEN [@ EXCEPT !.part = handler[h].part + 1]
                             ELSE [@ EXCEPT !.at = "list", !.part = 1]]
     /\ UNCHANGED <<requests, page, clicks, failures>>

\* The prompt's files are read, for the editors or for a generation.
ReadFile(h) ==
  LET p == Parts[handler[h].part]
      content == file[<<handler[h].name, p>>]
  IN /\ handler[h].at = "read"
     /\ IF content = NoFile THEN End(h)
        ELSE Put(h, [handler[h] EXCEPT !.got[p] = content,
                                       !.part = IF @ < Len(Parts) THEN @ + 1 ELSE 1,
                                       !.at = IF handler[h].part < Len(Parts) THEN @ ELSE "got"])
     /\ UNCHANGED <<file, requests, page, clicks, failures>>

\* Where a handler, or the page that is opened, waits for an answer to a request of its own.
Asking == {"check", "write", "list", "read"}

\* The request is answered with an error, and the handler ends.
RequestFails(h) ==
  /\ handler[h].at \in Asking /\ failures < MaxFailures
  /\ failures' = failures + 1
  /\ End(h)
  /\ UNCHANGED <<file, requests, page, clicks>>

\* What it works on is lost and answered with an error; the files stay as they are.
Crash ==
  /\ failures < MaxFailures
  /\ failures' = failures + 1
  /\ requests' = {[q EXCEPT !.at = "refused"] : q \in requests}
  /\ handler' = [h \in Slots |-> IF handler[h].at \in Asking THEN Idle ELSE handler[h]]
  /\ UNCHANGED <<file, page, clicks>>
-----------------------------------------------------------------------------
User ==
  \/ \E p \in Part : Focus(p) \/ Type(p) \/ Blur(p)
  \/ \E h \in Slots :
       \/ \E n \in Names \cup {""} : Choose(h, n)
       \/ Submit(h)
       \/ \E n \in Names : NewPrompt(h, n)
  \/ Reset

HandlerStep(h) ==
  \/ Flush(h) \/ Flushed(h) \/ Listed(h) \/ Loaded(h) \/ Answered(h)
  \/ ListNames(h) \/ Check(h) \/ WriteBlank(h) \/ ReadFile(h)

SaveStep(p) ==
  \E q \in {r \in requests : r.part = p} :
    SaveSucceeded(q) \/ SaveFailed(q) \/ Truncate(q) \/ Write(q) \/ Refuse(q)

Next ==
  \/ User
  \/ \E h \in Slots : HandlerStep(h) \/ RequestFails(h)
  \/ \E p \in Part : SaveStep(p)
  \/ Crash

Spec == Init /\ [][Next]_vars

\* The page and the server go on; nothing is expected of the user.
FairSpec ==
  /\ Spec
  /\ \A h \in Slots : WF_vars(HandlerStep(h))
  /\ \A p \in Part : WF_vars(SaveStep(p))
-----------------------------------------------------------------------------
Handler == [kind : {"none", "open", "switch", "create", "run"},
            at : {"idle", "flush", "wait", "flushed", "check", "write", "list", "listed", "read", "got"},
            part : 1..Len(Parts), name : Names \cup {""}, names : SUBSET Names,
            got : [Part -> Text \cup {NoFile, Torn}], edits : SUBSET Part]

TypeOK ==
  /\ file \in [Names \X Part -> Text \cup {NoFile, Torn}]
  /\ requests \subseteq [part : Part, name : Names \cup {""}, text : Text,
                         at : {"sent", "open", "stored", "refused"}]
  /\ options \subseteq Names /\ {chosen, shown} \subseteq Names \cup {""}
  /\ text \in [Part -> Text]
  /\ dirty \in [Part -> BOOLEAN] /\ inflight \in [Part -> BOOLEAN]
  /\ focus \in Part \cup {"none"}
  /\ handler \in [Slots -> Handler]
  /\ typed \in 0..MaxTyped /\ failures \in Nat

\* An editor never sends a text that is older than the one its prompt's file already
\* has: however its blurs, runs and switches of the prompt overlap, saves of typed
\* texts arrive in the order in which they were typed.
NewerTextsStay ==
  \A q \in requests :
    q.at \in {"sent", "open"} /\ q.text.v > 1 /\ q.name # "" =>
      file[<<q.name, q.part>>].v <= q.text.v

\* A run uses the edits that were in the editors when it was started, unless they
\* were edited, loaded or created anew since or their save was on its way already.
RunUsesEdits ==
  \A h \in Slots : handler[h].kind = "run" /\ handler[h].at = "got" =>
    \A p \in handler[h].edits : handler[h].got[p] = text[p]

\* No handler waits for ever, not even for a save that fails.
EveryHandlerEnds == \A h \in Slots : handler[h].at # "idle" ~> handler[h].at = "idle"

\* README.md:97: editing writes dynamic/<name>_system.txt and _template.txt of the
\* selected prompt, hence texts of no other prompt.
EditsStayInTheirPrompt ==
  \A n \in Names, p \in Part : file[<<n, p>>] \in {NoFile, Torn} \/ file[<<n, p>>].of = n
=============================================================================
