------------------------ MODULE PromptPlaygroundNames ------------------------
(***************************************************************************)
(* What keeps every text of the playground in the files of its prompt.     *)
(* EditsStayInTheirPrompt is violated, because saveNow takes the name from *)
(* the select when it starts (playground.js:52, :316).  The theorem below  *)
(* says which things have to go wrong first; a text stays in its     *)
(* prompt, for any prompts, parts and handlers, when none of them does.    *)
(***************************************************************************)
EXTENDS PromptPlaygroundProofs

\* No save is refused or lost; the user types only while the editors show the selected
\* prompt and no switch or creation, nor the opening of the page, is under way.
Careful ==
  /\ \A q \in requests' : q.at # "refused"
  /\ typed' # typed =>
       chosen = shown /\ chosen # "" /\ \A h \in Slots : handler[h].kind \in {"none", "run"}

\* A text that no save carries yet is in the editor that has the focus, and belongs to
\* the prompt that is selected and that nobody is about to change.
Waiting ==
  \A p \in Part : Unsent(p) =>
    /\ focus = p /\ chosen # "" /\ chosen = shown /\ text[p].of = chosen
    /\ \A h \in Slots : handler[h].kind \in {"none", "run"}

\* A save carries a text of the prompt it names.
Addressed == \A q \in requests : q.at # "refused" /\ q.name # "" /\ q.text.of = q.name

\* Only a creation, or the opening of the page, creates and asks for the names.
Creates(rec) == rec.at \in {"check", "write", "list", "listed"} => rec.kind \in {"create", "open"}

Kinds == \A h \in Slots : Creates(handler[h])

HomeInv == Waiting /\ Addressed /\ Kinds /\ EditsStayInTheirPrompt

\* A handler goes on as what it is, or ends.
KindStep == \A h \in Slots : handler'[h].kind \in {handler[h].kind, "none"}
-----------------------------------------------------------------------------
LEMMA NonePart == "none" \notin Part
BY FocusAssumption DEF Part

LEMMA NobodyWaits ==
  ASSUME Waiting, focus = "none"
  PROVE  \A p \in Part : ~Unsent(p)
BY NonePart DEF Waiting

\* Nobody waits anew, and nothing changes for those who do.
LEMMA WaitingKept ==
  ASSUME Waiting, KindStep, UNCHANGED <<chosen, shown, text, focus>>,
         \A p \in Part : Unsent(p)' => Unsent(p)
  PROVE  Waiting'
BY DEF Waiting, KindStep

\* A change of one handler.
LEMMA PutKinds ==
  ASSUME Typed, Kinds, NEW h \in Slots, NEW rec, Put(h, rec),
         rec.kind \in {handler[h].kind, "none"},
         Creates(rec)
  PROVE  KindStep /\ Kinds'
<1>1. handler \in [Slots -> Sound]
  BY DEF Typed
<1>2. handler'[h] = rec /\ \A g \in Slots \ {h} : handler'[g] = handler[g]
  BY <1>1 DEF Put
<1> QED BY <1>2 DEF KindStep, Kinds, Creates

LEMMA ForgetKinds ==
  ASSUME Typed, Kinds, NEW P, handler' = Forget(P)
  PROVE  KindStep /\ Kinds'
<1>1. \A h \in Slots : handler'[h].kind = handler[h].kind /\ handler'[h].at = handler[h].at
  BY ForgetSound DEF Typed
<1> QED BY <1>1 DEF KindStep, Kinds, Creates

\* The same when the others forget edits; the kind of the new handler is its own.
LEMMA ForgetPutKinds ==
  ASSUME Typed, Kinds, NEW P, NEW h \in Slots, NEW rec, handler' = [Forget(P) EXCEPT ![h] = rec],
         Creates(rec)
  PROVE  Kinds' /\ (rec.kind \in {handler[h].kind, "none"} => KindStep)
<1>1. \A g \in Slots : Forget(P)[g].kind = handler[g].kind /\ Forget(P)[g].at = handler[g].at
  BY ForgetSound DEF Typed
<1>2. handler'[h] = rec /\ \A g \in Slots \ {h} : handler'[g] = Forget(P)[g]
  BY DEF Forget
<1> QED BY <1>1, <1>2 DEF KindStep, Kinds, Creates

LEMMA AwaitedKinds ==
  ASSUME Typed, Kinds, NEW p, NEW ok \in BOOLEAN, handler' = Awaited(p, ok)
  PROVE  KindStep /\ Kinds'
<1>1. ASSUME NEW h \in Slots
      PROVE  /\ handler'[h].kind \in {handler[h].kind, "none"}
             /\ \/ handler'[h].at = handler[h].at /\ handler'[h].kind = handler[h].kind
                \/ handler'[h].at \in {"idle", "flush", "flushed"}
  <2>1. handler[h] \in Handler
    BY DEF Typed, TypeOK
  <2>2. handler'[h] \in {handler[h], Idle, [handler[h] EXCEPT !.at = "flush", !.part = handler[h].part + 1],
                         [handler[h] EXCEPT !.at = "flushed", !.part = 1]}
    BY DEF Awaited
  <2>3. Idle.at = "idle" /\ Idle.kind = "none"
    BY DEF Idle
  <2> QED BY <2>1, <2>2, <2>3 DEF Handler
<1> QED BY <1>1 DEF KindStep, Kinds, Creates

\* saveNow sends the text under its own prompt's name.
LEMMA StartAddressed ==
  ASSUME Typed, Waiting, Addressed, NEW p \in Part, dirty[p], Start(p)
  PROVE  /\ Addressed'
         /\ inflight'[p] /\ \A r \in Part : inflight[r] => inflight'[r]
<1>1. inflight \in [Part -> BOOLEAN]
  BY DEF Typed, TypeOK
<1>2. CASE inflight[p]
  BY <1>2 DEF Start, Addressed
<1>3. CASE ~inflight[p]
  <2> DEFINE q == [part |-> p, name |-> chosen, text |-> text[p], at |-> "sent"]
  <2>1. q.at = "sent" /\ q.name = chosen /\ q.text = text[p]
    OBVIOUS
  <2>2. chosen # "" /\ text[p].of = chosen
    BY <1>3 DEF Waiting, Unsent
  <2>3. requests' = requests \cup {q} /\ inflight' = [inflight EXCEPT ![p] = TRUE]
    BY <1>3 DEF Start
  <2> HIDE DEF q
  <2> QED BY <1>1, <2>1, <2>2, <2>3 DEF Addressed
<1> QED BY <1>2, <1>3
-----------------------------------------------------------------------------
\* The editors' own events.
LEMMA EditorsKeep ==
  ASSUME Typed, HomeInv, NEW p \in Part, Focus(p) \/ Type(p) \/ Blur(p), Careful
  PROVE  HomeInv'
<1> USE DEF HomeInv
<1>1. /\ text \in [Part -> Text] /\ dirty \in [Part -> BOOLEAN] /\ inflight \in [Part -> BOOLEAN]
      /\ typed \in Nat
  BY Versions DEF Typed, TypeOK
<1>2. CASE Focus(p)
  <2>1. \A r \in Part : ~Unsent(r)'
    BY <1>2, NobodyWaits DEF Focus, Unsent
  <2> QED BY <1>2, <2>1 DEF Focus, Waiting, Addressed, Kinds, EditsStayInTheirPrompt
<1>3. CASE Type(p)
  <2>1. /\ chosen = shown /\ chosen # "" /\ focus = p
        /\ \A h \in Slots : handler[h].kind \in {"none", "run"}
    <3>1. typed' = typed + 1 /\ focus = p
      BY <1>3 DEF Type
    <3>2. typed' # typed
      BY <1>1, <3>1
    <3> QED BY <3>1, <3>2 DEF Careful
  <2>2. KindStep /\ Kinds'
    BY <1>3, ForgetKinds DEF Type
  <2>3. \A r \in Part : Unsent(r)' => r = p
    BY <1>1, <1>3, <2>1 DEF Type, Waiting, Unsent
  <2>4. text'[p].of = chosen /\ UNCHANGED <<chosen, shown, focus, requests, file>>
    BY <1>1, <1>3, <2>1 DEF Type
  <2>5. Waiting'
    BY <2>1, <2>2, <2>3, <2>4 DEF Waiting, KindStep
  <2> QED BY <2>2, <2>4, <2>5 DEF Addressed, EditsStayInTheirPrompt
<1>4. CASE Blur(p)
  <2>1. /\ UNCHANGED <<file, chosen, shown, text, dirty, handler>> /\ focus = p
        /\ IF dirty[p] THEN Start(p) ELSE UNCHANGED <<requests, inflight>>
    BY <1>4 DEF Blur
  <2>2. Addressed' /\ \A r \in Part : ~Unsent(r)'
    <3>1. CASE dirty[p]
      BY <2>1, <3>1, StartAddressed DEF Unsent, Waiting
    <3>2. CASE ~dirty[p]
      BY <2>1, <3>2 DEF Unsent, Waiting, Addressed
    <3> QED BY <3>1, <3>2
  <2> QED BY <2>1, <2>2 DEF Waiting, Kinds, EditsStayInTheirPrompt
<1> QED BY <1>2, <1>3, <1>4

\* Clicks are possible only when every text is on its way.
LEMMA ClicksKeep ==
  ASSUME Typed, HomeInv,
         Reset \/ \E h \in Slots :
           \/ Submit(h) \/ \E n \in Names \cup {""} : Choose(h, n)
           \/ \E n \in Names : NewPrompt(h, n)
  PROVE  HomeInv'
<1> USE DEF HomeInv, page, Creates
<1>1. /\ UNCHANGED <<file, requests, dirty, inflight>> /\ focus = "none"
  BY DEF Reset, Submit, Choose, NewPrompt
<1>2. \A p \in Part : ~Unsent(p)'
  BY <1>1, NobodyWaits DEF Unsent
<1>3. Kinds'
  <2>1. CASE Reset
    BY <2>1, ForgetKinds DEF Reset
  <2>2. ASSUME NEW h \in Slots, Submit(h) PROVE Kinds'
    <3> DEFINE rec == [Idle EXCEPT !.kind = "run", !.at = "flush",
                                   !.edits = {p \in Part : dirty[p] /\ ~inflight[p]}]
    <3>1. rec.at = "flush" /\ Put(h, rec)
      BY <2>2 DEF Submit, Idle
    <3> HIDE DEF rec
    <3> QED BY <3>1 DEF Kinds, Put, Typed
  <2>3. ASSUME NEW h \in Slots, NEW n, Choose(h, n) PROVE Kinds'
    <3> DEFINE rec == [Idle EXCEPT !.kind = "switch", !.at = "flush"]
    <3>1. rec.at = "flush" /\ handler' = [Forget(Part) EXCEPT ![h] = rec]
      BY <2>3 DEF Choose, Idle
    <3> HIDE DEF rec
    <3> QED BY <3>1, ForgetPutKinds
  <2>4. ASSUME NEW h \in Slots, NEW n, NewPrompt(h, n) PROVE Kinds'
    <3> DEFINE rec == [Idle EXCEPT !.kind = "create", !.at = "check", !.name = n]
    <3>1. rec.kind = "create" /\ Put(h, rec)
      BY <2>4 DEF NewPrompt, Idle
    <3> HIDE DEF rec
    <3> QED BY <3>1 DEF Kinds, Put, Typed
  <2> QED BY <2>1, <2>2, <2>3, <2>4
<1> QED BY <1>1, <1>2, <1>3 DEF Waiting, Addressed, EditsStayInTheirPrompt

\* The handlers' steps at the page.
LEMMA HandlersKeep ==
  ASSUME Typed, HomeInv, NEW h \in Slots,
         Flush(h) \/ Flushed(h) \/ Listed(h) \/ Loaded(h) \/ Answered(h) \/ RequestFails(h)
  PROVE  HomeInv'
<1> USE DEF HomeInv, page, Creates
<1>1. /\ handler[h] \in Handler /\ handler[h] \in Sound /\ Idle.kind = "none" /\ Idle.at = "idle"
      /\ dirty \in [Part -> BOOLEAN] /\ inflight \in [Part -> BOOLEAN]
  BY DEF Typed, TypeOK, Idle
<1>2. CASE Flush(h)
  <2> DEFINE p == Parts[handler[h].part]
  <2>1. p \in Part
    BY <1>1, PartOf DEF Handler, Position
  <2>2. PICK rec : /\ Put(h, rec) /\ rec.kind = handler[h].kind
                   /\ rec.at \in {"wait", "flush", "flushed"}
    <3>1. CASE dirty[p]
      <4> DEFINE new == [handler[h] EXCEPT !.at = "wait"]
      <4>1. Put(h, new)
        BY <1>2, <3>1 DEF Flush
      <4>2. new.kind = handler[h].kind /\ new.at = "wait"
        BY <1>1, <4>1 DEF Handler
      <4> HIDE DEF new
      <4> QED BY <4>1, <4>2
    <3>2. CASE ~dirty[p] /\ handler[h].part < Len(Parts)
      <4> DEFINE new == [handler[h] EXCEPT !.part = handler[h].part + 1]
      <4>1. Put(h, new) /\ handler[h].at = "flush"
        BY <1>2, <3>2 DEF Flush
      <4>2. new.kind = handler[h].kind /\ new.at = "flush"
        BY <1>1, <4>1 DEF Handler
      <4> HIDE DEF new
      <4> QED BY <4>1, <4>2
    <3>3. CASE ~dirty[p] /\ ~(handler[h].part < Len(Parts))
      <4> DEFINE new == [handler[h] EXCEPT !.at = "flushed", !.part = 1]
      <4>1. Put(h, new)
        BY <1>2, <3>3 DEF Flush, Goto
      <4>2. new.kind = handler[h].kind /\ new.at = "flushed"
        BY <1>1, <4>1 DEF Handler
      <4> HIDE DEF new
      <4> QED BY <4>1, <4>2
    <3> QED BY <3>1, <3>2, <3>3
  <2>3. KindStep /\ Kinds'
    BY <2>2, PutKinds
  <2>4. /\ UNCHANGED <<file, chosen, shown, text, dirty, focus>>
        /\ (dirty[p] /\ Start(p)) \/ UNCHANGED <<requests, inflight>>
    BY <1>2 DEF Flush
  <2>5. Addressed' /\ \A r \in Part : Unsent(r)' => Unsent(r)
    BY <2>1, <2>4, StartAddressed DEF Unsent, Addressed
  <2> QED BY <2>3, <2>4, <2>5, WaitingKept DEF EditsStayInTheirPrompt
<1>3. CASE Flushed(h)
  <2>1. UNCHANGED <<file, requests, chosen, inflight, focus>>
    BY <1>3 DEF Flushed
  <2>2. CASE chosen # ""
    <3> DEFINE rec == [handler[h] EXCEPT !.at = "read", !.name = chosen]
    <3>1. rec.kind = handler[h].kind /\ rec.at = "read"
      BY <1>1 DEF Handler
    <3>2. Put(h, rec) /\ UNCHANGED <<shown, text, dirty>>
      BY <1>3, <2>2 DEF Flushed
    <3> HIDE DEF rec
    <3>3. KindStep /\ Kinds'
      BY <3>1, <3>2, PutKinds
    <3> QED BY <2>1, <3>2, <3>3, WaitingKept DEF Unsent, Addressed, EditsStayInTheirPrompt
  <2>3. CASE chosen = ""
    <3>1. KindStep /\ Kinds'
      BY <1>1, <1>3, <2>3, PutKinds DEF Flushed, End
    <3>2. \A p \in Part : ~Unsent(p)'
      BY <1>3, <2>1, <2>3 DEF Flushed, Unsent, Waiting
    <3> QED BY <2>1, <3>1, <3>2 DEF Waiting, Addressed, EditsStayInTheirPrompt
  <2> QED BY <2>2, <2>3
<1>4. CASE Listed(h)
  <2>1. handler[h].kind \in {"create", "open"}
    BY <1>4 DEF Listed, Kinds
  <2>2. \A p \in Part : ~Unsent(p)'
    BY <1>4, <2>1 DEF Listed, Unsent, Waiting
  <2> DEFINE read == [Forget(Part)[h] EXCEPT !.at = "read", !.part = 1]
  <2>3. /\ \E rec \in {Idle, read} : handler' = [Forget(Part) EXCEPT ![h] = rec]
        /\ UNCHANGED <<file, requests>>
    BY <1>4 DEF Listed, Forget
  <2>4. read.at = "read"
    <3>1. Forget(Part)[h] \in Handler
      BY ForgetSound DEF Typed, Sound
    <3> QED BY <3>1 DEF Handler
  <2> HIDE DEF read
  <2>5. Kinds'
    BY <1>1, <2>3, <2>4, ForgetPutKinds
  <2> QED BY <2>2, <2>3, <2>5 DEF Waiting, Addressed, EditsStayInTheirPrompt
<1>5. CASE Loaded(h)
  <2>1. \A p \in Part : ~Unsent(p)'
    BY <1>5 DEF Loaded, Unsent
  <2>2. Kinds' /\ UNCHANGED <<file, requests>>
    BY <1>1, <1>5, ForgetPutKinds DEF Loaded
  <2> QED BY <2>1, <2>2 DEF Waiting, Addressed, EditsStayInTheirPrompt
<1>6. CASE Answered(h) \/ RequestFails(h)
  <2>1. KindStep /\ Kinds'
    BY <1>1, <1>6, PutKinds DEF Answered, RequestFails, End
  <2>2. UNCHANGED <<file, requests, chosen, shown, text, dirty, inflight, focus>>
    BY <1>6 DEF Answered, RequestFails
  <2> QED BY <2>1, <2>2, WaitingKept DEF Unsent, Addressed, EditsStayInTheirPrompt
<1> QED BY <1>2, <1>3, <1>4, <1>5, <1>6

\* An answered save; none is refused.
LEMMA AnswersKeep ==
  ASSUME Typed, HomeInv, NEW q, SaveSucceeded(q) \/ SaveFailed(q)
  PROVE  HomeInv'
<1> USE DEF HomeInv
<1>1. /\ dirty \in [Part -> BOOLEAN] /\ inflight \in [Part -> BOOLEAN]
      /\ \A r \in requests : r.part \in Part
  BY DEF Typed, TypeOK
<1>2. ~SaveFailed(q)
  BY DEF SaveFailed, Addressed
<1>3. /\ UNCHANGED <<file, chosen, shown, text, focus>> /\ requests' \subseteq requests
      /\ handler' = Awaited(q.part, TRUE) /\ q \in requests
      /\ dirty' = [dirty EXCEPT ![q.part] = FALSE]
      /\ inflight' = [inflight EXCEPT ![q.part] = FALSE]
  BY <1>2 DEF SaveSucceeded
<1>4. \A p \in Part : Unsent(p)' => Unsent(p)
  BY <1>1, <1>3 DEF Unsent
<1>5. KindStep /\ Kinds'
  BY <1>3, AwaitedKinds
<1>6. Addressed' /\ EditsStayInTheirPrompt'
  BY <1>3 DEF Addressed, EditsStayInTheirPrompt
<1> QED BY <1>3, <1>4, <1>5, <1>6, WaitingKept

\* The server writes a text to the files of the prompt it belongs to.
LEMMA WritesKeep ==
  ASSUME Typed, HomeInv, NEW q, Truncate(q) \/ Write(q) \/ Refuse(q), Careful
  PROVE  HomeInv'
<1> USE DEF HomeInv, page
<1>1. /\ requests \subseteq Request /\ file \in [Names \X Part -> Content] /\ q \in requests
  BY DEF Typed, TypeOK, Request, Content, Truncate, Write, Refuse
<1>2. ~Refuse(q)
  <2>1. [q EXCEPT !.at = "refused"].at = "refused"
    BY <1>1 DEF Request
  <2> QED BY <2>1 DEF Refuse, Replace, Careful
<1>3. PICK label \in {"open", "stored"} :
        /\ Replace(q, label)
        /\ \/ file' = [file EXCEPT ![<<q.name, q.part>>] = Torn]
           \/ file' = [file EXCEPT ![<<q.name, q.part>>] = q.text]
  BY <1>2 DEF Truncate, Write
<1>4. UNCHANGED <<page, handler>>
  BY DEF Truncate, Write, Refuse
<1>5. Waiting' /\ Kinds'
  BY <1>4 DEF Waiting, Kinds, Unsent
<1>6. Addressed'
  <2> DEFINE new == [q EXCEPT !.at = label]
  <2>1. requests' = (requests \ {q}) \cup {new}
    BY <1>3 DEF Replace
  <2>2. new.at = label /\ new.name = q.name /\ new.text = q.text
    BY <1>1 DEF Request
  <2> HIDE DEF new
  <2> QED BY <1>1, <2>1, <2>2 DEF Addressed
<1>7. EditsStayInTheirPrompt'
  <2>1. q.text.of = q.name
    BY <1>1 DEF Addressed
  <2>2. ASSUME NEW n \in Names, NEW p \in Part
        PROVE  file'[<<n, p>>] \in {NoFile, Torn} \/ file'[<<n, p>>].of = n
    <3> DEFINE np == <<n, p>>
    <3>1. np \in Names \X Part /\ (np = <<q.name, q.part>> => n = q.name)
      OBVIOUS
    <3>2. file[np] \in {NoFile, Torn} \/ file[np].of = n
      BY <2>2 DEF EditsStayInTheirPrompt
    <3> HIDE DEF np
    <3>3. \/ file'[np] = file[np] \/ file'[np] = Torn
          \/ np = <<q.name, q.part>> /\ file'[np] = q.text
      BY <1>1, <1>3, <3>1
    <3>4. file'[np] \in {NoFile, Torn} \/ file'[np].of = n
      BY <2>1, <3>1, <3>2, <3>3
    <3> QED BY <3>4 DEF np
  <2> QED BY <2>2 DEF EditsStayInTheirPrompt
<1> QED BY <1>5, <1>6, <1>7

\* The server's part of the handlers.
LEMMA ServerKeeps ==
  ASSUME Typed, HomeInv, NEW h \in Slots,
         ListNames(h) \/ Check(h) \/ WriteBlank(h) \/ ReadFile(h)
  PROVE  HomeInv'
<1> USE DEF HomeInv, page, Creates
<1>1. /\ handler[h] \in Handler /\ handler[h] \in Sound /\ Idle.kind = "none" /\ Idle.at = "idle"
      /\ file \in [Names \X Part -> Content]
  BY DEF Typed, TypeOK, Content, Idle
<1>2. UNCHANGED <<requests, page>>
  BY DEF ListNames, Check, WriteBlank, ReadFile
<1>3. KindStep /\ Kinds'
  <2>1. CASE Check(h)
    <3> DEFINE new == [handler[h] EXCEPT !.at = "write", !.part = 1]
    <3>1. new.at = "write" /\ new.kind = handler[h].kind
      BY <1>1 DEF Handler
    <3>2. handler[h].kind \in {"create", "open"} /\ (Put(h, Idle) \/ Put(h, new))
      BY <2>1 DEF Check, Kinds, End, Goto
    <3> HIDE DEF new
    <3> QED BY <1>1, <3>1, <3>2, PutKinds
  <2>2. CASE WriteBlank(h)
    <3> DEFINE P == {Parts[handler[h].part]}
               old == Forget(P)[h]
               new == IF old.part < Len(Parts) THEN [old EXCEPT !.part = handler[h].part + 1]
                      ELSE [old EXCEPT !.at = "list", !.part = 1]
    <3>1. handler' = [Forget(P) EXCEPT ![h] = new] /\ handler[h].at = "write"
      BY <2>2 DEF WriteBlank, Forget
    <3>2. old \in Handler /\ old.kind = handler[h].kind /\ old.at = handler[h].at
      BY ForgetSound DEF Typed, Sound
    <3> HIDE DEF old
    <3>3. new.kind = handler[h].kind
      BY <3>2 DEF Handler
    <3> HIDE DEF new, P
    <3>4. handler[h].kind \in {"create", "open"}
      BY <3>1 DEF Kinds
    <3> QED BY <3>1, <3>3, <3>4, ForgetPutKinds
  <2>3. CASE ReadFile(h)
    <3>1. CASE file[<<handler[h].name, Parts[handler[h].part]>>] = NoFile
      BY <1>1, <2>3, <3>1, PutKinds DEF ReadFile, End
    <3>2. CASE file[<<handler[h].name, Parts[handler[h].part]>>] # NoFile
      <4> DEFINE p == Parts[handler[h].part]
                 got == [handler[h].got EXCEPT ![p] = file[<<handler[h].name, p>>]]
                 part == IF handler[h].part < Len(Parts) THEN handler[h].part + 1 ELSE 1
                 at == IF handler[h].part < Len(Parts) THEN handler[h].at ELSE "got"
                 new == [handler[h] EXCEPT !.got = got, !.part = part, !.at = at]
      <4>1. Put(h, new) /\ handler[h].at = "read"
        BY <1>1, <2>3, <3>2 DEF ReadFile, Handler
      <4> HIDE DEF got, part
      <4>2. new.kind = handler[h].kind /\ new.at \in {"read", "got"}
        BY <1>1, <4>1 DEF Handler
      <4> HIDE DEF new
      <4> QED BY <4>1, <4>2, PutKinds
    <3> QED BY <3>1, <3>2
  <2>4. CASE ListNames(h)
    <3> DEFINE new == [handler[h] EXCEPT !.at = "listed", !.names = Listable]
    <3>1. new.at = "listed" /\ new.kind = handler[h].kind
      BY <1>1 DEF Handler
    <3>2. handler[h].kind \in {"create", "open"} /\ Put(h, new)
      BY <2>4 DEF ListNames, Kinds
    <3> HIDE DEF new
    <3> QED BY <3>1, <3>2, PutKinds
  <2> QED BY <2>1, <2>2, <2>3, <2>4
<1>4. EditsStayInTheirPrompt'
  <2>1. CASE UNCHANGED file
    BY <2>1 DEF EditsStayInTheirPrompt
  <2>2. CASE WriteBlank(h)
    <3> DEFINE x == <<handler[h].name, Parts[handler[h].part]>>
    <3>1. file' = [file EXCEPT ![x] = Blank(handler[h].name)]
      BY <2>2 DEF WriteBlank
    <3>2. ASSUME NEW n \in Names, NEW p \in Part
          PROVE  file'[<<n, p>>] \in {NoFile, Torn} \/ file'[<<n, p>>].of = n
      <4> DEFINE np == <<n, p>>
      <4>1. np \in Names \X Part /\ (np = x => n = handler[h].name)
        OBVIOUS
      <4>2. file[np] \in {NoFile, Torn} \/ file[np].of = n
        BY DEF EditsStayInTheirPrompt
      <4> HIDE DEF np, x
      <4>3. file'[np] = file[np] \/ (np = x /\ file'[np] = Blank(handler[h].name))
        BY <1>1, <3>1, <4>1
      <4>4. file'[np] \in {NoFile, Torn} \/ file'[np].of = n
        BY <4>1, <4>2, <4>3 DEF Blank
      <4> QED BY <4>4 DEF np
    <3> QED BY <3>2 DEF EditsStayInTheirPrompt
  <2> QED BY <2>1, <2>2 DEF ListNames, Check, ReadFile
<1>5. Waiting' /\ Addressed'
  BY <1>2, <1>3, WaitingKept DEF Unsent, Addressed
<1> QED BY <1>3, <1>4, <1>5
-----------------------------------------------------------------------------
LEMMA HomeInit == Init => HomeInv
<1> SUFFICES ASSUME Init PROVE HomeInv
  OBVIOUS
<1>1. Waiting /\ Addressed
  BY DEF Init, Waiting, Unsent, Addressed
<1>2. Kinds
  BY InitHandlers, IdleSound, OpeningSound DEF Kinds, Creates
<1>3. EditsStayInTheirPrompt
  BY DEF Init, EditsStayInTheirPrompt
<1> QED BY <1>1, <1>2, <1>3 DEF HomeInv

\* The server may die while no save is on its way.
LEMMA CrashKeeps ==
  ASSUME Typed, HomeInv, Crash, Careful
  PROVE  HomeInv'
<1> USE DEF HomeInv, page
<1>1. requests = {} /\ requests' = {}
  <2>1. requests \subseteq Request
    BY DEF Typed, TypeOK, Request
  <2>2. ASSUME NEW q \in requests PROVE FALSE
    <3>1. [q EXCEPT !.at = "refused"].at = "refused"
      BY <2>1 DEF Request
    <3> QED BY <3>1 DEF Crash, Careful
  <2> QED BY <2>2 DEF Crash
<1>2. KindStep /\ Kinds'
  <2>1. \A h \in Slots : handler'[h] \in {Idle, handler[h]}
    BY DEF Crash
  <2>2. Idle.kind = "none" /\ Idle.at = "idle"
    BY DEF Idle
  <2> QED BY <2>1, <2>2 DEF KindStep, Kinds, Creates
<1>3. UNCHANGED <<file, chosen, shown, text, dirty, inflight, focus>>
  BY DEF Crash
<1> QED BY <1>1, <1>2, <1>3, WaitingKept DEF Unsent, Addressed, EditsStayInTheirPrompt

LEMMA HomeNext == Typed /\ HomeInv /\ [Next]_vars /\ [Careful]_vars => HomeInv'
<1> SUFFICES ASSUME Typed, HomeInv, [Next]_vars, [Careful]_vars PROVE HomeInv'
  OBVIOUS
<1>1. CASE UNCHANGED vars
  BY <1>1 DEF vars, page, HomeInv, Waiting, Unsent, Addressed, Kinds, EditsStayInTheirPrompt
<1>2. CASE Next /\ Careful
  <2>1. CASE User
    BY <1>2, <2>1, EditorsKeep, ClicksKeep DEF User
  <2>2. ASSUME NEW h \in Slots, HandlerStep(h) \/ RequestFails(h) PROVE HomeInv'
    BY <2>2, HandlersKeep, ServerKeeps DEF HandlerStep
  <2>3. ASSUME NEW p \in Part, SaveStep(p) PROVE HomeInv'
    BY <1>2, <2>3, AnswersKeep, WritesKeep DEF SaveStep
  <2>4. ASSUME Crash PROVE HomeInv'
    BY <1>2, <2>4, CrashKeeps
  <2> QED BY <1>2, <2>1, <2>2, <2>3, <2>4 DEF Next
<1> QED BY <1>1, <1>2

\* The texts of a prompt stay in its files as long as no save is refused or lost, and
\* nobody types into an editor that shows another prompt than the selected one, or is
\* about to: whatever is clicked, whatever other request fails, and however handlers and
\* saves overlap, saveNow then reads the right name.
THEOREM CarefulEditsStay == Spec /\ [][Careful]_vars => []EditsStayInTheirPrompt
<1>1. Init => Typed /\ HomeInv
  BY TypeInit, HomeInit
<1>2. Typed /\ HomeInv /\ [Next]_vars /\ [Careful]_vars => (Typed /\ HomeInv)'
  BY TypeNext, HomeNext
<1>3. HomeInv => EditsStayInTheirPrompt
  BY DEF HomeInv
<1> QED BY <1>1, <1>2, <1>3, PTL DEF Spec
=============================================================================
