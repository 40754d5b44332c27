----------------------- MODULE PromptPlaygroundProofs -----------------------
(***************************************************************************)
(* PromptPlayground's invariants hold for every set of prompts, any parts, *)
(* any number of handlers and without any bound.                           *)
(***************************************************************************)
EXTENDS PromptPlayground, SequenceTheorems, TLAPS

Position == 1..Len(Parts)

\* A handler that works on a prompt has its name, starts to read with the first part, and
\* what it has read so far are files that exist.
Sound == {rec \in Handler :
            /\ rec.at \in {"check", "write", "read", "got"} => rec.name \in Names
            /\ rec.at = "flushed" => rec.part = 1
            /\ rec.at = "read" => \A i \in Position : i < rec.part => rec.got[Parts[i]] # NoFile
            /\ rec.at = "got" => \A p \in Part : rec.got[p] # NoFile}

Typed == TypeOK /\ handler \in [Slots -> Sound]

Request == [part : Part, name : Names \cup {""}, text : Text,
            at : {"sent", "open", "stored", "refused"}]

Content == Text \cup {NoFile, Torn}
-----------------------------------------------------------------------------
\* The parts of a prompt have positions, every position has a part and, but for the last
\* one, a next position.
LEMMA PartOf ==
  /\ 1 \in Position
  /\ \A i \in Position : Parts[i] \in Part
  /\ \A p \in Part : \E i \in Position : Parts[i] = p
  /\ \A i \in Position : i < Len(Parts) => i + 1 \in Position
  /\ \A i \in Position : ~(i < 1)
<1>1. Parts \in Seq(STRING) /\ Len(Parts) > 0
  BY PageAssumption
<1>2. Len(Parts) \in Nat
  BY <1>1, LenProperties
<1> DEFINE n == Len(Parts)
<1>3. n \in Nat /\ n > 0
  BY <1>1, <1>2
<1>4. /\ 1 \in 1..n
      /\ \A i \in 1..n : i < n => i + 1 \in 1..n
      /\ \A i \in 1..n : ~(i < 1)
  <2> HIDE DEF n
  <2> QED
    BY <1>3
<1> QED
  BY <1>4 DEF Part, Position

\* A blank text is a text, and so are the first and the newest one.
LEMMA TextTypes ==
  /\ \A n \in Names \cup {""} : Blank(n) \in Text
  /\ \A n \in Names : [of |-> n, v |-> 1] \in Text
  /\ \A n \in Names \cup {""}, k \in 0..MaxTyped :
           k < MaxTyped => [of |-> n, v |-> k + 2] \in Text
  /\ \A x \in Content : x.v \in Nat
<1>1. MaxTyped \in Nat
  BY PageAssumption
<1>2. /\ 0 \in 0..MaxTyped + 1 /\ 1 \in 0..MaxTyped + 1
      /\ \A k \in 0..MaxTyped : k < MaxTyped => k + 2 \in 0..MaxTyped + 1
      /\ 0..MaxTyped + 1 \subseteq Nat
  BY <1>1
<1>3. \A n \in Names \cup {""} : Blank(n) \in Text
  BY <1>2 DEF Blank, Text
<1>4. /\ \A n \in Names : [of |-> n, v |-> 1] \in Text
      /\ \A n \in Names \cup {""}, k \in 0..MaxTyped :
           k < MaxTyped => [of |-> n, v |-> k + 2] \in Text
  BY <1>2 DEF Text
<1>5. \A x \in Text : x.v \in Nat
  BY <1>2 DEF Text
<1>6. NoFile.v \in Nat /\ Torn.v \in Nat
  BY DEF NoFile, Torn
<1> QED
  BY <1>3, <1>4, <1>5, <1>6 DEF Content

\* The bound on edits counts up.
LEMMA CountTyped == \A k \in 0..MaxTyped : k < MaxTyped => k + 1 \in 0..MaxTyped
<1>1. MaxTyped \in Nat
  BY PageAssumption
<1> QED
  BY <1>1

\* A handler that is idle.
LEMMA IdleSound == Idle \in Sound /\ Idle \in Handler /\ Idle.at = "idle" /\ Idle.edits = {}
<1>1. 1 \in Position
  BY PartOf
<1> QED
  BY <1>1 DEF Idle, Handler, Sound, Position

\* The page that is being opened is another one that has read nothing.
LEMMA OpeningSound ==
  /\ Opening \in Sound /\ Opening.at = "list" /\ Opening.kind = "open"
  /\ Opening.edits = {} /\ Opening.got = Idle.got
BY IdleSound DEF Opening, Handler, Sound, Idle

LEMMA InitHandlers == Init => \A h \in Slots : handler[h] \in {Idle, Opening}
BY DEF Init

\* Initially all variables have their types.
LEMMA TypeInit == Init => Typed
<1> SUFFICES ASSUME Init PROVE Typed
  OBVIOUS
<1>1. file \in [Names \X Part -> Content]
  BY TextTypes DEF Init, Content
<1>2. Given \subseteq Names /\ MaxTyped \in Nat
  BY PageAssumption
<1>4. 0 \in 0..MaxTyped
  BY <1>2
<1>5. requests \subseteq Request
  BY DEF Init
<1>6. handler \in [Slots -> Handler] /\ handler \in [Slots -> Sound]
  <2>1. \A rec \in {Idle, Opening} : rec \in Handler /\ rec \in Sound
    BY IdleSound, OpeningSound DEF Sound
  <2> QED
    BY <2>1 DEF Init
<1>7. text \in [Part -> Text]
  BY TextTypes DEF Init
<1> QED
  BY <1>1, <1>2, <1>4, <1>5, <1>6, <1>7 DEF Init, Typed, TypeOK, Request, Content

\* A handler that forgets edits is the same otherwise.
LEMMA ForgetOne ==
  ASSUME NEW rec \in Sound, NEW P
  PROVE  /\ [rec EXCEPT !.edits = rec.edits \ P] \in Sound
         /\ LET new == [rec EXCEPT !.edits = rec.edits \ P]
            IN /\ new.kind = rec.kind /\ new.at = rec.at /\ new.part = rec.part
               /\ new.name = rec.name /\ new.got = rec.got /\ new.edits = rec.edits \ P
BY DEF Sound, Handler

\* Forgetting edits keeps the handlers sound.
LEMMA ForgetSound ==
  ASSUME handler \in [Slots -> Sound], NEW P
  PROVE  /\ Forget(P) \in [Slots -> Sound]
         /\ \A h \in Slots :
              /\ Forget(P)[h].kind = handler[h].kind /\ Forget(P)[h].at = handler[h].at
              /\ Forget(P)[h].part = handler[h].part /\ Forget(P)[h].name = handler[h].name
              /\ Forget(P)[h].got = handler[h].got /\ Forget(P)[h].edits = handler[h].edits \ P
<1>1. ASSUME NEW h \in Slots
      PROVE  /\ Forget(P)[h] \in Sound
             /\ Forget(P)[h].kind = handler[h].kind /\ Forget(P)[h].at = handler[h].at
             /\ Forget(P)[h].part = handler[h].part /\ Forget(P)[h].name = handler[h].name
             /\ Forget(P)[h].got = handler[h].got /\ Forget(P)[h].edits = handler[h].edits \ P
  <2>1. handler[h] \in Sound
    OBVIOUS
  <2>2. Forget(P)[h] = [handler[h] EXCEPT !.edits = handler[h].edits \ P]
    BY DEF Forget
  <2> QED
    BY <2>1, <2>2, ForgetOne
<1>2. Forget(P) = [h \in Slots |-> Forget(P)[h]]
  BY DEF Forget
<1>3. Forget(P) \in [Slots -> Sound]
  BY <1>1, <1>2
<1> QED
  BY <1>1, <1>3

\* saveNow sends a request and marks it as sent.
LEMMA StartType ==
  ASSUME TypeOK, NEW p \in Part, Start(p)
  PROVE  requests' \subseteq Request /\ inflight' \in [Part -> BOOLEAN]
<1>1. [part |-> p, name |-> chosen, text |-> text[p], at |-> "sent"] \in Request
  BY DEF TypeOK, Request
<1> QED
  BY <1>1 DEF Start, TypeOK, Request

\* A handler at another place, or at another part of the same one.
LEMMA MoveSound ==
  ASSUME NEW rec \in Sound
  PROVE  /\ [rec EXCEPT !.at = "wait"] \in Sound
         /\ \A k \in Position : [rec EXCEPT !.at = "flush", !.part = k] \in Sound
         /\ [rec EXCEPT !.at = "flushed", !.part = 1] \in Sound
         /\ rec.at \in {"flush", "write"} => \A k \in Position : [rec EXCEPT !.part = k] \in Sound
         /\ rec.name \in Names => \A place \in {"write", "list", "read"} :
                                    [rec EXCEPT !.at = place, !.part = 1] \in Sound
         /\ rec.part = 1 => \A n \in Names : [rec EXCEPT !.at = "read", !.name = n] \in Sound
<1> DEFINE Free(r) == /\ r \in Handler /\ r.at \notin {"flushed", "read", "got"}
                      /\ r.at \in {"check", "write"} => r.name \in Names
<1>0. \A r : Free(r) => r \in Sound
  BY DEF Sound
<1>1. Free([rec EXCEPT !.at = "wait"])
  BY DEF Sound, Handler
<1>2. \A k \in Position : Free([rec EXCEPT !.at = "flush", !.part = k])
  BY DEF Sound, Handler, Position
<1>3. rec.at \in {"flush", "write"} => \A k \in Position : Free([rec EXCEPT !.part = k])
  BY DEF Sound, Handler, Position
<1>4. 1 \in Position /\ \A i \in Position : ~(i < 1)
  BY PartOf
<1>5. [rec EXCEPT !.at = "flushed", !.part = 1] \in Sound
  BY <1>4 DEF Sound, Handler, Position
<1>6. rec.name \in Names => \A place \in {"write", "list", "read"} :
                              [rec EXCEPT !.at = place, !.part = 1] \in Sound
  BY <1>4 DEF Sound, Handler, Position
<1>7. rec.part = 1 => \A n \in Names : [rec EXCEPT !.at = "read", !.name = n] \in Sound
  BY <1>4 DEF Sound, Handler, Position
<1> HIDE DEF Free
<1> QED
  BY <1>0, <1>1, <1>2, <1>3, <1>5, <1>6, <1>7

\* Handlers that await a save, when it is answered.
LEMMA AwaitedSound ==
  ASSUME handler \in [Slots -> Sound], NEW p \in Part, NEW ok \in BOOLEAN
  PROVE  Awaited(p, ok) \in [Slots -> Sound]
<1>1. ASSUME NEW h \in Slots
      PROVE  Awaited(p, ok)[h] \in Sound
  <2>1. handler[h] \in Sound /\ handler[h].part \in Position
    BY DEF Sound, Handler, Position
  <2>2. Idle \in Sound
    BY IdleSound
  <2>3. handler[h].part < Len(Parts) =>
          [handler[h] EXCEPT !.at = "flush", !.part = handler[h].part + 1] \in Sound
    BY <2>1, PartOf, MoveSound
  <2>4. [handler[h] EXCEPT !.at = "flushed", !.part = 1] \in Sound
    BY <2>1, MoveSound
  <2> QED
    BY <2>1, <2>2, <2>3, <2>4 DEF Awaited
<1>2. Awaited(p, ok) = [h \in Slots |-> Awaited(p, ok)[h]]
  BY DEF Awaited
<1> QED
  BY <1>1, <1>2

\* A request for the same text, under another label.
LEMMA RelabelType ==
  ASSUME requests \subseteq Request, NEW q \in requests,
         NEW label \in {"open", "stored", "refused"}, Replace(q, label)
  PROVE  requests' \subseteq Request
<1>1. [q EXCEPT !.at = label] \in Request
  BY DEF Request
<1> QED
  BY <1>1 DEF Replace

\* Every step keeps the types.
LEMMA TypeNext == Typed /\ [Next]_vars => Typed'
<1> SUFFICES ASSUME Typed, [Next]_vars PROVE Typed'
  OBVIOUS
<1> USE DEF page
<1> DEFINE Rest == /\ file \in [Names \X Part -> Content] /\ requests \subseteq Request
                   /\ options \subseteq Names /\ {chosen, shown} \subseteq Names \cup {""}
                   /\ text \in [Part -> Text]
                   /\ dirty \in [Part -> BOOLEAN] /\ inflight \in [Part -> BOOLEAN]
                   /\ focus \in Part \cup {"none"}
                   /\ typed \in 0..MaxTyped /\ failures \in Nat
<1>1. Rest /\ handler \in [Slots -> Sound] /\ TypeOK
  BY DEF Typed, TypeOK, Request, Content
<1>2. ASSUME Rest', handler' \in [Slots -> Sound]
      PROVE  Typed'
  <2>1. Sound \subseteq Handler
    BY DEF Sound
  <2>2. handler' \in [Slots -> Handler]
    BY <1>2, <2>1
  <2> QED
    BY <1>2, <2>2 DEF Typed, TypeOK, Request, Content
<1>3. CASE UNCHANGED vars
  BY <1>1, <1>2, <1>3 DEF vars
<1>4. ASSUME NEW p \in Part, Focus(p) PROVE Typed'
  BY <1>1, <1>2, <1>4 DEF Focus
<1>5. ASSUME NEW p \in Part, Type(p) PROVE Typed'
  <2>1. [of |-> shown, v |-> typed + 2] \in Text /\ typed + 1 \in 0..MaxTyped
    BY <1>1, <1>5, TextTypes, CountTyped DEF Type
  <2>2. handler' \in [Slots -> Sound]
    BY <1>1, <1>5, ForgetSound DEF Type
  <2>3. Rest'
    BY <1>1, <1>5, <2>1 DEF Type
  <2> QED
    BY <1>2, <2>2, <2>3
<1>6. ASSUME NEW p \in Part, Blur(p) PROVE Typed'
  <2>1. requests' \subseteq Request /\ inflight' \in [Part -> BOOLEAN]
    BY <1>1, <1>6, StartType DEF Blur
  <2> QED
    BY <1>1, <1>2, <1>6, <2>1 DEF Blur
<1>7. ASSUME NEW h \in Slots, NEW n \in Names \cup {""}, Choose(h, n) PROVE Typed'
  <2> DEFINE rec == [Idle EXCEPT !.kind = "switch", !.at = "flush"]
  <2>1. rec \in Sound
    BY IdleSound DEF Sound, Handler
  <2> HIDE DEF rec
  <2>2. handler' = [Forget(Part) EXCEPT ![h] = rec]
    BY <1>7 DEF Choose, rec
  <2>3. Forget(Part) \in [Slots -> Sound]
    BY <1>1, ForgetSound
  <2>4. handler' \in [Slots -> Sound]
    BY <2>1, <2>2, <2>3
  <2>5. Rest'
    BY <1>1, <1>7 DEF Choose
  <2> QED
    BY <1>2, <2>4, <2>5
<1>8. ASSUME NEW h \in Slots, NEW rec \in Sound, Put(h, rec)
      PROVE  handler' \in [Slots -> Sound]
  BY <1>1, <1>8 DEF Put
<1>9. ASSUME NEW h \in Slots, Submit(h) PROVE Typed'
  <2> DEFINE P == {p \in Part : dirty[p] /\ ~inflight[p]}
             rec == [Idle EXCEPT !.kind = "run", !.at = "flush", !.edits = P]
  <2>1. P \subseteq Part
    OBVIOUS
  <2>2. Put(h, rec)
    BY <1>9 DEF Submit
  <2> HIDE DEF P
  <2>3. rec \in Sound
    BY <2>1, IdleSound DEF Sound, Handler
  <2> HIDE DEF rec
  <2>4. handler' \in [Slots -> Sound]
    BY <1>8, <2>2, <2>3
  <2>5. Rest'
    BY <1>1, <1>9 DEF Submit
  <2> QED
    BY <1>2, <2>4, <2>5
<1>10. ASSUME NEW h \in Slots, NEW n \in Names, NewPrompt(h, n) PROVE Typed'
  <2> DEFINE rec == [Idle EXCEPT !.kind = "create", !.at = "check", !.name = n]
  <2>1. rec \in Sound
    BY IdleSound DEF Sound, Handler
  <2>2. Put(h, rec)
    BY <1>10 DEF NewPrompt
  <2> HIDE DEF rec
  <2>3. handler' \in [Slots -> Sound]
    BY <1>8, <2>1, <2>2
  <2>4. Rest'
    BY <1>1, <1>10 DEF NewPrompt
  <2> QED
    BY <1>2, <2>3, <2>4
<1>11. CASE Reset
  <2>1. handler' \in [Slots -> Sound]
    BY <1>1, <1>11, ForgetSound DEF Reset
  <2>2. Rest'
    BY <1>1, <1>11, TextTypes DEF Reset
  <2> QED
    BY <1>2, <2>1, <2>2
<1>12. ASSUME NEW h \in Slots, Flush(h) PROVE Typed'
  <2>1. handler[h] \in Sound /\ handler[h].part \in Position /\ Parts[handler[h].part] \in Part
        /\ handler[h].at = "flush"
    BY <1>1, <1>12, PartOf DEF Flush, Sound, Handler, Position
  <2>2. requests' \subseteq Request /\ inflight' \in [Part -> BOOLEAN]
    BY <1>1, <1>12, <2>1, StartType DEF Flush
  <2>3. [handler[h] EXCEPT !.at = "wait"] \in Sound
    BY <2>1, MoveSound
  <2>4. handler[h].part < Len(Parts) => [handler[h] EXCEPT !.part = handler[h].part + 1] \in Sound
    BY <2>1, PartOf, MoveSound
  <2>5. [handler[h] EXCEPT !.at = "flushed", !.part = 1] \in Sound
    BY <2>1, MoveSound
  <2>6. handler' \in [Slots -> Sound]
    BY <1>8, <1>12, <2>3, <2>4, <2>5 DEF Flush, Goto
  <2>7. Rest'
    BY <1>1, <1>12, <2>2 DEF Flush
  <2> QED
    BY <1>2, <2>6, <2>7
<1>13. ASSUME NEW h \in Slots, Flushed(h) PROVE Typed'
  <2>1. handler[h] \in Sound /\ handler[h].part = 1 /\ chosen \in Names \cup {""}
    BY <1>1, <1>13 DEF Flushed, Sound
  <2>2. chosen # "" => [handler[h] EXCEPT !.at = "read", !.name = chosen] \in Sound
    BY <2>1, MoveSound
  <2>3. handler' \in [Slots -> Sound]
    BY <1>8, <1>13, <2>2, IdleSound DEF Flushed, End
  <2>4. shown' \in Names \cup {""} /\ text' \in [Part -> Text] /\ dirty' \in [Part -> BOOLEAN]
    <3>1. \A p \in Part : Blank("") \in Text
      BY TextTypes
    <3>2. CASE UNCHANGED <<shown, text, dirty>>
      BY <1>1, <3>2
    <3>3. CASE shown' = "" /\ text' = [p \in Part |-> Blank("")] /\ dirty' = [p \in Part |-> FALSE]
      BY <3>1, <3>3
    <3> QED
      BY <1>13, <3>2, <3>3 DEF Flushed
  <2>5. Rest'
    BY <1>1, <1>13, <2>4 DEF Flushed
  <2> QED
    BY <1>2, <2>3, <2>5
<1>14. ASSUME NEW h \in Slots, Listed(h) PROVE Typed'
  <2> DEFINE read == [Forget(Part)[h] EXCEPT !.at = "read", !.part = 1]
             rec == IF handler[h].name = "" THEN Idle ELSE read
  <2>1. Forget(Part) \in [Slots -> Sound]
    BY <1>1, ForgetSound
  <2>2. handler[h].name # "" => Forget(Part)[h].name \in Names
    <3>1. Forget(Part)[h].name = handler[h].name
      <4>1. handler \in [Slots -> Sound]
        BY <1>1
      <4> HIDE DEF Rest
      <4> QED
        BY <4>1, ForgetSound
    <3>2. handler[h].name \in Names \cup {""}
      BY <1>1 DEF Sound, Handler
    <3> QED
      BY <3>1, <3>2
  <2>3. rec \in Sound
    BY <2>1, <2>2, MoveSound, IdleSound
  <2>4. handler' = [Forget(Part) EXCEPT ![h] = rec]
    BY <1>14, <2>1 DEF Listed
  <2> HIDE DEF rec
  <2>5. handler' \in [Slots -> Sound]
    BY <2>1, <2>3, <2>4
  <2>6. handler[h].name \in Names \cup {""} /\ handler[h].names \subseteq Names
    BY <1>1 DEF Sound, Handler
  <2>7. Rest'
    BY <1>1, <1>14, <2>6 DEF Listed
  <2> QED
    BY <1>2, <2>5, <2>7
<1>15. ASSUME NEW h \in Slots, Loaded(h) PROVE Typed'
  <2>1. handler[h] \in Sound /\ handler[h].at = "got"
    BY <1>1, <1>15 DEF Loaded
  <2>2. /\ handler[h].name \in Names \cup {""} /\ handler[h].got \in [Part -> Content]
        /\ \A p \in Part : handler[h].got[p] # NoFile
    BY <2>1 DEF Sound, Handler, Content
  <2>3. ASSUME NEW p \in Part
        PROVE  (IF handler[h].got[p] = Torn THEN Blank(handler[h].name) ELSE handler[h].got[p])
                 \in Text
    BY <2>2, TextTypes DEF Content
  <2>4. Rest'
    BY <1>1, <1>15, <2>2, <2>3 DEF Loaded
  <2>5. Forget(Part) \in [Slots -> Sound]
    BY <1>1, ForgetSound
  <2>6. handler' \in [Slots -> Sound]
    BY <1>15, <2>5, IdleSound DEF Loaded
  <2> QED
    BY <1>2, <2>4, <2>6
<1>16. ASSUME NEW h \in Slots, Answered(h) PROVE Typed'
  <2>1. handler' \in [Slots -> Sound]
    BY <1>8, <1>16, IdleSound DEF Answered, End
  <2> QED
    BY <1>1, <1>2, <1>16, <2>1 DEF Answered
<1>17. ASSUME NEW h \in Slots, Check(h) PROVE Typed'
  <2>1. handler[h] \in Sound /\ handler[h].name \in Names
    BY <1>1, <1>17 DEF Check, Sound
  <2>2. [handler[h] EXCEPT !.at = "write", !.part = 1] \in Sound
    BY <2>1, MoveSound
  <2>3. handler' \in [Slots -> Sound]
    BY <1>8, <1>17, <2>2, IdleSound DEF Check, End, Goto
  <2> QED
    BY <1>1, <1>2, <1>17, <2>3 DEF Check
<1>18. ASSUME NEW h \in Slots, WriteBlank(h) PROVE Typed'
  <2> DEFINE p == Parts[handler[h].part]
             old == Forget({p})[h]
  <2>1. handler[h] \in Sound /\ handler[h].part \in Position /\ handler[h].at = "write"
    BY <1>1, <1>18 DEF WriteBlank, Sound, Handler, Position
  <2>2. p \in Part
    BY <2>1, PartOf
  <2>3. handler \in [Slots -> Sound]
    BY <1>1
  <2> HIDE DEF p
  <2>4. /\ Forget({p}) \in [Slots -> Sound] /\ old.at = "write"
        /\ old.part = handler[h].part /\ old.name = handler[h].name
    BY <2>3, <2>1, ForgetSound
  <2> USE DEF p
  <2>5. handler' = [Forget({p}) EXCEPT
                      ![h] = IF old.part < Len(Parts)
                             THEN [old EXCEPT !.part = handler[h].part + 1]
                             ELSE [old EXCEPT !.at = "list", !.part = 1]]
    BY <1>18 DEF WriteBlank
  <2>6. file' = [file EXCEPT ![<<handler[h].name, p>>] = Blank(handler[h].name)]
    BY <1>18 DEF WriteBlank
  <2> HIDE DEF p
  <2>7. old \in Sound
    BY <2>4
  <2> HIDE DEF old
  <2>8. handler[h].name \in Names
    BY <2>1 DEF Sound
  <2>9. old.part < Len(Parts) => [old EXCEPT !.part = handler[h].part + 1] \in Sound
    BY <2>1, <2>4, <2>7, PartOf, MoveSound
  <2>10. [old EXCEPT !.at = "list", !.part = 1] \in Sound
    BY <2>4, <2>7, <2>8, MoveSound
  <2>11. handler' \in [Slots -> Sound]
    BY <2>4, <2>5, <2>9, <2>10
  <2>12. file' \in [Names \X Part -> Content]
    <3>1. Blank(handler[h].name) \in Content
      BY <2>8, TextTypes DEF Content
    <3> QED
      BY <1>1, <2>6, <3>1
  <2> QED
    BY <1>1, <1>2, <1>18, <2>11, <2>12 DEF WriteBlank
<1>19. ASSUME NEW h \in Slots, ReadFile(h) PROVE Typed'
  <2> DEFINE k == handler[h].part
             content == file[<<handler[h].name, Parts[k]>>]
             next == IF k < Len(Parts) THEN k + 1 ELSE 1
             at == IF k < Len(Parts) THEN "read" ELSE "got"
             got == [handler[h].got EXCEPT ![Parts[k]] = content]
             rec == [handler[h] EXCEPT !.got = got, !.part = next, !.at = at]
  <2>1. handler[h] \in Sound /\ handler[h].at = "read" /\ k \in Position /\ Parts[k] \in Part
    BY <1>1, <1>19, PartOf DEF ReadFile, Sound, Handler, Position
  <2>2. content = NoFile \/ Put(h, rec)
    BY <1>19, <2>1 DEF ReadFile, Sound, Handler
  <2>3. content = NoFile => Put(h, Idle)
    BY <1>19 DEF ReadFile, End
  <2>4. handler[h].name \in Names /\ content \in Content
    <3>1. handler[h].name \in Names
      BY <2>1 DEF Sound
    <3>2. file \in [Names \X Part -> Content]
      BY <1>1
    <3> QED
      BY <2>1, <3>1, <3>2
  <2>5. content # NoFile => rec \in Sound
    <3> HIDE DEF content
    <3>1. got \in [Part -> Content]
      BY <2>1, <2>4 DEF Sound, Handler, Content
    <3>2. next \in Position
      BY <2>1, PartOf
    <3>3. ASSUME content # NoFile
          PROVE  \A i \in Position : i < k \/ i = k => got[Parts[i]] # NoFile
      <4>1. \A i \in Position : i < k => handler[h].got[Parts[i]] # NoFile
        BY <2>1 DEF Sound
      <4>2. \A i \in Position : Parts[i] \in Part
        BY PartOf
      <4>3. handler[h].got \in [Part -> Content]
        BY <2>1 DEF Sound, Handler, Content
      <4> QED
        BY <2>1, <3>3, <4>1, <4>2, <4>3
    <3>4. CASE content # NoFile /\ k < Len(Parts)
      <4>1. \A i \in Position : i < k + 1 => i < k \/ i = k
        BY <2>1 DEF Position
      <4>2. next = k + 1 /\ at = "read"
        BY <3>4
      <4>3. \A i \in Position : i < next => got[Parts[i]] # NoFile
        BY <3>3, <3>4, <4>1, <4>2
      <4> HIDE DEF got, next, at
      <4>4. /\ rec \in Handler /\ rec.at = "read" /\ rec.part = next /\ rec.got = got
            /\ rec.name = handler[h].name
        BY <2>1, <3>1, <3>2, <4>2 DEF Sound, Handler, Content, Position
      <4> HIDE DEF rec
      <4> QED
        BY <2>4, <4>3, <4>4 DEF Sound
    <3>5. CASE content # NoFile /\ ~(k < Len(Parts))
      <4>1. \A i \in Position : i < k \/ i = k
        <5>1. k \in 1..Len(Parts) /\ Len(Parts) \in Nat
          BY <2>1, PageAssumption, LenProperties DEF Position
        <5> QED
          BY <3>5, <5>1 DEF Position
      <4>2. \A p \in Part : \E i \in Position : Parts[i] = p
        BY PartOf
      <4>3. next = 1 /\ at = "got"
        BY <3>5
      <4>4. \A p \in Part : got[p] # NoFile
        BY <3>3, <3>5, <4>1, <4>2
      <4> HIDE DEF got, next, at
      <4>5. /\ rec \in Handler /\ rec.at = "got" /\ rec.got = got /\ rec.name = handler[h].name
        BY <2>1, <3>1, <3>2, <4>3 DEF Sound, Handler, Content, Position
      <4> HIDE DEF rec
      <4> QED
        BY <2>4, <4>4, <4>5 DEF Sound
    <3> QED
      BY <3>4, <3>5
  <2> HIDE DEF rec
  <2>6. handler' \in [Slots -> Sound]
    BY <1>8, <2>2, <2>3, <2>5, IdleSound
  <2> QED
    BY <1>1, <1>2, <1>19, <2>6 DEF ReadFile
<1>20. ASSUME NEW q \in requests, NEW ok \in BOOLEAN, handler' = Awaited(q.part, ok)
       PROVE  handler' \in [Slots -> Sound]
  <2>1. q.part \in Part
    BY <1>1 DEF Request
  <2> QED
    BY <1>1, <1>20, <2>1, AwaitedSound
<1>21. ASSUME NEW q, SaveSucceeded(q) PROVE Typed'
  <2>1. handler' \in [Slots -> Sound]
    BY <1>20, <1>21 DEF SaveSucceeded
  <2> QED
    BY <1>1, <1>2, <1>21, <2>1 DEF SaveSucceeded
<1>22. ASSUME NEW q, SaveFailed(q) PROVE Typed'
  <2>1. handler' \in [Slots -> Sound]
    BY <1>20, <1>22 DEF SaveFailed
  <2> QED
    BY <1>1, <1>2, <1>22, <2>1 DEF SaveFailed
<1>23. ASSUME NEW q, Truncate(q) PROVE Typed'
  <2>1. requests' \subseteq Request
    BY <1>1, <1>23, RelabelType DEF Truncate
  <2>2. file' \in [Names \X Part -> Content]
    BY <1>1, <1>23 DEF Truncate, Content
  <2> QED
    BY <1>1, <1>2, <1>23, <2>1, <2>2 DEF Truncate
<1>24. ASSUME NEW q, Write(q) PROVE Typed'
  <2>1. requests' \subseteq Request
    BY <1>1, <1>24, RelabelType DEF Write
  <2>2. q.text \in Text
    BY <1>1, <1>24 DEF Write, Request
  <2>3. file' \in [Names \X Part -> Content]
    BY <1>1, <1>24, <2>2 DEF Write, Content
  <2> QED
    BY <1>1, <1>2, <1>24, <2>1, <2>3 DEF Write
<1>25. ASSUME NEW q, Refuse(q) PROVE Typed'
  <2>1. requests' \subseteq Request
    BY <1>1, <1>25, RelabelType DEF Refuse
  <2>2. failures' \in Nat
    <3>1. failures \in Nat /\ failures' \in {failures, failures + 1}
      BY <1>1, <1>25 DEF Refuse
    <3> QED
      BY <3>1
  <2> QED
    BY <1>1, <1>2, <1>25, <2>1, <2>2 DEF Refuse
<1>26. CASE Crash
  <2>1. requests' \subseteq Request
    <3>1. \A q \in requests : [q EXCEPT !.at = "refused"] \in Request
      BY <1>1 DEF Request
    <3> QED
      BY <1>26, <3>1 DEF Crash
  <2>2. handler' \in [Slots -> Sound]
    BY <1>1, <1>26, IdleSound DEF Crash
  <2>3. failures' \in Nat
    <3>1. failures \in Nat /\ failures' \in {failures, failures + 1}
      BY <1>1, <1>26 DEF Crash
    <3> QED
      BY <3>1
  <2> QED
    BY <1>1, <1>2, <1>26, <2>1, <2>2, <2>3 DEF Crash
<1>27. ASSUME NEW h \in Slots, ListNames(h) PROVE Typed'
  <2> DEFINE rec == [handler[h] EXCEPT !.at = "listed", !.names = Listable]
  <2>1. handler[h] \in Sound /\ Listable \subseteq Names
    BY <1>1 DEF Listable
  <2>2. rec \in Sound
    BY <2>1 DEF Sound, Handler
  <2>3. Put(h, rec) /\ UNCHANGED <<file, requests, page, clicks, failures>>
    BY <1>27 DEF ListNames
  <2> HIDE DEF rec
  <2>4. handler' \in [Slots -> Sound]
    BY <1>8, <2>2, <2>3
  <2>5. Rest'
    BY <1>1, <2>3
  <2> QED
    BY <1>2, <2>4, <2>5
<1>28. ASSUME NEW h \in Slots, RequestFails(h) PROVE Typed'
  <2>1. failures' \in Nat
    <3>1. failures \in Nat /\ failures' = failures + 1
      BY <1>1, <1>28 DEF RequestFails
    <3> QED
      BY <3>1
  <2>2. handler' \in [Slots -> Sound]
    BY <1>1, <1>28, IdleSound DEF RequestFails, End, Put
  <2> QED
    BY <1>1, <1>2, <1>28, <2>1, <2>2 DEF RequestFails
<1> QED
  BY <1>3, <1>4, <1>5, <1>6, <1>7, <1>9, <1>10, <1>11, <1>12, <1>13, <1>14, <1>15, <1>16, <1>17,
     <1>18, <1>19, <1>21, <1>22, <1>23, <1>24, <1>25, <1>26,
     <1>27, <1>28
     DEF Next, User, HandlerStep, SaveStep

\* Every variable of the page, its handlers and the server keeps its type.
THEOREM TypeCorrect == Spec => []TypeOK
<1>1. Init => Typed
  BY TypeInit
<1>2. Typed /\ [Next]_vars => Typed'
  BY TypeNext
<1>3. Typed => TypeOK
  BY DEF Typed
<1> QED
  BY <1>1, <1>2, <1>3, PTL DEF Spec
-----------------------------------------------------------------------------
(* What a step does to files, requests and editors.                        *)

Quiet == UNCHANGED <<file, requests, text, dirty, inflight, typed>>

Sends(p) == dirty[p] /\ Start(p) /\ UNCHANGED <<file, text, dirty, typed>>

Types(p) ==
  /\ text' = [text EXCEPT ![p] = [of |-> shown, v |-> typed + 2]]
  /\ dirty' = [dirty EXCEPT ![p] = TRUE]
  /\ typed < MaxTyped /\ typed' = typed + 1
  /\ UNCHANGED <<file, requests, inflight>>

\* The editors get a blank text, or one that a handler has read.
Fills ==
  /\ UNCHANGED <<file, requests, inflight, typed>>
  /\ \A p \in Part : \/ text'[p].v = 0
                     \/ ~dirty'[p] /\ \E h \in Slots : text'[p] = handler[h].got[p]

Answers(q) ==
  /\ requests' = requests \ {q}
  /\ inflight' = [inflight EXCEPT ![q.part] = FALSE]
  /\ \/ UNCHANGED dirty
     \/ q.at = "stored" /\ dirty' = [dirty EXCEPT ![q.part] = FALSE]
  /\ UNCHANGED <<file, text, typed>>

Relabels(q) ==
  /\ \/ q.at = "sent" /\ Replace(q, "open") /\ file' = [file EXCEPT ![<<q.name, q.part>>] = Torn]
     \/ q.at = "open" /\ Replace(q, "stored")
        /\ file' = [file EXCEPT ![<<q.name, q.part>>] = q.text]
     \/ Replace(q, "refused") /\ UNCHANGED file
  /\ UNCHANGED <<text, dirty, inflight, typed>>

Refuses ==
  /\ requests' = {[q EXCEPT !.at = "refused"] : q \in requests}
  /\ UNCHANGED <<file, text, dirty, inflight, typed>>

Blanks(np) ==
  /\ file' = [file EXCEPT ![np] = Blank(np[1])]
  /\ UNCHANGED <<requests, text, dirty, inflight, typed>>

\* A handler keeps what it has read, drops it or reads a file.
Reads ==
  \A h \in Slots, p \in Part :
    \/ handler'[h].got[p] \in {handler[h].got[p], NoFile}
    \/ \E n \in Names : handler'[h].got[p] = file[<<n, p>>]

\* Every step does one of these.
LEMMA Effects ==
  ASSUME Typed, [Next]_vars
  PROVE  \/ Quiet \/ Fills \/ Refuses
         \/ \E p \in Part : Sends(p) \/ Types(p)
         \/ \E q \in requests : Answers(q) \/ Relabels(q)
         \/ \E np \in Names \X Part : Blanks(np)
<1> USE DEF page
<1> DEFINE Goal == \/ Quiet \/ Fills \/ Refuses
                   \/ \E p \in Part : Sends(p) \/ Types(p)
                   \/ \E q \in requests : Answers(q) \/ Relabels(q)
                   \/ \E np \in Names \X Part : Blanks(np)
<1>0. /\ handler \in [Slots -> Sound] /\ text \in [Part -> Text] /\ dirty \in [Part -> BOOLEAN]
      /\ requests \subseteq Request
  BY DEF Typed, TypeOK, Request
<1>1. ASSUME UNCHANGED vars \/ (\E p \in Part : Focus(p))
             \/ (\E h \in Slots :
                   \/ Submit(h) \/ Listed(h) \/ Answered(h) \/ ListNames(h) \/ Check(h)
                   \/ ReadFile(h) \/ RequestFails(h)
                   \/ \E n \in Names \cup {""} : Choose(h, n)
                   \/ \E n \in Names : NewPrompt(h, n))
      PROVE  Quiet
  BY <1>1 DEF vars, Focus, Submit, Listed, Answered, ListNames, Check, ReadFile, RequestFails,
              Choose, NewPrompt, Quiet
<1>2. ASSUME NEW p \in Part, Type(p) PROVE Types(p)
  BY <1>2 DEF Type, Types
<1>3. ASSUME NEW p \in Part, Blur(p) PROVE Quiet \/ Sends(p)
  BY <1>3 DEF Blur, Quiet, Sends
<1>4. CASE Reset
  <2>1. \A p \in Part : Blank("").v = 0
    BY DEF Blank
  <2> QED
    BY <1>4, <2>1 DEF Reset, Fills
<1>5. ASSUME NEW h \in Slots, Flush(h) PROVE Goal
  <2>1. Parts[handler[h].part] \in Part
    BY <1>0, PartOf DEF Sound, Handler, Position
  <2>2. Quiet \/ Sends(Parts[handler[h].part])
    BY <1>5 DEF Flush, Quiet, Sends
  <2> QED
    BY <2>1, <2>2
<1>6. ASSUME NEW h \in Slots, Flushed(h) PROVE Quiet \/ Fills
  <2>1. \A p \in Part : Blank("").v = 0
    BY DEF Blank
  <2> QED
    BY <1>6, <2>1 DEF Flushed, Quiet, Fills
<1>7. ASSUME NEW h \in Slots, Loaded(h) PROVE Fills
  <2>1. \A p \in Part : text'[p] = IF handler[h].got[p] = Torn THEN Blank(handler[h].name)
                                    ELSE handler[h].got[p]
    BY <1>7 DEF Loaded
  <2>2. Blank(handler[h].name).v = 0
    BY DEF Blank
  <2>3. \A p \in Part : ~dirty'[p]
    BY <1>7 DEF Loaded
  <2> QED
    BY <1>7, <2>1, <2>2, <2>3 DEF Loaded, Fills
<1>8. ASSUME NEW q, SaveSucceeded(q) \/ SaveFailed(q) PROVE q \in requests /\ Answers(q)
  BY <1>8 DEF SaveSucceeded, SaveFailed, Answers
<1>9. ASSUME NEW q, Truncate(q) \/ Write(q) \/ Refuse(q) PROVE q \in requests /\ Relabels(q)
  BY <1>9 DEF Truncate, Write, Refuse, Relabels
<1>10. ASSUME NEW h \in Slots, WriteBlank(h) PROVE Goal
  <2>1. /\ <<handler[h].name, Parts[handler[h].part]>> \in Names \X Part
    BY <1>0, <1>10, PartOf DEF WriteBlank, Sound, Handler, Position
  <2>2. Blanks(<<handler[h].name, Parts[handler[h].part]>>)
    BY <1>10 DEF WriteBlank, Blanks
  <2> QED
    BY <2>1, <2>2
<1>11. CASE Crash
  BY <1>11 DEF Crash, Refuses
<1> HIDE DEF Goal
<1>12. Goal
  <2> USE DEF Goal
  <2> QED
    BY <1>1, <1>2, <1>3, <1>4, <1>5, <1>6, <1>7, <1>8, <1>9, <1>10, <1>11
       DEF Next, User, HandlerStep, SaveStep
<1> QED
  BY <1>12 DEF Goal

\* A handler that forgets edits keeps what it has read, and Put changes one handler.
LEMMA GotKept ==
  /\ \A P : \A h \in Slots : handler \in [Slots -> Sound] => Forget(P)[h].got = handler[h].got
  /\ \A h \in Slots : \A rec :
       handler \in [Slots -> Sound] /\ Put(h, rec) =>
         handler'[h] = rec /\ \A g \in Slots : g # h => handler'[g] = handler[g]
<1>1. ASSUME NEW P, handler \in [Slots -> Sound], NEW h \in Slots
      PROVE  Forget(P)[h].got = handler[h].got
  BY <1>1, ForgetSound
<1> QED
  BY <1>1 DEF Put

\* What an idle handler has read.
LEMMA IdleGot == \A p \in Part : Idle.got[p] = NoFile
BY DEF Idle

\* Every step keeps, drops or extends what the handlers have read.
LEMMA ReadsNext ==
  ASSUME Typed, [Next]_vars
  PROVE  Reads
<1> USE DEF page
<1>0. /\ handler \in [Slots -> Sound] /\ file \in [Names \X Part -> Content]
      /\ \A h \in Slots : handler[h].got \in [Part -> Content]
      /\ \A h \in Slots : handler[h] \in Sound
  BY DEF Typed, TypeOK, Content, Sound, Handler
<1>1. ASSUME UNCHANGED handler PROVE Reads
  BY <1>1 DEF Reads
<1>2. ASSUME NEW P, NEW h \in Slots, NEW rec, handler' = [Forget(P) EXCEPT ![h] = rec],
             rec.got = handler[h].got \/ rec = Idle \/ rec.got = Idle.got
      PROVE  Reads
  <2>1. \A g \in Slots : g # h => handler'[g].got = handler[g].got
    BY <1>0, <1>2, ForgetSound
  <2>2. handler'[h] = rec
    BY <1>0, <1>2, ForgetSound
  <2> QED
    BY <1>2, <2>1, <2>2, IdleGot DEF Reads
<1>3. ASSUME NEW P, handler' = Forget(P) PROVE Reads
  BY <1>0, <1>3, ForgetSound DEF Reads
<1>4. ASSUME NEW h \in Slots, NEW rec, Put(h, rec), rec.got = handler[h].got \/ rec.got = Idle.got
      PROVE  Reads
  BY <1>0, <1>4, GotKept, IdleGot DEF Reads
<1>5. ASSUME NEW p \in Part, Focus(p) \/ Type(p) \/ Blur(p) PROVE Reads
  BY <1>1, <1>3, <1>5 DEF Focus, Type, Blur
<1>6. ASSUME NEW h \in Slots, NEW n, Choose(h, n) PROVE Reads
  <2> DEFINE rec == [Idle EXCEPT !.kind = "switch", !.at = "flush"]
  <2>1. rec.got = Idle.got
    BY DEF Idle
  <2>2. handler' = [Forget(Part) EXCEPT ![h] = rec]
    BY <1>6 DEF Choose
  <2> HIDE DEF rec
  <2> QED
    BY <1>2, <2>1, <2>2
<1>7. ASSUME NEW h \in Slots, Submit(h) \/ (\E n \in Names : NewPrompt(h, n)) PROVE Reads
  <2>1. \A P : [Idle EXCEPT !.kind = "run", !.at = "flush", !.edits = P].got = Idle.got
    BY DEF Idle
  <2>2. \A n : [Idle EXCEPT !.kind = "create", !.at = "check", !.name = n].got = Idle.got
    BY DEF Idle
  <2> QED
    BY <1>4, <1>7, <2>1, <2>2 DEF Submit, NewPrompt
<1>8. ASSUME Reset PROVE Reads
  BY <1>3, <1>8 DEF Reset
<1>9. \A h \in Slots :
        /\ [handler[h] EXCEPT !.at = "wait"].got = handler[h].got
        /\ \A k : [handler[h] EXCEPT !.part = k].got = handler[h].got
        /\ \A place, k : [handler[h] EXCEPT !.at = place, !.part = k].got = handler[h].got
        /\ \A place, n : [handler[h] EXCEPT !.at = place, !.name = n].got = handler[h].got
  BY <1>0 DEF Sound, Handler
<1>10. ASSUME NEW h \in Slots, Flush(h) \/ Flushed(h) \/ Answered(h) \/ Check(h) PROVE Reads
  <2> DEFINE wait == [handler[h] EXCEPT !.at = "wait"]
             next == [handler[h] EXCEPT !.part = handler[h].part + 1]
             done == [handler[h] EXCEPT !.at = "flushed", !.part = 1]
             write == [handler[h] EXCEPT !.at = "write", !.part = 1]
             read == [handler[h] EXCEPT !.at = "read", !.name = chosen]
  <2>1. \E rec \in {Idle, wait, next, done, write, read} : Put(h, rec)
    BY <1>10 DEF Flush, Flushed, Answered, Check, Goto, End
  <2>2. \A rec \in {wait, next, done, write, read} : rec.got = handler[h].got
    <3>1. wait.got = handler[h].got
      BY <1>9
    <3>2. next.got = handler[h].got
      BY <1>9
    <3>3. done.got = handler[h].got
      BY <1>9
    <3>4. write.got = handler[h].got
      BY <1>9
    <3>5. read.got = handler[h].got
      BY <1>9
    <3> HIDE DEF wait, next, done, write, read
    <3> QED
      BY <3>1, <3>2, <3>3, <3>4, <3>5
  <2> HIDE DEF wait, next, done, write, read
  <2> QED
    BY <1>4, <2>1, <2>2
<1>11. ASSUME NEW h \in Slots, NEW P
       PROVE /\ \A place, k : [Forget(P)[h] EXCEPT !.at = place, !.part = k].got = handler[h].got
             /\ \A k : [Forget(P)[h] EXCEPT !.part = k].got = handler[h].got
  <2>1. Forget(P)[h] \in Sound /\ Forget(P)[h].got = handler[h].got
    BY <1>0, ForgetSound
  <2> QED
    BY <2>1 DEF Sound, Handler
<1>12. ASSUME NEW h \in Slots, Listed(h) \/ Loaded(h) PROVE Reads
  <2>1. CASE Loaded(h)
    BY <1>2, <2>1 DEF Loaded
  <2>2. CASE Listed(h)
    <3> DEFINE rec == [Forget(Part)[h] EXCEPT !.at = "read", !.part = 1]
    <3>1. \E new \in {Idle, rec} : handler' = [Forget(Part) EXCEPT ![h] = new]
      BY <1>0, <2>2, ForgetSound DEF Listed
    <3>2. rec.got = handler[h].got
      BY <1>11
    <3> HIDE DEF rec
    <3> QED
      BY <1>2, <3>1, <3>2
  <2> QED
    BY <1>12, <2>1, <2>2
<1>13. ASSUME NEW h \in Slots, WriteBlank(h) PROVE Reads
  <2> DEFINE P == {Parts[handler[h].part]}
             old == Forget(P)[h]
             rec == IF old.part < Len(Parts) THEN [old EXCEPT !.part = handler[h].part + 1]
                    ELSE [old EXCEPT !.at = "list", !.part = 1]
  <2>1. rec.got = handler[h].got
    BY <1>11
  <2>2. Forget(P) \in [Slots -> Sound]
    <3> HIDE DEF P
    <3> QED
      BY <1>0, ForgetSound
  <2>3. handler' = [Forget(P) EXCEPT ![h] = rec]
    BY <1>13, <2>2 DEF WriteBlank
  <2> HIDE DEF rec, P, old
  <2> QED
    BY <1>2, <2>1, <2>3
<1>14. ASSUME NEW h \in Slots, ReadFile(h) PROVE Reads
  <2> DEFINE p == Parts[handler[h].part]
             content == file[<<handler[h].name, p>>]
             next == IF handler[h].part < Len(Parts) THEN handler[h].part + 1 ELSE 1
             at == IF handler[h].part < Len(Parts) THEN handler[h].at ELSE "got"
             rec == [handler[h] EXCEPT !.got = [handler[h].got EXCEPT ![p] = content],
                                       !.part = next, !.at = at]
  <2>1. Put(h, Idle) \/ Put(h, rec)
    BY <1>0, <1>14 DEF ReadFile, End, Sound, Handler
  <2>2. handler[h].name \in Names
    BY <1>0, <1>14 DEF ReadFile, Sound
  <2>3. rec.got = [handler[h].got EXCEPT ![p] = content]
    <3> HIDE DEF content, next, at, p
    <3> QED
      BY <1>0 DEF Sound, Handler
  <2> HIDE DEF rec, next, at
  <2>4. CASE Put(h, rec)
    <3>1. handler'[h] = rec /\ \A g \in Slots : g # h => handler'[g] = handler[g]
      BY <1>0, <2>4, GotKept
    <3>2. ASSUME NEW r \in Part
          PROVE  rec.got[r] = handler[h].got[r] \/ (r = p /\ rec.got[r] = content)
      BY <1>0, <2>3
    <3> QED
      BY <2>2, <3>1, <3>2 DEF Reads
  <2> QED
    BY <1>4, <2>1, <2>4
<1>15. ASSUME NEW p, NEW ok, handler' = Awaited(p, ok) PROVE Reads
  <2>1. ASSUME NEW h \in Slots
        PROVE  handler'[h].got = handler[h].got \/ handler'[h] = Idle
    <3> DEFINE on == [handler[h] EXCEPT !.at = "flush", !.part = handler[h].part + 1]
               done == [handler[h] EXCEPT !.at = "flushed", !.part = 1]
    <3>1. handler'[h] \in {handler[h], Idle, on, done}
      BY <1>15 DEF Awaited
    <3>2. on.got = handler[h].got /\ done.got = handler[h].got
      BY <1>9
    <3> HIDE DEF on, done
    <3> QED
      BY <3>1, <3>2
  <2> QED
    BY <2>1, IdleGot DEF Reads
<1>16. ASSUME NEW q, \/ SaveSucceeded(q) \/ SaveFailed(q) \/ Truncate(q) \/ Write(q) \/ Refuse(q)
       PROVE  Reads
  BY <1>1, <1>15, <1>16 DEF SaveSucceeded, SaveFailed, Truncate, Write, Refuse
<1>17. ASSUME Crash PROVE Reads
  <2>1. \A h \in Slots : handler'[h] \in {Idle, handler[h]}
    BY <1>17 DEF Crash
  <2> QED
    BY <2>1, IdleGot DEF Reads
<1>18. ASSUME NEW h \in Slots, ListNames(h) \/ RequestFails(h) PROVE Reads
  <2> DEFINE rec == [handler[h] EXCEPT !.at = "listed", !.names = Listable]
  <2>1. \E new \in {Idle, rec} : Put(h, new)
    BY <1>18 DEF ListNames, RequestFails, End
  <2>2. rec.got = handler[h].got
    BY <1>0 DEF Sound, Handler
  <2> HIDE DEF rec
  <2> QED
    BY <1>4, <2>1, <2>2
<1> QED
  BY <1>1, <1>5, <1>6, <1>7, <1>8, <1>10, <1>12, <1>13, <1>14, <1>16, <1>17, <1>18
     DEF Next, User, HandlerStep, SaveStep, vars
-----------------------------------------------------------------------------
(* Newer texts stay.                                                       *)

\* An editor has one save on its way at a time.
Single ==
  \A q \in requests :
    inflight[q.part] /\ \A r \in requests : q.part = r.part => q = r

\* Nothing is newer than the last edit.
Bounded ==
  /\ \A np \in Names \X Part : file[np].v <= typed + 1
  /\ \A q \in requests : q.text.v <= typed + 1
  /\ \A p \in Part : text[p].v <= typed + 1
  /\ \A h \in Slots, p \in Part : handler[h].got[p].v <= typed + 1

\* An edit that is not saved yet is newer than every text of its part.
Newest ==
  \A p \in Part : dirty[p] /\ text[p].v > 1 =>
    /\ \A n \in Names : file[<<n, p>>].v <= text[p].v
    /\ \A q \in requests : q.part = p => q.text.v <= text[p].v

Order == Single /\ Bounded /\ Newest /\ NewerTextsStay

\* The versions of all texts are numbers.
LEMMA Versions ==
  ASSUME Typed
  PROVE  /\ \A np \in Names \X Part : file[np].v \in Nat
         /\ \A q \in requests : q.text.v \in Nat /\ q.part \in Part
         /\ \A p \in Part : text[p].v \in Nat
         /\ \A h \in Slots, p \in Part : handler[h].got[p].v \in Nat
         /\ typed \in Nat
<1>1. /\ file \in [Names \X Part -> Content] /\ requests \subseteq Request
      /\ text \in [Part -> Text] /\ handler \in [Slots -> Sound] /\ typed \in 0..MaxTyped
  BY DEF Typed, TypeOK, Request, Content
<1>2. \A h \in Slots : handler[h].got \in [Part -> Content]
  BY <1>1 DEF Sound, Handler, Content
<1>3. Text \subseteq Content
  BY DEF Content
<1>4. \A q \in requests : q.text \in Text /\ q.part \in Part
  BY <1>1 DEF Request
<1>5. typed \in Nat
  <2>1. MaxTyped \in Nat
    BY PageAssumption
  <2> QED
    BY <1>1, <2>1
<1>6. \A np \in Names \X Part : file[np] \in Content
  BY <1>1
<1>7. \A p \in Part : text[p] \in Content
  BY <1>1, <1>3
<1>8. \A h \in Slots, p \in Part : handler[h].got[p] \in Content
  BY <1>2
<1> QED
  BY <1>3, <1>4, <1>5, <1>6, <1>7, <1>8, TextTypes

\* It holds at the start.
LEMMA OrderInit == Init => Order
<1> SUFFICES ASSUME Init PROVE Order
  OBVIOUS
<1>1. Single /\ NewerTextsStay /\ Newest
  BY DEF Init, Single, NewerTextsStay, Newest
<1>2. \A np \in Names \X Part : file[np].v \in {0, 1}
  BY DEF Init, NoFile
<1>3. \A p \in Part : text[p].v = 0
  BY DEF Init, Blank
<1>4. \A h \in Slots, p \in Part : handler[h].got[p].v = 0
  <2>1. ASSUME NEW h \in Slots, NEW p \in Part PROVE handler[h].got[p].v = 0
    <3>1. handler[h].got = Idle.got
      BY InitHandlers, OpeningSound
    <3>2. handler[h].got[p] = NoFile
      BY <3>1, IdleGot
    <3>3. NoFile.v = 0
      BY DEF NoFile
    <3> QED
      BY <3>2, <3>3
  <2> QED
    BY <2>1
<1>5. typed = 0 /\ requests = {}
  BY DEF Init
<1>6. Bounded
  BY <1>2, <1>3, <1>4, <1>5 DEF Bounded
<1> QED
  BY <1>1, <1>6 DEF Order

\* A step that adds no text keeps the bound for what the handlers have read.
LEMMA GotBounded ==
  ASSUME Typed, Typed', Bounded, Reads, typed' \in {typed, typed + 1}
  PROVE  \A h \in Slots, p \in Part : handler'[h].got[p].v <= typed' + 1
<1>1. ASSUME NEW h \in Slots, NEW p \in Part
      PROVE  handler'[h].got[p].v <= typed + 1
  <2>1. CASE handler'[h].got[p] \in {handler[h].got[p], NoFile}
    <3>1. NoFile.v <= typed + 1
      BY Versions DEF NoFile
    <3> QED
      BY <2>1, <3>1 DEF Bounded
  <2>2. CASE \E n \in Names : handler'[h].got[p] = file[<<n, p>>]
    BY <2>2 DEF Bounded
  <2> QED
    BY <2>1, <2>2 DEF Reads
<1>2. typed \in Nat /\ \A h \in Slots, p \in Part : handler'[h].got[p].v \in Nat
  <2>1. typed \in Nat
    BY Versions
  <2>2. handler' \in [Slots -> Sound]
    BY DEF Typed
  <2>3. \A h \in Slots, p \in Part : handler'[h].got[p] \in Content
    BY <2>2 DEF Sound, Handler, Content
  <2> QED
    BY <2>1, <2>3, TextTypes
<1> QED
  BY <1>1, <1>2

\* Every step keeps the order of texts.
LEMMA OrderNext == Typed /\ Order /\ [Next]_vars => Order'
<1> SUFFICES ASSUME Typed, Order, [Next]_vars PROVE Order'
  OBVIOUS
<1>1. Typed' /\ Reads
  BY TypeNext, ReadsNext
<1>2. /\ file \in [Names \X Part -> Content] /\ requests \subseteq Request
      /\ text \in [Part -> Text] /\ dirty \in [Part -> BOOLEAN] /\ inflight \in [Part -> BOOLEAN]
      /\ \A q \in requests : q.part \in Part /\ q.text.v \in Nat
      /\ \A np \in Names \X Part : file[np].v \in Nat
      /\ \A p \in Part : text[p].v \in Nat
      /\ typed \in Nat
  BY Versions DEF Typed, TypeOK, Request, Content
<1>3. Single /\ Bounded /\ Newest /\ NewerTextsStay
  BY DEF Order
<1>4. ASSUME typed' = typed PROVE \A h \in Slots, p \in Part : handler'[h].got[p].v <= typed' + 1
  BY <1>1, <1>3, <1>4, GotBounded
<1>5. CASE Quiet
  <2>1. Bounded'
    BY <1>3, <1>4, <1>5 DEF Bounded, Quiet
  <2> QED
    BY <1>3, <1>5, <2>1 DEF Quiet, Order, Single, Newest, NewerTextsStay
<1>6. ASSUME NEW p \in Part, Sends(p) PROVE Order'
  <2> DEFINE q == [part |-> p, name |-> chosen, text |-> text[p], at |-> "sent"]
  <2>1. \/ UNCHANGED <<requests, inflight>>
        \/ /\ ~inflight[p] /\ requests' = requests \cup {q}
           /\ inflight' = [inflight EXCEPT ![p] = TRUE]
    BY <1>6 DEF Sends, Start
  <2>2. q.part = p /\ q.text = text[p] /\ q.name = chosen
    OBVIOUS
  <2> HIDE DEF q
  <2>3. UNCHANGED <<file, text, dirty, typed>> /\ dirty[p]
    BY <1>6 DEF Sends
  <2>4. Single'
    BY <1>2, <1>3, <2>1, <2>2 DEF Single
  <2>5. Bounded'
    BY <1>3, <1>4, <2>1, <2>2, <2>3 DEF Bounded
  <2>6. Newest'
    BY <1>2, <1>3, <2>1, <2>2, <2>3 DEF Newest
  <2>7. NewerTextsStay'
    <3>1. chosen \in Names \cup {""}
      BY DEF Typed, TypeOK
    <3>2. q.text.v > 1 /\ q.name # "" => file[<<q.name, q.part>>].v <= q.text.v
      BY <1>3, <2>2, <2>3, <3>1 DEF Newest
    <3> QED
      BY <1>3, <2>1, <2>3, <3>2 DEF NewerTextsStay
  <2> QED
    BY <2>4, <2>5, <2>6, <2>7 DEF Order
<1>7. ASSUME NEW p \in Part, Types(p) PROVE Order'
  <2>1. /\ UNCHANGED <<file, requests, inflight>> /\ typed' = typed + 1
        /\ text' = [text EXCEPT ![p] = [of |-> shown, v |-> typed + 2]]
        /\ dirty' = [dirty EXCEPT ![p] = TRUE]
    BY <1>7 DEF Types
  <2>2. /\ text'[p].v = typed + 2
        /\ \A r \in Part : r # p => text'[r] = text[r] /\ dirty'[r] = dirty[r]
    BY <1>2, <2>1
  <2>3. \A k \in Nat : k <= typed + 1 => k <= typed' + 1 /\ k <= typed + 2
    BY <1>2, <2>1
  <2>4. typed + 2 <= typed' + 1
    BY <1>2, <2>1
  <2>5. \A h \in Slots, r \in Part : handler'[h].got[r].v <= typed' + 1
    BY <1>1, <1>3, <2>1, GotBounded
  <2>6. Bounded'
    <3>1. \A np \in Names \X Part : file'[np].v <= typed' + 1
      BY <1>2, <1>3, <2>1, <2>3 DEF Bounded
    <3>2. \A q \in requests' : q.text.v <= typed' + 1
      BY <1>2, <1>3, <2>1, <2>3 DEF Bounded
    <3>3. \A r \in Part : text'[r].v <= typed' + 1
      BY <1>2, <1>3, <2>2, <2>3, <2>4 DEF Bounded
    <3> QED
      BY <2>5, <3>1, <3>2, <3>3 DEF Bounded
  <2>7. Newest'
    <3>1. /\ \A n \in Names : file'[<<n, p>>].v <= text'[p].v
          /\ \A q \in requests' : q.text.v <= text'[p].v
      BY <1>2, <1>3, <2>1, <2>2, <2>3 DEF Bounded
    <3> QED
      BY <1>3, <2>1, <2>2, <3>1 DEF Newest
  <2> QED
    BY <1>3, <2>1, <2>6, <2>7 DEF Order, Single, NewerTextsStay
<1>8. CASE Fills
  <2>1. UNCHANGED <<file, requests, inflight, typed>>
    BY <1>8 DEF Fills
  <2>2. ASSUME NEW p \in Part
        PROVE  text'[p].v <= typed' + 1 /\ ~(dirty'[p] /\ text'[p].v > 1)
    <3>1. CASE text'[p].v = 0
      BY <1>2, <2>1, <3>1
    <3>2. CASE ~dirty'[p] /\ \E h \in Slots : text'[p] = handler[h].got[p]
      BY <1>3, <2>1, <3>2 DEF Bounded
    <3> QED
      BY <1>8, <3>1, <3>2 DEF Fills
  <2>3. Bounded'
    BY <1>3, <1>4, <2>1, <2>2 DEF Bounded
  <2>4. Newest'
    BY <2>2 DEF Newest
  <2> QED
    BY <1>3, <2>1, <2>3, <2>4 DEF Order, Single, NewerTextsStay
<1>9. ASSUME NEW q \in requests, Answers(q) PROVE Order'
  <2>1. /\ UNCHANGED <<file, text, typed>> /\ requests' = requests \ {q}
        /\ inflight' = [inflight EXCEPT ![q.part] = FALSE]
        /\ \A p \in Part : dirty'[p] => dirty[p]
    BY <1>2, <1>9 DEF Answers
  <2>2. Single'
    BY <1>2, <1>3, <2>1 DEF Single
  <2>3. Bounded'
    BY <1>3, <1>4, <2>1 DEF Bounded
  <2>4. Newest'
    BY <1>3, <2>1 DEF Newest
  <2> QED
    BY <1>3, <2>1, <2>2, <2>3, <2>4 DEF Order, NewerTextsStay
<1>10. ASSUME NEW q \in requests, Relabels(q) PROVE Order'
  <2>1. PICK label : /\ Replace(q, label) /\ label \in {"open", "stored", "refused"}
                     /\ \/ file' = [file EXCEPT ![<<q.name, q.part>>] = Torn]
                        \/ q.at = "open" /\ label = "stored"
                           /\ file' = [file EXCEPT ![<<q.name, q.part>>] = q.text]
                        \/ UNCHANGED file
                     /\ label = "open" => q.at = "sent"
    BY <1>10 DEF Relabels
  <2> DEFINE new == [q EXCEPT !.at = label]
  <2>2. requests' = (requests \ {q}) \cup {new}
    BY <2>1 DEF Replace
  <2>3. new.part = q.part /\ new.text = q.text /\ new.name = q.name /\ new.at = label
    BY <1>2 DEF Request
  <2> HIDE DEF new
  <2>4. UNCHANGED <<text, dirty, inflight, typed>>
    BY <1>10 DEF Relabels
  <2>5. \A np \in Names \X Part :
          \/ file'[np] = file[np] \/ file'[np].v = 0
          \/ np = <<q.name, q.part>> /\ file'[np] = q.text /\ label = "stored"
    <3>1. CASE file' = [file EXCEPT ![<<q.name, q.part>>] = Torn]
      <4>1. Torn.v = 0
        BY DEF Torn
      <4> QED
        BY <1>2, <3>1, <4>1
    <3>2. CASE label = "stored" /\ file' = [file EXCEPT ![<<q.name, q.part>>] = q.text]
      BY <1>2, <3>2
    <3> QED
      BY <2>1, <3>1, <3>2
  <2>6. Single'
    BY <1>3, <2>2, <2>3, <2>4 DEF Single
  <2>7. Bounded'
    <3>1. \A np \in Names \X Part : file'[np].v <= typed' + 1
      BY <1>2, <1>3, <2>4, <2>5 DEF Bounded
    <3> QED
      BY <1>3, <1>4, <2>2, <2>3, <2>4, <3>1 DEF Bounded
  <2>8. Newest'
    <3>1. ASSUME NEW p \in Part, dirty[p], text[p].v > 1, NEW n \in Names
          PROVE  file'[<<n, p>>].v <= text[p].v
      <4>1. <<n, p>> \in Names \X Part /\ file[<<n, p>>].v <= text[p].v
        BY <1>3, <3>1 DEF Newest
      <4>2. CASE file'[<<n, p>>].v = 0
        BY <1>2, <4>2
      <4>3. CASE <<n, p>> = <<q.name, q.part>> /\ file'[<<n, p>>] = q.text
        BY <1>3, <3>1, <4>3 DEF Newest
      <4> QED
        BY <2>5, <4>1, <4>2, <4>3
    <3> QED
      BY <1>3, <2>2, <2>3, <2>4, <3>1 DEF Newest
  <2>9. \A k \in Nat : 0 <= k
    OBVIOUS
  <2>10. NewerTextsStay'
    <3> SUFFICES ASSUME NEW r \in requests', r.at \in {"sent", "open"}, r.text.v > 1, r.name # ""
                 PROVE  file'[<<r.name, r.part>>].v <= r.text.v
      BY DEF NewerTextsStay
    <3>1. \E s \in requests : /\ s.name = r.name /\ s.part = r.part /\ s.text = r.text
                              /\ s.at \in {"sent", "open"} /\ (s = q => label = "open")
      BY <2>1, <2>2, <2>3
    <3>2. file[<<r.name, r.part>>].v <= r.text.v
      BY <1>3, <3>1 DEF NewerTextsStay
    <3>3. <<r.name, r.part>> \in Names \X Part /\ r.text.v \in Nat
      BY <1>2, <3>1 DEF Request
    <3>4. <<r.name, r.part>> = <<q.name, q.part>> => label = "open"
      BY <1>3, <3>1 DEF Single
    <3> DEFINE np == <<r.name, r.part>>
    <3>5. /\ np \in Names \X Part /\ file[np].v <= r.text.v
          /\ np = <<q.name, q.part>> => label = "open"
      BY <3>2, <3>3, <3>4
    <3> HIDE DEF np
    <3>6. file'[np] = file[np] \/ file'[np].v = 0
      BY <2>5, <3>5
    <3>7. file'[np].v <= r.text.v
      BY <2>9, <3>3, <3>5, <3>6
    <3> QED
      BY <3>7 DEF np
  <2> QED
    BY <2>6, <2>7, <2>8, <2>10 DEF Order
<1>11. CASE Refuses
  <2>1. /\ requests' = {[q EXCEPT !.at = "refused"] : q \in requests}
        /\ UNCHANGED <<file, text, dirty, inflight, typed>>
    BY <1>11 DEF Refuses
  <2>2. \A q \in requests : LET new == [q EXCEPT !.at = "refused"]
                            IN new.part = q.part /\ new.text = q.text /\ new.at = "refused"
    BY <1>2 DEF Request
  <2>3. \A r \in requests' : \E q \in requests :
          /\ r = [q EXCEPT !.at = "refused"]
          /\ r.part = q.part /\ r.text = q.text /\ r.at = "refused"
    BY <2>1, <2>2
  <2>4. Single'
    BY <1>3, <2>1, <2>3 DEF Single
  <2>5. Bounded'
    BY <1>3, <1>4, <2>1, <2>3 DEF Bounded
  <2>6. Newest'
    BY <1>3, <2>1, <2>3 DEF Newest
  <2>7. NewerTextsStay'
    BY <2>3 DEF NewerTextsStay
  <2> QED
    BY <2>4, <2>5, <2>6, <2>7 DEF Order
<1>12. ASSUME NEW np \in Names \X Part, Blanks(np) PROVE Order'
  <2>1. \A x \in Names \X Part : file'[x] = file[x] \/ file'[x].v = 0
    BY <1>2, <1>12 DEF Blanks, Blank
  <2>2. UNCHANGED <<requests, text, dirty, inflight, typed>>
    BY <1>12 DEF Blanks
  <2>3. Bounded'
    <3>1. \A x \in Names \X Part : file'[x].v <= typed' + 1
      BY <1>2, <1>3, <2>1, <2>2 DEF Bounded
    <3> QED
      BY <1>3, <1>4, <2>2, <3>1 DEF Bounded
  <2>4. Newest'
    BY <1>2, <1>3, <2>1, <2>2 DEF Newest
  <2>5. NewerTextsStay'
    <3>1. \A q \in requests : q.name # "" => <<q.name, q.part>> \in Names \X Part
      BY <1>2 DEF Request
    <3>2. ASSUME NEW q \in requests, q.at \in {"sent", "open"}, q.text.v > 1, q.name # ""
          PROVE  file'[<<q.name, q.part>>].v <= q.text.v
      <4> DEFINE x == <<q.name, q.part>>
      <4>1. x \in Names \X Part /\ file[x].v <= q.text.v /\ q.text.v \in Nat
        BY <1>2, <1>3, <3>1, <3>2 DEF NewerTextsStay
      <4> HIDE DEF x
      <4>2. file'[x].v <= q.text.v
        BY <2>1, <4>1
      <4> QED
        BY <4>2 DEF x
    <3> QED
      BY <2>2, <3>2 DEF NewerTextsStay
  <2> QED
    BY <1>3, <2>2, <2>3, <2>4, <2>5 DEF Order, Single
<1> QED
  BY <1>5, <1>6, <1>7, <1>8, <1>9, <1>10, <1>11, <1>12, Effects

\* Saves of typed texts reach a prompt's file in the order in which they were typed: the
\* playground's autosave managers never have two of them on their way at a time.
THEOREM NewerTextsNeverLost == Spec => []NewerTextsStay
<1>1. Init => Typed /\ Order
  BY TypeInit, OrderInit
<1>2. Typed /\ Order /\ [Next]_vars => (Typed /\ Order)'
  BY TypeNext, OrderNext
<1>3. Order => NewerTextsStay
  BY DEF Order
<1> QED
  BY <1>1, <1>2, <1>3, PTL DEF Spec
-----------------------------------------------------------------------------
(* A run uses the edits.                                                   *)

\* An edit that waits to be sent, is on its way, or is in the file of the selected prompt.
Unsent(p) == dirty[p] /\ ~inflight[p]

Sending(p) ==
  /\ dirty[p]
  /\ \E q \in requests : /\ q.part = p /\ q.name = chosen /\ q.text = text[p]
                         /\ q.at = "stored" => file[<<chosen, p>>] = text[p]

Saved(p) == ~dirty[p] /\ ~inflight[p] /\ file[<<chosen, p>>] = text[p]

Pending(p) == Unsent(p) \/ Sending(p) \/ Saved(p)

\* What a run with edits has done to them where it is.
Flushing(rec) ==
  rec.at \in {"flush", "wait"} /\ chosen # "" =>
    /\ \A p \in rec.edits : Pending(p)
    /\ \A i \in Position : i < rec.part /\ Parts[i] \in rec.edits => Saved(Parts[i])

Ready(rec) == rec.at = "flushed" /\ chosen # "" => \A p \in rec.edits : Saved(p)

Reading(rec) ==
  rec.at = "read" =>
    /\ chosen # "" /\ rec.name = chosen /\ \A p \in rec.edits : Saved(p)
    /\ \A i \in Position : i < rec.part /\ Parts[i] \in rec.edits =>
         rec.got[Parts[i]] = text[Parts[i]]

Using(rec) == rec.at = "got" => chosen # "" /\ \A p \in rec.edits : rec.got[p] = text[p]

RunOK(rec) ==
  rec.kind = "run" /\ rec.edits # {} => Flushing(rec) /\ Ready(rec) /\ Reading(rec) /\ Using(rec)

Runs == \A h \in Slots : RunOK(handler[h])

\* The steps that leave an edit of p alone.
Spares(p) ==
  \/ Quiet \/ Refuses
  \/ \E r \in Part : Sends(r)
  \/ \E r \in Part \ {p} : Types(r)
  \/ \E q \in requests : Answers(q) \/ Relabels(q)
  \/ \E np \in Names \X Part : np[2] # p /\ Blanks(np)

Kept(p) == text'[p] = text[p] /\ (Saved(p) => Saved(p)') /\ (Pending(p) => Pending(p)')

\* They leave it waiting, on its way or saved.
LEMMA EditKept ==
  ASSUME Typed, Order, UNCHANGED chosen, chosen # "", NEW p \in Part, Spares(p)
  PROVE  Kept(p)
<1>1. /\ file \in [Names \X Part -> Content] /\ requests \subseteq Request
      /\ text \in [Part -> Text] /\ dirty \in [Part -> BOOLEAN] /\ inflight \in [Part -> BOOLEAN]
      /\ chosen \in Names /\ \A q \in requests : q.part \in Part
  BY DEF Typed, TypeOK, Request, Content
<1>2. /\ \A q \in requests : inflight[q.part]
      /\ \A q, r \in requests : q.part = r.part => q = r
  BY DEF Order, Single
<1> DEFINE c == <<chosen, p>>
<1>3. c \in Names \X Part
  BY <1>1
<1>4. CASE Quiet
  BY <1>4 DEF Quiet, Kept, Saved, Pending, Unsent, Sending
<1>5. CASE Refuses
  <2>1. /\ requests' = {[q EXCEPT !.at = "refused"] : q \in requests}
        /\ UNCHANGED <<file, text, dirty, inflight>>
    BY <1>5 DEF Refuses
  <2>2. \A q \in requests : LET new == [q EXCEPT !.at = "refused"]
                            IN /\ new.part = q.part /\ new.text = q.text /\ new.at = "refused"
                               /\ new.name = q.name
    BY <1>1 DEF Request
  <2>3. ASSUME Sending(p) PROVE Sending(p)'
    <3>1. PICK q \in requests : q.part = p /\ q.name = chosen /\ q.text = text[p]
      BY <2>3 DEF Sending
    <3> DEFINE new == [q EXCEPT !.at = "refused"]
    <3>2. /\ new.part = p /\ new.text = text[p] /\ new.at = "refused" /\ new.name = chosen
          /\ new \in requests'
      BY <2>1, <2>2, <3>1
    <3> HIDE DEF new
    <3> QED
      BY <2>1, <2>3, <3>2 DEF Sending
  <2> QED
    BY <2>1, <2>3 DEF Kept, Saved, Pending, Unsent
<1>6. ASSUME NEW r \in Part, Sends(r) PROVE Kept(p)
  <2> DEFINE q == [part |-> r, name |-> chosen, text |-> text[r], at |-> "sent"]
  <2>1. \/ UNCHANGED <<requests, inflight>>
        \/ /\ ~inflight[r] /\ requests' = requests \cup {q}
           /\ inflight' = [inflight EXCEPT ![r] = TRUE]
    BY <1>6 DEF Sends, Start
  <2>2. q.part = r /\ q.text = text[r] /\ q.name = chosen /\ q.at = "sent"
    OBVIOUS
  <2> HIDE DEF q
  <2>3. UNCHANGED <<file, text, dirty>> /\ dirty[r]
    BY <1>6 DEF Sends
  <2>4. Saved(p) => Saved(p)'
    BY <1>1, <2>1, <2>3 DEF Saved
  <2>5. Sending(p) => Sending(p)'
    BY <2>1, <2>3 DEF Sending
  <2>6. Unsent(p) => Unsent(p)' \/ Sending(p)'
    BY <1>1, <2>1, <2>2, <2>3 DEF Unsent, Sending
  <2> QED
    BY <2>3, <2>4, <2>5, <2>6 DEF Kept, Pending
<1>7. ASSUME NEW r \in Part \ {p}, Types(r) PROVE Kept(p)
  <2>1. text'[p] = text[p] /\ dirty'[p] = dirty[p] /\ UNCHANGED <<file, requests, inflight>>
    BY <1>1, <1>7 DEF Types
  <2> QED
    BY <2>1 DEF Kept, Saved, Pending, Unsent, Sending
<1>8. ASSUME NEW q \in requests, Answers(q) PROVE Kept(p)
  <2>1. /\ requests' = requests \ {q} /\ UNCHANGED <<file, text>>
        /\ inflight' = [inflight EXCEPT ![q.part] = FALSE]
        /\ \/ UNCHANGED dirty
           \/ q.at = "stored" /\ dirty' = [dirty EXCEPT ![q.part] = FALSE]
    BY <1>8 DEF Answers
  <2>2. CASE q.part # p
    <3>1. dirty'[p] = dirty[p] /\ inflight'[p] = inflight[p]
      BY <1>1, <2>1, <2>2
    <3>2. Sending(p) => Sending(p)'
      BY <2>1, <2>2, <3>1 DEF Sending
    <3> QED
      BY <2>1, <3>1, <3>2 DEF Kept, Saved, Pending, Unsent
  <2>3. CASE q.part = p
    <3>1. inflight[p] /\ ~inflight'[p]
      BY <1>1, <1>2, <2>1, <2>3
    <3>2. Pending(p) => Sending(p)
      BY <3>1 DEF Pending, Unsent, Saved
    <3>3. Sending(p) => dirty[p] /\ (q.at = "stored" => file[<<chosen, p>>] = text[p])
      BY <1>2, <2>3 DEF Sending
    <3>4. Sending(p) => Unsent(p)' \/ Saved(p)'
      BY <1>1, <2>1, <2>3, <3>1, <3>3 DEF Unsent, Saved
    <3> QED
      BY <2>1, <3>1, <3>2, <3>4 DEF Kept, Pending, Saved
  <2> QED
    BY <2>2, <2>3
<1>9. ASSUME NEW q \in requests, Relabels(q) PROVE Kept(p)
  <2>1. PICK label : /\ Replace(q, label)
                     /\ \/ label = "open"
                           /\ file' = [file EXCEPT ![<<q.name, q.part>>] = Torn]
                        \/ label = "stored"
                           /\ file' = [file EXCEPT ![<<q.name, q.part>>] = q.text]
                        \/ label = "refused" /\ UNCHANGED file
    BY <1>9 DEF Relabels
  <2> DEFINE new == [q EXCEPT !.at = label]
  <2>2. requests' = (requests \ {q}) \cup {new}
    BY <2>1 DEF Replace
  <2>3. new.part = q.part /\ new.text = q.text /\ new.name = q.name /\ new.at = label
    BY <1>1 DEF Request
  <2> HIDE DEF new
  <2>4. UNCHANGED <<text, dirty, inflight>>
    BY <1>9 DEF Relabels
  <2>5. CASE q.part # p
    <3>1. file'[<<chosen, p>>] = file[<<chosen, p>>]
      <4>1. <<q.name, q.part>> # c
        BY <2>5
      <4> HIDE DEF c
      <4>2. file'[c] = file[c]
        BY <1>1, <1>3, <2>1, <4>1
      <4> QED
        BY <4>2 DEF c
    <3>2. Sending(p) => Sending(p)'
      BY <2>2, <2>4, <2>5, <3>1 DEF Sending
    <3> QED
      BY <2>4, <3>1, <3>2 DEF Kept, Saved, Pending, Unsent
  <2>6. CASE q.part = p
    <3>1. ~Saved(p) /\ ~Unsent(p)
      BY <1>2, <2>6 DEF Saved, Unsent
    <3>2. ASSUME Sending(p) PROVE Sending(p)'
      <4>1. dirty[p] /\ q.name = chosen /\ q.text = text[p]
        BY <1>2, <2>6, <3>2 DEF Sending
      <4>2. label = "stored" => file'[<<chosen, p>>] = text[p]
        BY <1>1, <1>3, <2>1, <2>6, <4>1
      <4>3. new \in requests' /\ new.part = p /\ new.name = chosen' /\ new.text = text'[p]
        BY <2>2, <2>3, <2>4, <2>6, <4>1
      <4> QED
        BY <2>3, <2>4, <4>1, <4>2, <4>3 DEF Sending
    <3> QED
      BY <2>4, <3>1, <3>2 DEF Kept, Pending
  <2> QED
    BY <2>5, <2>6
<1>10. ASSUME NEW np \in Names \X Part, np[2] # p, Blanks(np) PROVE Kept(p)
  <2>1. UNCHANGED <<requests, text, dirty, inflight>> /\ file'[<<chosen, p>>] = file[<<chosen, p>>]
    <3>1. c[2] = p
      OBVIOUS
    <3> HIDE DEF c
    <3>2. file'[c] = file[c]
      BY <1>1, <1>3, <1>10, <3>1 DEF Blanks
    <3> QED
      BY <1>10, <3>2 DEF Blanks, c
  <2> QED
    BY <2>1 DEF Kept, Saved, Pending, Unsent, Sending
<1> QED
  BY <1>4, <1>5, <1>6, <1>7, <1>8, <1>9, <1>10 DEF Spares

\* A run that keeps its place keeps what it has done to its edits.
LEMMA RunKept ==
  ASSUME Typed, UNCHANGED chosen, NEW h \in Slots, RunOK(handler[h]),
         handler'[h].kind = handler[h].kind, handler'[h].at = handler[h].at,
         handler'[h].part = handler[h].part, handler'[h].name = handler[h].name,
         handler'[h].got = handler[h].got, handler'[h].edits \subseteq handler[h].edits,
         chosen # "" => \A p \in handler'[h].edits : Kept(p)
  PROVE  RunOK(handler[h])'
<1> DEFINE old == handler[h]
           new == handler'[h]
<1> SUFFICES ASSUME old.kind = "run", new.edits # {}
             PROVE  RunOK(handler[h])'
  BY DEF RunOK
<1>1. old.edits # {}
  OBVIOUS
<1>2. Flushing(old) /\ Ready(old) /\ Reading(old) /\ Using(old)
  BY <1>1 DEF RunOK
<1>3. Flushing(handler[h])'
  BY <1>2 DEF Flushing, Kept
<1>4. Ready(handler[h])'
  BY <1>2 DEF Ready, Kept
<1>5. Reading(handler[h])'
  BY <1>2 DEF Reading, Kept
<1>6. Using(handler[h])'
  BY <1>2 DEF Using, Kept
<1> QED
  BY <1>3, <1>4, <1>5, <1>6 DEF RunOK

\* A handler without edits, or of another kind, has nothing to keep.
LEMMA NothingToKeep ==
  ASSUME NEW h \in Slots, handler'[h].edits = {} \/ handler'[h].kind # "run"
  PROVE  RunOK(handler[h])'
BY DEF RunOK

\* A run is not at a place where its edits matter.
LEMMA NotThere ==
  ASSUME NEW h \in Slots, handler'[h].at \notin {"flush", "wait", "flushed", "read", "got"}
  PROVE  RunOK(handler[h])'
BY DEF RunOK, Flushing, Ready, Reading, Using

\* The run that awaits a save goes on, with one edit more saved.
LEMMA RunGoesOn ==
  ASSUME Typed, Order, UNCHANGED chosen, NEW h \in Slots, RunOK(handler[h]),
         handler[h].at \in {"flush", "wait"}, \A p \in Part : Spares(p),
         ~dirty'[Parts[handler[h].part]],
         handler'[h].edits = handler[h].edits, handler'[h].kind = handler[h].kind,
         \/ /\ handler[h].part < Len(Parts)
            /\ handler'[h].at = "flush" /\ handler'[h].part = handler[h].part + 1
         \/ ~(handler[h].part < Len(Parts)) /\ handler'[h].at = "flushed"
  PROVE  RunOK(handler[h])'
<1> DEFINE k == handler[h].part
           E == handler[h].edits
<1>1. handler[h] \in Handler /\ k \in Position /\ E \subseteq Part
  BY DEF Typed, Sound, Handler, Position
<1>2. /\ handler'[h].edits = E /\ handler'[h].kind = handler[h].kind
      /\ \/ k < Len(Parts) /\ handler'[h].at = "flush" /\ handler'[h].part = k + 1
         \/ ~(k < Len(Parts)) /\ handler'[h].at = "flushed"
  OBVIOUS
<1>3. CASE handler[h].kind # "run" \/ E = {}
  BY <1>2, <1>3, NothingToKeep
<1>4. CASE chosen = ""
  BY <1>2, <1>4 DEF RunOK, Flushing, Ready, Reading, Using
<1>5. CASE handler[h].kind = "run" /\ E # {} /\ chosen # ""
  <2>1. /\ \A p \in E : Pending(p)
        /\ \A i \in Position : i < k /\ Parts[i] \in E => Saved(Parts[i])
    BY <1>5 DEF RunOK, Flushing
  <2>2. \A p \in Part : Kept(p)
    BY <1>5, EditKept
  <2>3. \A p \in E : Pending(p)'
    BY <1>1, <2>1, <2>2 DEF Kept
  <2>4. \A i \in Position : i = k /\ Parts[i] \in E => Saved(Parts[i])'
    <3>1. ASSUME NEW p \in E, ~dirty'[p] PROVE Saved(p)'
      BY <2>3, <3>1 DEF Pending, Unsent, Sending
    <3> QED
      BY <3>1
  <2>5. \A i \in Position : (i < k \/ i = k) /\ Parts[i] \in E => Saved(Parts[i])'
    <3>1. \A p \in Part : Saved(p) => Saved(p)'
      BY <2>2 DEF Kept
    <3> QED
      BY <1>1, <2>1, <2>4, <3>1
  <2>6. Len(Parts) \in Nat
    BY PageAssumption, LenProperties
  <2>7. CASE k < Len(Parts) /\ handler'[h].at = "flush" /\ handler'[h].part = k + 1
    <3>1. \A i \in Position : i < k + 1 => i < k \/ i = k
      BY <1>1 DEF Position
    <3>2. Flushing(handler[h])'
      BY <1>2, <2>3, <2>5, <2>7, <3>1 DEF Flushing
    <3> QED
      BY <2>7, <3>2 DEF RunOK, Ready, Reading, Using
  <2>8. CASE ~(k < Len(Parts)) /\ handler'[h].at = "flushed"
    <3>1. \A i \in Position : i < k \/ i = k
      BY <1>1, <2>6, <2>8 DEF Position
    <3>2. \A p \in E : Saved(p)'
      BY <1>1, <2>5, <3>1, PartOf
    <3>3. Ready(handler[h])'
      BY <1>2, <3>2 DEF Ready
    <3> QED
      BY <2>8, <3>3 DEF RunOK, Flushing, Reading, Using
  <2> QED
    BY <1>2, <2>7, <2>8
<1> QED
  BY <1>3, <1>4, <1>5

\* What the handlers' records look like after a move.
LEMMA Moves ==
  ASSUME NEW rec \in Handler
  PROVE  /\ LET new == [rec EXCEPT !.at = "wait"]
            IN /\ new.kind = rec.kind /\ new.at = "wait" /\ new.part = rec.part
               /\ new.edits = rec.edits
         /\ LET new == [rec EXCEPT !.part = rec.part + 1]
            IN /\ new.kind = rec.kind /\ new.at = rec.at /\ new.part = rec.part + 1
               /\ new.edits = rec.edits
         /\ LET new == [rec EXCEPT !.at = "flush", !.part = rec.part + 1]
            IN /\ new.kind = rec.kind /\ new.at = "flush" /\ new.part = rec.part + 1
               /\ new.edits = rec.edits
         /\ LET new == [rec EXCEPT !.at = "flushed", !.part = 1]
            IN new.kind = rec.kind /\ new.at = "flushed" /\ new.edits = rec.edits
         /\ [rec EXCEPT !.at = "write", !.part = 1].at = "write"
         /\ [rec EXCEPT !.at = "list", !.part = 1].at = "list"
         /\ \A P : [rec EXCEPT !.edits = P].edits = P
BY DEF Handler

\* Flush moves its own run only as RunGoesOn says, or to the save it awaits.
LEMMA FlushKeeps ==
  ASSUME Typed, Order, Runs, NEW h \in Slots, Flush(h)
  PROVE  Runs'
<1> DEFINE p == Parts[handler[h].part]
<1>1. /\ handler \in [Slots -> Sound] /\ handler[h] \in Handler /\ handler[h].part \in Position
      /\ p \in Part /\ handler[h].at = "flush" /\ UNCHANGED <<chosen, dirty>>
      /\ dirty \in [Part -> BOOLEAN]
  BY PartOf DEF Flush, Typed, TypeOK, Sound, Handler, Position
<1>2. Quiet \/ Sends(p)
  BY DEF Flush, Quiet, Sends
<1>3. \A r \in Part : Spares(r)
  BY <1>1, <1>2 DEF Spares
<1>4. chosen # "" => \A r \in Part : Kept(r)
  BY <1>1, <1>3, EditKept
<1>5. \A g \in Slots : handler[g].edits \subseteq Part /\ RunOK(handler[g])
  BY <1>1 DEF Runs, Sound, Handler
<1> DEFINE wait == [handler[h] EXCEPT !.at = "wait"]
           next == [handler[h] EXCEPT !.part = handler[h].part + 1]
           done == [handler[h] EXCEPT !.at = "flushed", !.part = 1]
<1>6. \/ Put(h, wait)
      \/ ~dirty[p] /\ handler[h].part < Len(Parts) /\ Put(h, next)
      \/ ~dirty[p] /\ ~(handler[h].part < Len(Parts)) /\ Put(h, done)
  BY <1>1 DEF Flush, Goto
<1>7. /\ wait.kind = handler[h].kind /\ wait.at = "wait" /\ wait.part = handler[h].part
      /\ wait.edits = handler[h].edits
  BY <1>1, Moves
<1>8. /\ next.kind = handler[h].kind /\ next.at = "flush" /\ next.part = handler[h].part + 1
      /\ next.edits = handler[h].edits
  BY <1>1, Moves
<1>9. done.kind = handler[h].kind /\ done.at = "flushed" /\ done.edits = handler[h].edits
  BY <1>1, Moves
<1> HIDE DEF wait, next, done, p
<1>10. \A g \in Slots : g # h => handler'[g] = handler[g]
  BY <1>1, <1>6 DEF Put
<1>11. ASSUME NEW g \in Slots, g # h PROVE RunOK(handler[g])'
  BY <1>1, <1>4, <1>5, <1>10, <1>11, RunKept
<1>12. ASSUME Put(h, wait) PROVE RunOK(handler[h])'
  <2>1. /\ handler'[h].kind = handler[h].kind /\ handler'[h].at = "wait"
        /\ handler'[h].part = handler[h].part /\ handler'[h].edits = handler[h].edits
    BY <1>1, <1>7, <1>12 DEF Put
  <2>2. CASE handler[h].kind # "run" \/ handler[h].edits = {} \/ chosen = ""
    BY <1>1, <2>1, <2>2 DEF RunOK, Flushing, Ready, Reading, Using
  <2>3. CASE handler[h].kind = "run" /\ handler[h].edits # {} /\ chosen # ""
    <3>1. /\ \A r \in handler[h].edits : Pending(r)
          /\ \A i \in Position : i < handler[h].part /\ Parts[i] \in handler[h].edits =>
               Saved(Parts[i])
      BY <1>1, <1>5, <2>3 DEF RunOK, Flushing
    <3>2. /\ \A r \in handler[h].edits : Pending(r)'
          /\ \A i \in Position : i < handler[h].part /\ Parts[i] \in handler[h].edits =>
               Saved(Parts[i])'
      BY <1>4, <1>5, <2>3, <3>1 DEF Kept
    <3>3. Flushing(handler[h])'
      BY <2>1, <3>2 DEF Flushing
    <3> QED
      BY <2>1, <3>3 DEF RunOK, Ready, Reading, Using
  <2> QED
    BY <2>2, <2>3
<1>13. ASSUME ~dirty[p], handler[h].part < Len(Parts), Put(h, next) PROVE RunOK(handler[h])'
  <2>1. /\ handler'[h].kind = handler[h].kind /\ handler'[h].at = "flush"
        /\ handler'[h].part = handler[h].part + 1 /\ handler'[h].edits = handler[h].edits
    BY <1>1, <1>8, <1>13 DEF Put
  <2>2. ~dirty'[Parts[handler[h].part]]
    BY <1>1, <1>13 DEF p
  <2> QED
    BY <1>1, <1>3, <1>5, <1>13, <2>1, <2>2, RunGoesOn
<1>14. ASSUME ~dirty[p], ~(handler[h].part < Len(Parts)), Put(h, done) PROVE RunOK(handler[h])'
  <2>1. /\ handler'[h].kind = handler[h].kind /\ handler'[h].at = "flushed"
        /\ handler'[h].edits = handler[h].edits
    BY <1>1, <1>9, <1>14 DEF Put
  <2>2. ~dirty'[Parts[handler[h].part]]
    BY <1>1, <1>14 DEF p
  <2> QED
    BY <1>1, <1>3, <1>5, <1>14, <2>1, <2>2, RunGoesOn
<1> QED
  BY <1>6, <1>11, <1>12, <1>13, <1>14 DEF Runs

\* Handlers that do not move keep what they have done when the edits are left alone.
LEMMA OthersKept ==
  ASSUME Typed, Order, Runs, UNCHANGED chosen, \A p \in Part : Spares(p),
         NEW g \in Slots, handler'[g] = handler[g]
  PROVE  RunOK(handler[g])'
<1>1. chosen # "" => \A p \in Part : Kept(p)
  BY EditKept
<1>2. handler[g].edits \subseteq Part
  BY DEF Typed, Sound, Handler
<1>3. RunOK(handler[g])
  BY DEF Runs
<1> QED
  BY <1>1, <1>2, <1>3, RunKept

\* A run whose edits are all saved starts to read their files.
LEMMA FlushedKeeps ==
  ASSUME Typed, Order, Runs, NEW h \in Slots, Flushed(h)
  PROVE  Runs'
<1>1. /\ handler \in [Slots -> Sound] /\ handler[h] \in Handler /\ handler[h].part = 1
      /\ handler[h].at = "flushed" /\ UNCHANGED chosen
  BY DEF Flushed, Typed, Sound
<1>2. CASE chosen = ""
  <2>1. Put(h, Idle)
    BY <1>2 DEF Flushed, End
  <2>2. \A g \in Slots : handler'[g] \in {Idle, handler[g]}
    BY <1>1, <2>1 DEF Put
  <2>3. ASSUME NEW g \in Slots, handler'[g] = handler[g] PROVE RunOK(handler[g])'
    BY <1>1, <1>2, <2>3 DEF Runs, RunOK, Flushing, Ready, Reading, Using
  <2> QED
    BY <2>2, <2>3, IdleSound, NothingToKeep DEF Runs
<1>3. CASE chosen # ""
  <2> DEFINE rec == [handler[h] EXCEPT !.at = "read", !.name = chosen]
  <2>1. Put(h, rec) /\ Quiet
    BY <1>3 DEF Flushed, Quiet
  <2>2. /\ rec.kind = handler[h].kind /\ rec.at = "read" /\ rec.part = 1 /\ rec.name = chosen
        /\ rec.edits = handler[h].edits
    BY <1>1 DEF Handler
  <2> HIDE DEF rec
  <2>3. /\ handler'[h].kind = handler[h].kind /\ handler'[h].at = "read" /\ handler'[h].part = 1
        /\ handler'[h].name = chosen /\ handler'[h].edits = handler[h].edits
        /\ \A g \in Slots : g # h => handler'[g] = handler[g]
    BY <1>1, <2>1, <2>2 DEF Put
  <2>4. \A p \in Part : Spares(p)
    BY <2>1 DEF Spares
  <2>5. ASSUME NEW g \in Slots, g # h PROVE RunOK(handler[g])'
    BY <1>1, <2>3, <2>4, <2>5, OthersKept
  <2>6. ASSUME handler[h].kind = "run", handler[h].edits # {} PROVE Reading(handler[h])'
    <3>1. \A p \in handler[h].edits : Saved(p)
      BY <1>1, <1>3, <2>6 DEF Runs, RunOK, Ready
    <3>2. handler[h].edits \subseteq Part /\ \A p \in Part : Kept(p)
      BY <1>1, <1>3, <2>4, EditKept DEF Handler
    <3>3. \A p \in handler[h].edits : Saved(p)'
      BY <3>1, <3>2 DEF Kept
    <3>4. \A i \in Position : ~(i < 1)
      BY PartOf
    <3> QED
      BY <1>1, <1>3, <2>3, <3>3, <3>4 DEF Reading
  <2>7. RunOK(handler[h])'
    BY <2>3, <2>6 DEF RunOK, Flushing, Ready, Using
  <2> QED
    BY <2>5, <2>7 DEF Runs
<1> QED
  BY <1>2, <1>3

\* What a run reads for an edit is the edit.
LEMMA ReadFileKeeps ==
  ASSUME Typed, Order, Runs, NEW h \in Slots, ReadFile(h)
  PROVE  Runs'
<1> USE DEF page
<1> DEFINE k == handler[h].part
           r == Parts[k]
           content == file[<<handler[h].name, r>>]
           next == IF k < Len(Parts) THEN k + 1 ELSE 1
           at == IF k < Len(Parts) THEN "read" ELSE "got"
           got == [handler[h].got EXCEPT ![r] = content]
           rec == [handler[h] EXCEPT !.got = got, !.part = next, !.at = at]
<1>1. /\ handler \in [Slots -> Sound] /\ handler[h] \in Handler /\ handler[h].at = "read"
      /\ k \in Position /\ r \in Part
  BY PartOf DEF ReadFile, Typed, Sound, Handler, Position
<1>2. Quiet /\ UNCHANGED chosen
  BY DEF ReadFile, Quiet
<1>3. \A p \in Part : Spares(p)
  BY <1>2 DEF Spares
<1>4. Put(h, Idle) \/ Put(h, rec)
  BY <1>1 DEF ReadFile, End, Sound, Handler
<1>5. CASE Put(h, Idle)
  <2>1. handler'[h] = Idle /\ \A g \in Slots : g # h => handler'[g] = handler[g]
    BY <1>1, <1>5, GotKept
  <2>2. ASSUME NEW g \in Slots, g # h PROVE RunOK(handler[g])'
    BY <1>2, <1>3, <2>1, <2>2, OthersKept
  <2> QED
    BY <2>1, <2>2, IdleSound, NothingToKeep DEF Runs
<1>6. CASE Put(h, rec)
  <2>1. /\ rec.kind = handler[h].kind /\ rec.at = at /\ rec.part = next /\ rec.got = got
        /\ rec.name = handler[h].name /\ rec.edits = handler[h].edits
    <3> HIDE DEF got, next, at
    <3> QED
      BY <1>1 DEF Handler
  <2>2. handler'[h] = rec /\ \A g \in Slots : g # h => handler'[g] = handler[g]
    <3> HIDE DEF rec
    <3> QED
      BY <1>1, <1>6, GotKept
  <2> HIDE DEF rec
  <2>3. ASSUME NEW g \in Slots, g # h PROVE RunOK(handler[g])'
    BY <1>2, <1>3, <2>2, <2>3, OthersKept
  <2>4. ASSUME handler[h].kind = "run", handler[h].edits # {}
        PROVE  Reading(handler[h])' /\ Using(handler[h])'
    <3>1. /\ chosen # "" /\ handler[h].name = chosen /\ \A p \in handler[h].edits : Saved(p)
          /\ \A i \in Position : i < k /\ Parts[i] \in handler[h].edits =>
               handler[h].got[Parts[i]] = text[Parts[i]]
      BY <1>1, <2>4 DEF Runs, RunOK, Reading
    <3>2. handler[h].edits \subseteq Part /\ \A p \in Part : Kept(p)
      BY <1>1, <1>2, <1>3, <3>1, EditKept DEF Handler
    <3>3. /\ \A p \in handler[h].edits : Saved(p)'
          /\ text' = text /\ chosen' = chosen
      BY <1>2, <3>1, <3>2 DEF Kept, Quiet
    <3>4. r \in handler[h].edits => content = text[r]
      BY <3>1 DEF Saved
    <3>5. handler[h].got \in [Part -> Content] /\ \A i \in Position : Parts[i] \in Part
      BY <1>1, PartOf DEF Handler, Content
    <3>6. ASSUME NEW i \in Position, i < k \/ i = k, Parts[i] \in handler[h].edits
          PROVE  got[Parts[i]] = text[Parts[i]]
      <4> HIDE DEF content
      <4>1. CASE Parts[i] = r
        BY <1>1, <3>4, <3>5, <3>6, <4>1
      <4>2. CASE Parts[i] # r
        BY <1>1, <3>1, <3>5, <3>6, <4>2
      <4> QED
        BY <4>1, <4>2
    <3>7. /\ handler'[h].at = at /\ handler'[h].part = next /\ handler'[h].got = got
          /\ handler'[h].name = chosen /\ handler'[h].edits = handler[h].edits
      BY <2>1, <2>2, <3>1
    <3>8. CASE k < Len(Parts)
      <4>1. \A i \in Position : i < k + 1 => i < k \/ i = k
        BY <1>1 DEF Position
      <4>2. next = k + 1 /\ at = "read"
        BY <3>8
      <4> HIDE DEF next, at, got
      <4>3. \A i \in Position : i < handler'[h].part /\ Parts[i] \in handler[h].edits =>
              handler'[h].got[Parts[i]] = text[Parts[i]]
        BY <3>6, <3>7, <4>1, <4>2
      <4> QED
        BY <3>1, <3>3, <3>7, <4>2, <4>3 DEF Reading, Using
    <3>9. CASE ~(k < Len(Parts))
      <4>1. Len(Parts) \in Nat
        BY PageAssumption, LenProperties
      <4>2. \A i \in Position : i < k \/ i = k
        BY <1>1, <3>9, <4>1 DEF Position
      <4>3. at = "got"
        BY <3>9
      <4>4. \A p \in handler[h].edits : got[p] = text[p]
        BY <3>2, <3>6, <4>2, PartOf
      <4> HIDE DEF at, got
      <4> QED
        BY <3>1, <3>3, <3>7, <4>3, <4>4 DEF Reading, Using
    <3> QED
      BY <3>8, <3>9
  <2>5. /\ handler'[h].kind = handler[h].kind /\ handler'[h].edits = handler[h].edits
        /\ handler'[h].at \in {"read", "got"}
    BY <2>1, <2>2
  <2>6. RunOK(handler[h])'
    BY <2>4, <2>5 DEF RunOK, Flushing, Ready
  <2> QED
    BY <2>3, <2>6 DEF Runs
<1> QED
  BY <1>4, <1>5, <1>6

\* A save that succeeds lets the runs that await it go on, one that fails ends them.
LEMMA AnswerKeeps ==
  ASSUME Typed, Order, Runs, NEW q, SaveSucceeded(q) \/ SaveFailed(q)
  PROVE  Runs'
<1>1. /\ handler \in [Slots -> Sound] /\ \A h \in Slots : handler[h] \in Handler
      /\ dirty \in [Part -> BOOLEAN] /\ requests \subseteq Request
  BY DEF Typed, TypeOK, Sound, Request
<1>2. q \in requests /\ Answers(q) /\ UNCHANGED chosen
  BY DEF SaveSucceeded, SaveFailed, Answers
<1>3. \A p \in Part : Spares(p)
  BY <1>2 DEF Spares
<1> SUFFICES ASSUME NEW h \in Slots PROVE RunOK(handler[h])'
  BY DEF Runs
<1> DEFINE k == handler[h].part
           on == [handler[h] EXCEPT !.at = "flush", !.part = handler[h].part + 1]
           done == [handler[h] EXCEPT !.at = "flushed", !.part = 1]
<1>4. on.kind = handler[h].kind /\ on.at = "flush" /\ on.part = k + 1 /\ on.edits = handler[h].edits
  BY <1>1, Moves
<1>5. done.kind = handler[h].kind /\ done.at = "flushed" /\ done.edits = handler[h].edits
  BY <1>1, Moves
<1>6. \/ handler'[h] = handler[h] \/ handler'[h] = Idle
      \/ /\ SaveSucceeded(q) /\ handler[h].at = "wait" /\ Parts[k] = q.part
         /\ \/ k < Len(Parts) /\ handler'[h] = on
            \/ ~(k < Len(Parts)) /\ handler'[h] = done
  BY DEF SaveSucceeded, SaveFailed, Awaited
<1> HIDE DEF on, done
<1>7. CASE handler'[h] = handler[h]
  BY <1>2, <1>3, <1>7, OthersKept
<1>8. CASE handler'[h] = Idle
  BY <1>8, IdleSound, NothingToKeep
<1>9. CASE /\ SaveSucceeded(q) /\ handler[h].at = "wait" /\ Parts[k] = q.part
           /\ \/ k < Len(Parts) /\ handler'[h] = on
              \/ ~(k < Len(Parts)) /\ handler'[h] = done
  <2>1. ~dirty'[Parts[k]]
    BY <1>1, <1>9 DEF SaveSucceeded, Request
  <2>2. /\ handler'[h].edits = handler[h].edits /\ handler'[h].kind = handler[h].kind
        /\ \/ /\ k < Len(Parts) /\ handler'[h].at = "flush" /\ handler'[h].part = k + 1
           \/ ~(k < Len(Parts)) /\ handler'[h].at = "flushed"
    BY <1>4, <1>5, <1>9
  <2>3. RunOK(handler[h])
    BY DEF Runs
  <2> QED
    BY <1>2, <1>3, <1>9, <2>1, <2>2, <2>3, RunGoesOn
<1> QED
  BY <1>6, <1>7, <1>8, <1>9

\* An edit of part p is made or made void, and every handler forgets it.
LEMMA ForgetKeeps ==
  ASSUME Typed, Order, Runs, UNCHANGED chosen, NEW p, \A r \in Part \ {p} : Spares(r),
         NEW h \in Slots, handler'[h] = Forget({p})[h]
  PROVE  RunOK(handler[h])'
<1>1. handler \in [Slots -> Sound] /\ handler[h].edits \subseteq Part
  BY DEF Typed, Sound, Handler
<1>2. /\ Forget({p})[h].kind = handler[h].kind /\ Forget({p})[h].at = handler[h].at
      /\ Forget({p})[h].part = handler[h].part /\ Forget({p})[h].name = handler[h].name
      /\ Forget({p})[h].got = handler[h].got /\ Forget({p})[h].edits = handler[h].edits \ {p}
  <2> DEFINE P == {p}
  <2> HIDE DEF P
  <2>1. /\ Forget(P)[h].kind = handler[h].kind /\ Forget(P)[h].at = handler[h].at
        /\ Forget(P)[h].part = handler[h].part /\ Forget(P)[h].name = handler[h].name
        /\ Forget(P)[h].got = handler[h].got /\ Forget(P)[h].edits = handler[h].edits \ P
    BY <1>1, ForgetSound
  <2> QED
    BY <2>1 DEF P
<1>3. chosen # "" => \A r \in Part \ {p} : Kept(r)
  BY EditKept
<1>4. RunOK(handler[h]) /\ handler'[h].edits \subseteq Part \ {p}
  BY <1>1, <1>2 DEF Runs
<1> QED
  BY <1>1, <1>2, <1>3, <1>4, RunKept

\* The steps that replace the texts make every handler forget all edits.
LEMMA ForgetAll ==
  ASSUME Typed, NEW h \in Slots, handler'[h] = Forget(Part)[h]
  PROVE  RunOK(handler[h])'
<1>1. handler \in [Slots -> Sound] /\ handler[h].edits \subseteq Part
  BY DEF Typed, Sound, Handler
<1>2. handler'[h].edits = {}
  BY <1>1, ForgetSound
<1> QED
  BY <1>2, NothingToKeep

\* Every step keeps what the runs have done to their edits.
LEMMA RunsNext == Typed /\ Order /\ Runs /\ [Next]_vars => Runs'
<1> SUFFICES ASSUME Typed, Order, Runs, [Next]_vars PROVE Runs'
  OBVIOUS
<1> USE DEF page
<1>1. /\ handler \in [Slots -> Sound] /\ \A h \in Slots : handler[h] \in Handler
      /\ \A h \in Slots : handler[h].part \in Position
  BY DEF Typed, Sound, Handler, Position
<1>2. ASSUME UNCHANGED <<handler, chosen>>, \A p \in Part : Spares(p) PROVE Runs'
  <2>1. ASSUME NEW g \in Slots PROVE RunOK(handler[g])'
    BY <1>2, OthersKept
  <2> QED
    BY <2>1 DEF Runs
<1>3. ASSUME Quiet PROVE \A p \in Part : Spares(p)
  BY <1>3 DEF Spares
<1>4. ASSUME Quiet, UNCHANGED chosen, NEW h \in Slots, NEW rec, Put(h, rec),
             handler'[h] = rec => RunOK(handler[h])'
      PROVE  Runs'
  <2>1. handler'[h] = rec /\ \A g \in Slots : g # h => handler'[g] = handler[g]
    BY <1>1, <1>4, GotKept
  <2>2. ASSUME NEW g \in Slots, g # h PROVE RunOK(handler[g])'
    BY <1>3, <1>4, <2>1, <2>2, OthersKept
  <2> QED
    BY <1>4, <2>1, <2>2 DEF Runs
<1>5. ASSUME NEW h \in Slots, NEW rec, rec.edits = {}, handler' = [Forget(Part) EXCEPT ![h] = rec]
      PROVE  Runs'
  <2>1. Forget(Part) \in [Slots -> Sound]
    BY <1>1, ForgetSound
  <2>2. handler'[h] = rec /\ \A g \in Slots : g # h => handler'[g] = Forget(Part)[g]
    BY <1>5, <2>1
  <2>3. RunOK(handler[h])'
    BY <1>5, <2>2, NothingToKeep
  <2>4. ASSUME NEW g \in Slots, g # h PROVE RunOK(handler[g])'
    BY <2>2, <2>4, ForgetAll
  <2> QED
    BY <2>3, <2>4 DEF Runs
<1>6. ASSUME UNCHANGED vars \/ \E p \in Part : Focus(p) PROVE Runs'
  <2>1. Quiet /\ UNCHANGED <<handler, chosen>>
    BY <1>6 DEF vars, Focus, Quiet
  <2> QED
    BY <1>2, <1>3, <2>1
<1>7. ASSUME NEW p \in Part, Type(p) PROVE Runs'
  <2>1. Types(p) /\ handler' = Forget({p}) /\ UNCHANGED chosen
    BY <1>7 DEF Type, Types
  <2>2. \A r \in Part \ {p} : Spares(r)
    BY <2>1 DEF Spares
  <2>3. ASSUME NEW h \in Slots PROVE RunOK(handler[h])'
    BY <2>1, <2>2, ForgetKeeps
  <2> QED
    BY <2>3 DEF Runs
<1>8. ASSUME NEW p \in Part, Blur(p) PROVE Runs'
  <2>1. (Quiet \/ Sends(p)) /\ UNCHANGED <<handler, chosen>>
    BY <1>8 DEF Blur, Quiet, Sends
  <2> QED
    BY <1>2, <2>1 DEF Spares
<1>9. ASSUME NEW h \in Slots, NEW n \in Names \cup {""}, Choose(h, n) PROVE Runs'
  <2> DEFINE rec == [Idle EXCEPT !.kind = "switch", !.at = "flush"]
  <2>1. rec.edits = {} /\ handler' = [Forget(Part) EXCEPT ![h] = rec]
    BY <1>9 DEF Choose, Idle
  <2> HIDE DEF rec
  <2> QED
    BY <1>5, <2>1
<1>10. ASSUME NEW h \in Slots, Submit(h) PROVE Runs'
  <2> DEFINE P == {p \in Part : Unsent(p)}
             rec == [Idle EXCEPT !.kind = "run", !.at = "flush", !.edits = P]
  <2>1. Put(h, rec) /\ Quiet /\ UNCHANGED chosen
    BY <1>10 DEF Submit, Quiet, Unsent
  <2>2. P \subseteq Part /\ \A p \in P : Unsent(p)
    OBVIOUS
  <2> HIDE DEF P
  <2>3. rec.kind = "run" /\ rec.at = "flush" /\ rec.part = 1 /\ rec.edits = P
    BY DEF Idle
  <2> HIDE DEF rec
  <2>4. \A p \in P : Pending(p)'
    BY <2>1, <2>2 DEF Pending, Unsent, Quiet
  <2>5. ASSUME handler'[h] = rec PROVE RunOK(handler[h])'
    <3>1. /\ handler'[h].at = "flush" /\ handler'[h].part = 1 /\ handler'[h].edits = P
          /\ \A i \in Position : ~(i < 1)
      BY <2>3, <2>5, PartOf
    <3>2. Flushing(handler[h])'
      BY <2>4, <3>1 DEF Flushing
    <3> QED
      BY <3>1, <3>2 DEF RunOK, Ready, Reading, Using
  <2> QED
    BY <1>4, <2>1, <2>5
<1>11. ASSUME NEW h \in Slots, NEW n \in Names, NewPrompt(h, n) PROVE Runs'
  <2> DEFINE rec == [Idle EXCEPT !.kind = "create", !.at = "check", !.name = n]
  <2>1. Put(h, rec) /\ Quiet /\ UNCHANGED chosen
    BY <1>11 DEF NewPrompt, Quiet
  <2>2. rec.kind = "create"
    BY DEF Idle
  <2> HIDE DEF rec
  <2>3. ASSUME handler'[h] = rec PROVE RunOK(handler[h])'
    BY <2>2, <2>3, NothingToKeep
  <2> QED
    BY <1>4, <2>1, <2>3
<1>12. ASSUME Reset PROVE Runs'
  <2>1. \A h \in Slots : handler'[h] = Forget(Part)[h]
    BY <1>12 DEF Reset
  <2>2. ASSUME NEW h \in Slots PROVE RunOK(handler[h])'
    BY <2>1, ForgetAll
  <2> QED
    BY <2>2 DEF Runs
<1>13. ASSUME NEW h \in Slots, Listed(h) PROVE Runs'
  <2> DEFINE rec == [Forget(Part)[h] EXCEPT !.at = "read", !.part = 1]
  <2>1. Forget(Part) \in [Slots -> Sound]
    BY <1>1, ForgetSound
  <2>2. Forget(Part)[h].edits = {} /\ Forget(Part)[h] \in Handler
    <3>1. handler[h].edits \subseteq Part
      BY <1>1 DEF Handler
    <3> QED
      BY <1>1, <2>1, <3>1, ForgetSound DEF Sound
  <2>3. rec.edits = {}
    BY <2>2 DEF Handler
  <2>4. \E new \in {Idle, rec} : handler' = [Forget(Part) EXCEPT ![h] = new]
    BY <1>13, <2>1 DEF Listed
  <2> HIDE DEF rec
  <2> QED
    BY <1>5, <2>3, <2>4, IdleSound
<1>14. ASSUME NEW h \in Slots, Loaded(h) PROVE Runs'
  BY <1>5, <1>14, IdleSound DEF Loaded
<1>15. ASSUME NEW h \in Slots, Answered(h) \/ RequestFails(h) PROVE Runs'
  <2>1. Put(h, Idle) /\ Quiet /\ UNCHANGED chosen
    BY <1>15 DEF Answered, RequestFails, End, Quiet
  <2>2. ASSUME handler'[h] = Idle PROVE RunOK(handler[h])'
    BY <2>2, IdleSound, NothingToKeep
  <2> QED
    BY <1>4, <2>1, <2>2
<1>16. ASSUME NEW h \in Slots, Check(h) PROVE Runs'
  <2> DEFINE rec == [handler[h] EXCEPT !.at = "write", !.part = 1]
  <2>1. (Put(h, Idle) \/ Put(h, rec)) /\ Quiet /\ UNCHANGED chosen
    BY <1>16 DEF Check, End, Goto, Quiet
  <2>2. rec.at = "write"
    BY <1>1, Moves
  <2> HIDE DEF rec
  <2>3. ASSUME handler'[h] = Idle PROVE RunOK(handler[h])'
    BY <2>3, IdleSound, NothingToKeep
  <2>4. ASSUME handler'[h] = rec PROVE RunOK(handler[h])'
    BY <2>2, <2>4, NotThere
  <2> QED
    BY <1>4, <2>1, <2>3, <2>4
<1>17. ASSUME NEW h \in Slots, WriteBlank(h) PROVE Runs'
  <2> DEFINE p == Parts[handler[h].part]
             np == <<handler[h].name, p>>
             old == Forget({p})[h]
             rec == IF old.part < Len(Parts) THEN [old EXCEPT !.part = handler[h].part + 1]
                    ELSE [old EXCEPT !.at = "list", !.part = 1]
  <2>1. handler[h].at = "write" /\ UNCHANGED chosen /\ p \in Part /\ handler[h].name \in Names
    BY <1>1, <1>17, PartOf DEF WriteBlank, Typed, Sound
  <2>2. np \in Names \X Part /\ np[2] = p /\ Blanks(np)
    BY <1>17, <2>1 DEF WriteBlank, Blanks
  <2>3. \A r \in Part \ {p} : Spares(r)
    <3> HIDE DEF np, p
    <3> QED
      BY <2>2 DEF Spares
  <2>4. Forget({p}) \in [Slots -> Sound] /\ old.at = "write"
    <3> DEFINE P == {p}
    <3> HIDE DEF P
    <3>1. Forget(P) \in [Slots -> Sound] /\ Forget(P)[h].at = "write"
      BY <1>1, <2>1, ForgetSound
    <3> QED
      BY <3>1 DEF P
  <2>5. handler' = [Forget({p}) EXCEPT ![h] = rec]
    BY <1>17, <2>4 DEF WriteBlank
  <2>6. old \in Handler
    BY <2>4 DEF Sound
  <2> HIDE DEF old
  <2>7. rec.at \in {"write", "list"}
    BY <2>4, <2>6 DEF Handler
  <2> HIDE DEF rec, p, np
  <2>8. /\ handler'[h].at \in {"write", "list"}
        /\ \A g \in Slots : g # h => handler'[g] = Forget({p})[g]
    BY <2>4, <2>5, <2>7
  <2>9. RunOK(handler[h])'
    BY <2>8, NotThere
  <2>10. ASSUME NEW g \in Slots, g # h PROVE RunOK(handler[g])'
    BY <2>1, <2>3, <2>8, <2>10, ForgetKeeps
  <2> QED
    BY <2>9, <2>10 DEF Runs
<1>18. ASSUME NEW q, Truncate(q) \/ Write(q) \/ Refuse(q) PROVE Runs'
  <2>1. q \in requests /\ Relabels(q) /\ UNCHANGED <<handler, chosen>>
    BY <1>18 DEF Truncate, Write, Refuse, Relabels
  <2>2. \A p \in Part : Spares(p)
    BY <2>1 DEF Spares
  <2> QED
    BY <1>2, <2>1, <2>2
<1>19. ASSUME Crash PROVE Runs'
  <2>1. Refuses /\ UNCHANGED chosen /\ \A h \in Slots : handler'[h] \in {Idle, handler[h]}
    BY <1>19 DEF Crash, Refuses
  <2>2. \A p \in Part : Spares(p)
    BY <2>1 DEF Spares
  <2>3. ASSUME NEW h \in Slots PROVE RunOK(handler[h])'
    <3>1. CASE handler'[h] = Idle
      BY <3>1, IdleSound, NothingToKeep
    <3>2. CASE handler'[h] = handler[h]
      BY <2>1, <2>2, <3>2, OthersKept
    <3> QED
      BY <2>1, <3>1, <3>2
  <2> QED
    BY <2>3 DEF Runs
<1>20. ASSUME NEW h \in Slots, ListNames(h) PROVE Runs'
  <2> DEFINE rec == [handler[h] EXCEPT !.at = "listed", !.names = Listable]
  <2>1. Put(h, rec) /\ Quiet /\ UNCHANGED chosen
    BY <1>20 DEF ListNames, Quiet
  <2>2. rec.at = "listed"
    BY <1>1 DEF Handler
  <2> HIDE DEF rec
  <2>3. ASSUME handler'[h] = rec PROVE RunOK(handler[h])'
    BY <2>2, <2>3, NotThere
  <2> QED
    BY <1>4, <2>1, <2>3
<1> QED
  BY <1>6, <1>7, <1>8, <1>9, <1>10, <1>11, <1>12, <1>13, <1>14, <1>15, <1>16, <1>17, <1>18, <1>19,
     <1>20,
     FlushKeeps, FlushedKeeps, ReadFileKeeps, AnswerKeeps
     DEF Next, User, HandlerStep, SaveStep

\* However the handlers, the saves and the crashes of the server overlap, a run of the
\* selected prompt generates with the edits that were in the editors when it was started.
THEOREM RunsSeeTheEdits == Spec => []RunUsesEdits
<1>1. Init => Typed /\ Order /\ Runs
  <2>1. Init => Runs
    BY InitHandlers, IdleSound, OpeningSound DEF Runs, RunOK
  <2> QED
    BY <2>1, TypeInit, OrderInit
<1>2. Typed /\ Order /\ Runs /\ [Next]_vars => (Typed /\ Order /\ Runs)'
  BY TypeNext, OrderNext, RunsNext
<1>3. Runs => RunUsesEdits
  BY DEF Runs, RunOK, Using, RunUsesEdits
<1> QED
  BY <1>1, <1>2, <1>3, PTL DEF Spec
=============================================================================
