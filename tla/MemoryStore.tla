----------------------------- MODULE MemoryStore -----------------------------
(***************************************************************************)
(* What the refresh of a user's memory promises whoever reads the two      *)
(* tables: a batch of messages is read, and later either becomes memory    *)
(* and is marked processed, or is marked as attempted with an error, or    *)
(* nothing happens; all of it in one step, at most once per reading, and   *)
(* without a trace on what other users have or on what was known already.  *)
(***************************************************************************)
EXTENDS Naturals, FiniteSets

CONSTANTS Users, Streams, Requests, MsgIds, ErrorCodes, MaxItems, NoError, NoMessage

VARIABLES
  messages,  \* the chat log: a row or NoMessage under each id
  items,     \* the memory of all users
  target,    \* whose memory a request refreshes
  reading    \* ids of the batch it has read and not yet settled

vars == <<messages, items, target, reading>>

Rows(table, u) == {x \in table : x.user = u}
SameRow(x, y) == x.created = y.created /\ x.no = y.no

Init ==
  /\ messages = [i \in MsgIds |-> NoMessage]
  /\ items = {}
  /\ target \in [Requests -> Users]
  /\ reading = [r \in Requests |-> {}]

\* A message arrives under an id that is free.
Save(i, s, u, v) ==
  /\ messages[i] = NoMessage
  /\ messages' = [messages EXCEPT ![i] = [stream |-> s, user |-> u, viewer |-> v,
                                          processed |-> FALSE, attempts |-> 0,
                                          error |-> NoError]]
  /\ UNCHANGED <<items, target, reading>>

\* All messages of a stream go at once.
Reset(s) ==
  /\ messages' = [i \in MsgIds |->
       IF messages[i] # NoMessage /\ messages[i].stream = s THEN NoMessage ELSE messages[i]]
  /\ UNCHANGED <<items, target, reading>>

\* A batch is some of what the user has said.
Read(r, ids) ==
  /\ reading[r] = {}
  /\ \A i \in ids : /\ messages[i] # NoMessage
                    /\ messages[i].user = target[r] /\ messages[i].viewer
  /\ reading' = [reading EXCEPT ![r] = ids]
  /\ UNCHANGED <<messages, items, target>>

Settle(r) == reading[r] # {} /\ reading' = [reading EXCEPT ![r] = {}] /\ UNCHANGED target

\* What is not processed yet is marked with the error.
Attempted(m, e) == IF m.processed THEN m ELSE [m EXCEPT !.attempts = @ + 1, !.error = e]

\* A processed message has no error.
Done(m) == [Attempted(m, NoError) EXCEPT !.processed = TRUE, !.error = NoError]

Present(ids) == {i \in ids : messages[i] # NoMessage}

\* The model did not answer, or not with candidates.
Fail(r, e) ==
  /\ Settle(r)
  /\ messages' = [i \in MsgIds |-> IF i \in Present(reading[r]) THEN Attempted(messages[i], e)
                                                               ELSE messages[i]]
  /\ UNCHANGED items

\* A row that was known before, as it was or with more said for it.
Grown(x, y) ==
  /\ x.user = y.user /\ x.key = y.key /\ y.evidence >= x.evidence
  /\ y.confidence >= x.confidence /\ y.updated >= x.updated

\* A row that came first in the list of a user's items.
Better(x, y) ==
  \/ x.confidence > y.confidence
  \/ x.confidence = y.confidence /\ x.evidence > y.evidence
  \/ /\ x.confidence = y.confidence /\ x.evidence = y.evidence
     /\ \/ x.updated > y.updated
        \/ x.updated = y.updated /\ x.created > y.created

\* The memory of u after a batch: other users' rows stay; every row is a known one or a
\* newer one with a key u did not have; the list is bounded; a row that is missing made
\* way for a full list of rows it does not beat.
Learned(u) ==
  /\ \A x \in items \cup items' : x.user # u => x \in items /\ x \in items'
  /\ \A x, y \in items' : SameRow(x, y) => x = y
  /\ Cardinality(Rows(items', u)) <= MaxItems
  /\ \A y \in Rows(items', u) :
       \/ \E x \in items : SameRow(x, y) /\ Grown(x, y)
       \/ \A x \in items : x.created < y.created /\ ~(x.user = u /\ x.key = y.key)
  /\ \A x \in Rows(items, u) :
       (\A y \in items' : ~SameRow(x, y)) =>
         /\ Cardinality(Rows(items', u)) = MaxItems
         /\ \A y \in Rows(items', u) : ~Better(x, y)

\* The batch becomes memory and is marked processed, both at once.
Distil(r) ==
  /\ Settle(r)
  /\ messages' = [i \in MsgIds |-> IF i \in Present(reading[r]) THEN Done(messages[i])
                                                               ELSE messages[i]]
  /\ Learned(target[r])

\* The request ends without effect.
Drop(r) == Settle(r) /\ UNCHANGED <<messages, items>>

\* The process stops: nothing that was read is settled.
Stop == reading' = [r \in Requests |-> {}] /\ UNCHANGED <<messages, items, target>>

Next ==
  \/ \E i \in MsgIds, s \in Streams, u \in Users, v \in BOOLEAN : Save(i, s, u, v)
  \/ \E s \in Streams : Reset(s)
  \/ \E r \in Requests :
       \/ \E ids \in SUBSET MsgIds : Read(r, ids)
       \/ \E e \in ErrorCodes : Fail(r, e)
       \/ Distil(r) \/ Drop(r)
  \/ Stop

Spec == Init /\ [][Next]_vars
=============================================================================
