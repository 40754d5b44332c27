----------------------------- MODULE UserMemory -----------------------------
(***************************************************************************)
(* The long-term memory the service keeps about each chat user: the chat   *)
(* log (app/services/chat_memory.py), the memory items distilled from it,  *)
(* and the refresh protocol that moves the one into the other with the     *)
(* help of a language model (app/services/user_memory_service.py).         *)
(*                                                                         *)
(* A refresh runs on the event loop and gives it up only while it awaits   *)
(* the model.  Chat ingest and "reset stream" run on other threads and may *)
(* commit between any two of its steps.  The database is SQLite: one write *)
(* lock, taken by a transaction's first write and kept until its commit or *)
(* rollback; a SELECT reads the latest committed rows and takes no lock.   *)
(***************************************************************************)
EXTENDS Integers, Sequences, FiniteSets

CONSTANTS
  Users,               \* normalized chat user names
  Streams,             \* stream ids
  Requests,            \* calls of refresh_user_memory_if_needed; each runs once
  MsgIds,              \* primary keys a chat message can get (a bound on the log)
  Keys,                \* normalized (kind, text) pairs of a memory item
  Confidences,         \* ranks of the confidence values the model reports
  MaxEvidence,         \* largest evidence_count in one candidate (bound)
  MaxBatch,            \* most candidates in one model reply (bound)
  ErrorCodes,          \* error codes of a failed extraction
  BootstrapThreshold,  \* settings.user_memory_bootstrap_message_threshold
  MinUnprocessed,      \* settings.user_memory_min_unprocessed_messages
  ExtractLimit,        \* settings.user_memory_extract_message_limit
  MaxItems,            \* settings.user_memory_max_items_per_user
  MinConfidence,       \* settings.user_memory_min_confidence
  NoError, NoMessage, NoRequest

ASSUME MsgIdsAssumption == MsgIds \subseteq Nat \ {0} /\ IsFiniteSet(MsgIds)
ASSUME CandidateAssumption ==
  /\ Confidences \subseteq Nat /\ MaxEvidence \in Nat /\ MaxBatch \in Nat
ASSUME SettingsAssumption ==
  /\ BootstrapThreshold \in Nat /\ MinUnprocessed \in Nat
  /\ ExtractLimit \in Nat /\ MaxItems \in Nat /\ MinConfidence \in Nat
ASSUME NullAssumption == NoError \notin ErrorCodes /\ NoRequest \notin Requests

VARIABLES
  messages,   \* committed chat_messages: id -> row, or NoMessage
  items,      \* committed user_memory_items: a set of rows
  lock,       \* the request whose transaction holds the write lock
  tx,         \* what that transaction's own connection sees
  loop,       \* the request that runs on the event loop
  pc,         \* where each request is
  target,     \* username argument of each request
  traced,     \* does the request have an active trace?
  mode,       \* refresh_mode
  selected,   \* selected_message_ids
  reply,      \* extraction_result, its candidates consumed by the merge loop
  clock,      \* ticks once per merge (current_timestamp)
  readers,    \* history: requests that read the row now stored under an id
  deleted,    \* history: ids of each request's batch whose row a reset has deleted
  faulted     \* history: requests hit by a database fault

tables == <<messages, items>>
session == <<lock, tx>>
arguments == <<target, traced>>
history == <<readers, deleted>>
vars == <<messages, items, lock, tx, loop, pc, target, traced, mode, selected,
          reply, clock, readers, deleted, faulted>>
-----------------------------------------------------------------------------
Message == [stream : Streams, user : Users, viewer : BOOLEAN,
            processed : BOOLEAN, attempts : Nat,
            error : ErrorCodes \cup {NoError}]

ASSUME NoMessageAssumption == NoMessage \notin Message

\* The merge that made a row (`created') and its place there (`no') identify it.
Item == [user : Users, key : Keys, evidence : Nat, confidence : Nat,
         created : Nat, updated : Nat, no : Nat]

Candidate == [key : Keys, evidence : 1..MaxEvidence, confidence : Confidences]
Replies == UNION {[1..n -> Candidate] : n \in 0..MaxBatch}

NoReply == [error |-> NoError, candidates |-> <<>>]
NoTx == [messages |-> [i \in MsgIds |-> NoMessage], items |-> {}]

TxSteps == {"attempted", "merge", "trim", "process", "commit"}
LoopSteps == {"select", "mark", "report"} \cup TxSteps
InFlight == LoopSteps \cup {"llm"}
Ended == {"skipped", "failed", "refreshed", "raised", "crashed"}
-----------------------------------------------------------------------------
(* Queries of ChatMemoryService and UserMemoryService.                     *)

Viewer(u) == {i \in MsgIds : /\ messages[i] # NoMessage
                             /\ messages[i].user = u
                             /\ messages[i].viewer}
Unprocessed(u) == {i \in Viewer(u) : ~messages[i].processed}
Rows(table, u) == {x \in table : x.user = u}

\* Ids grow with created_at, so ORDER BY created_at, id is the order of ids.
Recent(S, n) == {i \in S : Cardinality({j \in S : j > i}) < n}
Oldest(S, n) == {i \in S : Cardinality({j \in S : j < i}) < n}

RefreshMode(u) ==
  IF Rows(items, u) = {}
  THEN IF Cardinality(Viewer(u)) >= BootstrapThreshold THEN "bootstrap" ELSE "skip"
  ELSE IF Cardinality(Unprocessed(u)) >= MinUnprocessed THEN "refresh" ELSE "skip"

Selection(u, m) == IF m = "bootstrap" THEN Recent(Viewer(u), ExtractLimit)
                                      ELSE Oldest(Unprocessed(u), ExtractLimit)

\* The order of list_memory_items, best first.
Better(x, y) ==
  \/ x.confidence > y.confidence
  \/ /\ x.confidence = y.confidence
     /\ \/ x.evidence > y.evidence
        \/ /\ x.evidence = y.evidence
           /\ \/ x.updated > y.updated
              \/ x.updated = y.updated /\ x.created > y.created

SameRow(x, y) == x.created = y.created /\ x.no = y.no
-----------------------------------------------------------------------------
(* What the statements of a refresh write.  Definitions called "Faulty..." *)
(* are wrong variants that the properties below are tried against.         *)

\* The UPDATE forgets its "is_memory_processed is false" condition.
FaultyAttempted(table, ids, error) ==
  [i \in MsgIds |->
     IF i \in ids /\ table[i] # NoMessage
     THEN [table[i] EXCEPT !.attempts = @ + 1, !.error = error]
     ELSE table[i]]

Attempted(table, ids, error) ==
  [i \in MsgIds |->
     IF i \in ids /\ table[i] # NoMessage /\ ~table[i].processed
     THEN [table[i] EXCEPT !.attempts = @ + 1, !.error = error]
     ELSE table[i]]

\* The UPDATE forgets which ids it is for.
FaultyProcessedAll(table, ids) ==
  [i \in MsgIds |->
     IF table[i] # NoMessage
     THEN [table[i] EXCEPT !.processed = TRUE, !.error = NoError]
     ELSE table[i]]

\* Only one row of the batch is marked.
FaultyProcessed(table, ids) ==
  [i \in MsgIds |->
     IF i \in ids /\ table[i] # NoMessage /\ \A j \in ids : i <= j
     THEN [table[i] EXCEPT !.processed = TRUE, !.error = NoError]
     ELSE table[i]]

Processed(table, ids) ==
  [i \in MsgIds |->
     IF i \in ids /\ table[i] # NoMessage
     THEN [table[i] EXCEPT !.processed = TRUE, !.error = NoError]
     ELSE table[i]]

\* existing_memory_by_key: of rows with one key the last in list order wins.
\* It is built before the loop, so rows added by this batch are not in it.
Existing(u, k) == {x \in Rows(items, u) : x.key = k}
LastListed(S) == CHOOSE x \in S : \A y \in S : ~Better(x, y)

\* The candidate's confidence replaces the row's.
FaultyCredit(x, c) ==
  [x EXCEPT !.evidence = @ + c.evidence, !.confidence = c.confidence, !.updated = clock]

Credit(x, c) ==
  [x EXCEPT !.evidence = @ + c.evidence,
            !.confidence = IF @ >= c.confidence THEN @ ELSE c.confidence,
            !.updated = clock]

\* The time of the last update is left unset.
FaultyNewItem(u, c, n) ==
  [user |-> u, key |-> c.key, evidence |-> c.evidence, confidence |-> c.confidence,
   created |-> clock, updated |-> NoError, no |-> n]

NewItem(u, c, n) ==
  [user |-> u, key |-> c.key, evidence |-> c.evidence, confidence |-> c.confidence,
   created |-> clock, updated |-> clock, no |-> n]

\* Every candidate becomes a row of its own.
FaultyMerged(table, u, c, n) == table \cup {NewItem(u, c, n)}

Merged(table, u, c, n) ==
  IF c.confidence < MinConfidence THEN table
  ELSE IF Existing(u, c.key) = {} THEN table \cup {NewItem(u, c, n)}
  ELSE LET row == LastListed(Existing(u, c.key))
       IN  {IF x.user = u /\ SameRow(x, row) THEN Credit(x, c) ELSE x : x \in table}

\* The slice starts one row too late.
FaultyKept(S, K) ==
  IF Cardinality(S) <= MaxItems + 1 THEN K = S
  ELSE /\ Cardinality(K) = MaxItems + 1
       /\ \A x \in S \ K, y \in K : ~Better(x, y)

\* The rows are listed in no particular order.
FaultyUnordered(S, K) ==
  IF Cardinality(S) <= MaxItems THEN K = S ELSE Cardinality(K) = MaxItems

\* K: the first MaxItems rows of S; rows that tie may come in either order.
Kept(S, K) ==
  IF Cardinality(S) <= MaxItems THEN K = S
  ELSE /\ Cardinality(K) = MaxItems
       /\ \A x \in S \ K, y \in K : ~Better(x, y)
-----------------------------------------------------------------------------
Init ==
  /\ messages = [i \in MsgIds |-> NoMessage]
  /\ items = {}
  /\ lock = NoRequest /\ tx = NoTx
  /\ loop = NoRequest
  /\ pc = [r \in Requests |-> "idle"]
  /\ target \in [Requests -> Users]
  /\ traced \in [Requests -> BOOLEAN]
  /\ mode = [r \in Requests |-> "skip"]
  /\ selected = [r \in Requests |-> {}]
  /\ reply = [r \in Requests |-> NoReply]
  /\ clock = 0
  /\ readers = [i \in MsgIds |-> {}]
  /\ deleted = [r \in Requests |-> {}]
  /\ faulted = {}

(* Threads.  Each is one transaction of one write, so it waits for the lock *)
(* (or fails without effect) while a refresh holds it.                      *)

\* A plain INTEGER primary key is SQLite's rowid: one more than the highest in use.
NextId == 1 + (CHOOSE n \in MsgIds \cup {0} :
                 /\ n = 0 \/ messages[n] # NoMessage
                 /\ \A i \in MsgIds : messages[i] # NoMessage => i <= n)

\* ingest_chat_event: save_message and commit.
Ingest(s, u, v) ==
  /\ lock = NoRequest
  /\ NextId \in MsgIds
  /\ messages' = [messages EXCEPT ![NextId] =
       [stream |-> s, user |-> u, viewer |-> v, processed |-> FALSE,
        attempts |-> 0, error |-> NoError]]
  /\ readers' = [readers EXCEPT ![NextId] = {}]
  /\ UNCHANGED <<items, session, loop, pc, arguments, mode, selected, reply,
                 clock, deleted, faulted>>

\* reset_chat_stream: delete_stream_messages and commit.
ResetStream(s) ==
  LET gone == {i \in MsgIds : messages[i] # NoMessage /\ messages[i].stream = s}
  IN /\ lock = NoRequest
     /\ gone # {}
     /\ messages' = [i \in MsgIds |-> IF i \in gone THEN NoMessage ELSE messages[i]]
     /\ readers' = [i \in MsgIds |-> IF i \in gone THEN {} ELSE readers[i]]
     /\ deleted' = [r \in Requests |-> deleted[r] \cup (selected[r] \cap gone)]
     /\ UNCHANGED <<items, session, loop, pc, arguments, mode, selected, reply,
                    clock, faulted>>
-----------------------------------------------------------------------------
(* The refresh, one step per statement that reads or writes shared state.   *)

Goto(r, label) == pc' = [pc EXCEPT ![r] = label]

\* The call returns or raises, and the loop is free for another task.
Finish(r, outcome) ==
  /\ Goto(r, outcome)
  /\ selected' = [selected EXCEPT ![r] = {}]
  /\ reply' = [reply EXCEPT ![r] = NoReply]
  /\ readers' = [i \in MsgIds |-> readers[i] \ {r}]
  /\ deleted' = [deleted EXCEPT ![r] = {}]
  /\ loop' = NoRequest

Commit == /\ messages' = tx.messages
          /\ items' = tx.items
          /\ lock' = NoRequest /\ tx' = NoTx

Rollback == lock' = NoRequest /\ tx' = NoTx /\ UNCHANGED tables

\* should_refresh_user_memory.  Of its three counts only one decides once it
\* is known whether the user has items, which no other thread changes.
StartRefresh(r) ==
  /\ pc[r] = "idle" /\ loop = NoRequest
  /\ mode' = [mode EXCEPT ![r] = RefreshMode(target[r])]
  /\ IF RefreshMode(target[r]) = "skip"
     THEN Goto(r, "skipped") /\ UNCHANGED loop
     ELSE Goto(r, "select") /\ loop' = r
  /\ UNCHANGED <<tables, session, arguments, selected, reply, clock, history, faulted>>

\* select_messages_for_refresh; the stream may have been reset in between.
SelectMessages(r) ==
  LET ids == Selection(target[r], mode[r])
  IN /\ pc[r] = "select"
     /\ IF ids = {}
        THEN Finish(r, "skipped")
        ELSE /\ Goto(r, "llm") /\ loop' = NoRequest
             /\ selected' = [selected EXCEPT ![r] = ids]
             /\ readers' = [i \in MsgIds |-> IF i \in ids THEN readers[i] \cup {r}
                                                         ELSE readers[i]]
             /\ UNCHANGED <<reply, deleted>>
     /\ UNCHANGED <<tables, session, arguments, mode, clock, faulted>>

\* Before the model is awaited, looking up the feature's pool or reading and filling a
\* prompt fails: the handler rolls back and raises, and the database has done nothing.
FailToPrepare(r) ==
  /\ pc[r] = "select" /\ Selection(target[r], mode[r]) # {}
  /\ Rollback /\ Finish(r, "raised")
  /\ UNCHANGED <<arguments, mode, clock, faulted>>

\* extract_memory_candidates returns: a failure code, or parsed candidates.
ReceiveReply(r, e, batch) ==
  /\ pc[r] = "llm" /\ loop = NoRequest
  /\ loop' = r /\ Goto(r, "mark")
  /\ reply' = [reply EXCEPT ![r] = [error |-> e, candidates |-> batch]]
  /\ UNCHANGED <<tables, session, arguments, mode, selected, clock, history, faulted>>

\* mark_messages_memory_extraction_attempted: the UPDATE takes the write lock.
MarkAttempted(r) ==
  /\ pc[r] = "mark" /\ lock = NoRequest
  /\ lock' = r
  /\ tx' = [messages |-> Attempted(messages, selected[r], reply[r].error),
            items |-> items]
  /\ Goto(r, "attempted")
  /\ UNCHANGED <<tables, loop, arguments, mode, selected, reply, clock, history, faulted>>

\* The trace event that follows is written through a second connection of the
\* same thread: it waits for the lock this call holds until SQLite gives up,
\* and the exception rolls the refresh back.
TraceBlocked(r) ==
  /\ pc[r] = "attempted" /\ traced[r]
  /\ Rollback /\ Finish(r, "raised")
  /\ UNCHANGED <<arguments, mode, clock, faulted>>

\* The early return forgets to commit.
FaultyGiveUp(r) ==
  /\ pc[r] = "attempted" /\ ~traced[r] /\ reply[r].error # NoError
  /\ Finish(r, "failed")
  /\ UNCHANGED <<tables, session, arguments, mode, clock, faulted>>

\* Extraction failed: commit the attempt marks and return False.
GiveUp(r) ==
  /\ pc[r] = "attempted" /\ ~traced[r] /\ reply[r].error # NoError
  /\ Commit /\ Finish(r, "failed")
  /\ UNCHANGED <<arguments, mode, clock, faulted>>

BeginMerge(r) ==
  /\ pc[r] = "attempted" /\ ~traced[r] /\ reply[r].error = NoError
  /\ Goto(r, "merge")
  /\ clock' = clock + 1
  /\ UNCHANGED <<tables, session, loop, arguments, mode, selected, reply, history, faulted>>

\* One round of the loop in merge_memory_candidates, the confidence filter of
\* extract_memory_candidates included.
MergeCandidate(r) ==
  LET todo == reply[r].candidates
  IN /\ pc[r] = "merge" /\ todo # <<>>
     /\ tx' = [tx EXCEPT !.items = Merged(@, target[r], Head(todo), Len(todo))]
     /\ reply' = [reply EXCEPT ![r].candidates = Tail(todo)]
     /\ UNCHANGED <<tables, lock, loop, pc, arguments, mode, selected, clock,
                    history, faulted>>

EndMerge(r) ==
  /\ pc[r] = "merge" /\ reply[r].candidates = <<>>
  /\ Goto(r, "trim")
  /\ UNCHANGED <<tables, session, loop, arguments, mode, selected, reply, clock,
                 history, faulted>>

\* trim_user_memory
Trim(r) ==
  LET S == Rows(tx.items, target[r])
  IN /\ pc[r] = "trim"
     /\ \E K \in SUBSET S :
          /\ Kept(S, K)
          /\ tx' = [tx EXCEPT !.items = (@ \ S) \cup K]
     /\ Goto(r, "process")
     /\ UNCHANGED <<tables, lock, loop, arguments, mode, selected, reply, clock,
                    history, faulted>>

\* The messages are selected again instead of taken from before the model call.
FaultyMarkProcessed(r) ==
  /\ pc[r] = "process"
  /\ tx' = [tx EXCEPT !.messages = Processed(@, Selection(target[r], mode[r]))]
  /\ Goto(r, "commit")
  /\ UNCHANGED <<tables, lock, loop, arguments, mode, selected, reply, clock,
                 history, faulted>>

\* mark_messages_memory_processed
MarkProcessed(r) ==
  /\ pc[r] = "process"
  /\ tx' = [tx EXCEPT !.messages = Processed(@, selected[r])]
  /\ Goto(r, "commit")
  /\ UNCHANGED <<tables, lock, loop, arguments, mode, selected, reply, clock,
                 history, faulted>>

CommitRefresh(r) ==
  /\ pc[r] = "commit"
  /\ Commit /\ Goto(r, "report")
  /\ UNCHANGED <<loop, arguments, mode, selected, reply, clock, history, faulted>>

\* The last trace event is written after the commit, outside the lock.
Report(r) ==
  /\ pc[r] = "report"
  /\ Finish(r, "refreshed")
  /\ UNCHANGED <<tables, session, arguments, mode, clock, faulted>>

\* A statement, a commit or a trace write fails (lock timeout of another process, full
\* disk): the handler rolls back and raises.  So it does when the session is lost inside
\* the model call, where the current model is stored through it: the failover takes the
\* exception for the model's, SQLite's texts hold no word it would try another model for,
\* and the first UPDATE after it raises, with no await in between.
Fault(r) ==
  /\ pc[r] \in LoopSteps \/ (pc[r] = "llm" /\ loop = NoRequest)
  /\ Rollback /\ Finish(r, "raised")
  /\ faulted' = faulted \cup {r}
  /\ UNCHANGED <<arguments, mode, clock>>

\* The process dies and starts again: SQLite discards the open transaction.
Crash ==
  /\ \E r \in Requests : pc[r] \in InFlight
  /\ pc' = [r \in Requests |-> IF pc[r] \in InFlight THEN "crashed" ELSE pc[r]]
  /\ selected' = [r \in Requests |-> {}]
  /\ reply' = [r \in Requests |-> NoReply]
  /\ readers' = [i \in MsgIds |-> {}]
  /\ deleted' = [r \in Requests |-> {}]
  /\ loop' = NoRequest
  /\ Rollback
  /\ UNCHANGED <<arguments, mode, clock, faulted>>

Receive(r) ==
  \/ \E e \in ErrorCodes : ReceiveReply(r, e, <<>>)
  \/ \E batch \in Replies : ReceiveReply(r, NoError, batch)

\* What the event loop does for a request it has begun.
LoopStep(r) ==
  \/ SelectMessages(r) \/ Receive(r) \/ MarkAttempted(r) \/ TraceBlocked(r)
  \/ GiveUp(r) \/ BeginMerge(r) \/ MergeCandidate(r) \/ EndMerge(r) \/ Trim(r)
  \/ MarkProcessed(r) \/ CommitRefresh(r) \/ Report(r)

Terminated == \A r \in Requests : pc[r] \in Ended

Next ==
  \/ \E s \in Streams, u \in Users, v \in BOOLEAN : Ingest(s, u, v)
  \/ \E s \in Streams : ResetStream(s)
  \/ \E r \in Requests : StartRefresh(r) \/ LoopStep(r) \/ FailToPrepare(r) \/ Fault(r)
  \/ Crash

Spec == Init /\ [][Next]_vars

\* The loop runs a ready task sooner or later, and the model call it awaits
\* returns or raises (the client library's default timeout).
FairSpec == Spec /\ \A r \in Requests : WF_vars(LoopStep(r))
-----------------------------------------------------------------------------
MessageTable == [MsgIds -> Message \cup {NoMessage}]

\* Type invariant.
TypeOK ==
  /\ messages \in MessageTable
  /\ items \in SUBSET Item
  /\ lock \in Requests \cup {NoRequest}
  /\ tx \in [messages : MessageTable, items : SUBSET Item]
  /\ loop \in Requests \cup {NoRequest}
  /\ pc \in [Requests -> {"idle"} \cup InFlight \cup Ended]
  /\ target \in [Requests -> Users]
  /\ traced \in [Requests -> BOOLEAN]
  /\ mode \in [Requests -> {"skip", "bootstrap", "refresh"}]
  /\ selected \in [Requests -> SUBSET MsgIds]
  /\ reply \in [Requests -> [error : ErrorCodes \cup {NoError}, candidates : Seq(Candidate)]]
  /\ clock \in Nat
  /\ readers \in [MsgIds -> SUBSET Requests]
  /\ deleted \in [Requests -> SUBSET MsgIds]
  /\ faulted \in SUBSET Requests

\* A processed message carries no error and was counted as attempted, also
\* when a second refresh of the same batch fails after the first succeeded.
ProcessedIsClean ==
  \A i \in MsgIds : messages[i] # NoMessage /\ messages[i].processed =>
    messages[i].error = NoError /\ messages[i].attempts > 0

\* The write lock is held only inside one uninterrupted run of the event loop,
\* never across the await of a model: no chat message waits for a model.
LockInsideLoopRun == lock # NoRequest => loop = lock /\ pc[lock] \in TxSteps

\* No user ever has more items than the limit, whatever overlaps.
ItemsBounded == \A u \in Users : Cardinality(Rows(items, u)) <= MaxItems

\* Two rows of a user with one key come from one model reply: refreshes that
\* overlap credit each other's rows instead of adding the key again.
SameKeySameBatch ==
  \A x, y \in items : x.user = y.user /\ x.key = y.key => x.created = y.created

\* Items change only by the commit of a refresh, only its user's, and in the
\* same step every message of its batch that still exists becomes processed.
MemoryMovesWithItsBatch ==
  [][items' # items =>
       \E r \in Requests :
         /\ pc[r] = "commit"
         /\ \A x \in (items \ items') \cup (items' \ items) : x.user = target[r]
         /\ \A i \in selected[r] : messages'[i] # NoMessage => messages'[i].processed]_vars

\* A row disappears only when its user keeps a full list of rows none of
\* which is worse than it was.
TrimKeepsTheBest ==
  [][\A x \in items :
       (\A y \in items' : ~SameRow(x, y)) =>
         /\ Cardinality(Rows(items', x.user)) = MaxItems
         /\ \A y \in Rows(items', x.user) : ~Better(x, y)]_vars

\* What is known of a row never gets weaker while the row lives.
SurvivorsGrow ==
  [][\A x \in items, y \in items' : SameRow(x, y) =>
       /\ x.user = y.user /\ x.key = y.key /\ y.evidence >= x.evidence
       /\ y.confidence >= x.confidence /\ y.updated >= x.updated]_vars

\* A message becomes processed only by the commit of a refresh that read that
\* very message and whose extraction succeeded (not another message that was
\* stored under the same key meanwhile).
OnlyReadMessagesProcessed ==
  [][\A i \in MsgIds :
       /\ messages[i] # NoMessage /\ ~messages[i].processed
       /\ messages'[i] # NoMessage /\ messages'[i].processed
       => \E r \in readers[i] : pc[r] = "commit" /\ reply[r].error = NoError]_vars

\* A refresh marks no more than it has read, with one exception: what now stands under a
\* key of its batch whose message a stream reset has deleted since.
UnreadMarksFollowAReset ==
  [][\A i \in MsgIds :
       /\ messages[i] # NoMessage /\ ~messages[i].processed
       /\ messages'[i] # NoMessage /\ messages'[i].processed
       => \E r \in Requests :
            /\ pc[r] = "commit" /\ reply[r].error = NoError /\ i \in selected[r]
            /\ r \in readers[i] \/ i \in deleted[r]]_vars

\* A refresh whose model has answered raises only when the database fails under it.
RaisesOnlyOnFault ==
  [][\A r \in Requests : pc[r] \in LoopSteps \ {"select"} /\ pc'[r] = "raised"
                          => r \in faulted']_vars

\* The batch a request has read and not settled; the commit settles it.
Reading == {"llm", "mark"} \cup TxSteps
Held == [r \in Requests |-> IF pc[r] \in Reading THEN selected[r] ELSE {}]

\* The service keeps the promise of MemoryStore.
Promise == INSTANCE MemoryStore WITH reading <- Held

\* Whatever overlaps, fails or dies, what a refresh does to both tables is one step of
\* MemoryStore: the whole batch it has read becomes memory, or an error, or nothing.
ImplementsMemoryStore == Promise!Spec

\* Every refresh that was begun ends: no overlap leaves one waiting forever.
EveryRefreshEnds == \A r \in Requests : pc[r] \in InFlight ~> pc[r] \in Ended
=============================================================================
