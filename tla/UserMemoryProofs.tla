-------------------------- MODULE UserMemoryProofs --------------------------
(* Theorems about UserMemory, for every value of its constants.            *)
EXTENDS UserMemory, FiniteSetTheorems, WellFoundedInduction, TLAPS

-----------------------------------------------------------------------------
(* Types of what the statements write.                                     *)

\* Marking a batch as attempted maps a table of messages to one.
LEMMA AttemptedType ==
  ASSUME NEW table \in MessageTable, NEW ids,
         NEW error \in ErrorCodes \cup {NoError}
  PROVE  Attempted(table, ids, error) \in MessageTable
<1>1. ASSUME NEW m \in Message
      PROVE  [m EXCEPT !.attempts = @ + 1, !.error = error] \in Message
  <2>1. m.attempts + 1 \in Nat
    BY DEF Message
  <2> QED BY <2>1, Zenon DEF Message
<1>2. ASSUME NEW i \in MsgIds
      PROVE  Attempted(table, ids, error)[i] \in Message \cup {NoMessage}
  <2>1. table[i] = NoMessage \/ table[i] \in Message
    BY DEF MessageTable
  <2> QED BY <1>1, <2>1 DEF Attempted
<1> QED BY <1>2 DEF Attempted, MessageTable

\* Marking a batch as processed maps a table of messages to one.
LEMMA ProcessedType ==
  ASSUME NEW table \in MessageTable, NEW ids
  PROVE  Processed(table, ids) \in MessageTable
<1>1. ASSUME NEW m \in Message
      PROVE  [m EXCEPT !.processed = TRUE, !.error = NoError] \in Message
  BY DEF Message
<1>2. ASSUME NEW i \in MsgIds
      PROVE  Processed(table, ids)[i] \in Message \cup {NoMessage}
  <2>1. table[i] = NoMessage \/ table[i] \in Message
    BY DEF MessageTable
  <2> QED BY <1>1, <2>1 DEF Processed
<1> QED BY <1>2 DEF Processed, MessageTable

\* One candidate merged into a set of items gives a set of items.
LEMMA MergedType ==
  ASSUME NEW table \in SUBSET Item, NEW u \in Users, NEW c \in Candidate,
         NEW n \in Nat, clock \in Nat
  PROVE  Merged(table, u, c, n) \in SUBSET Item
<1>1. c.key \in Keys /\ c.evidence \in Nat /\ c.confidence \in Nat
  <2>1. c.key \in Keys
    BY DEF Candidate
  <2>2. c.evidence \in Nat
    BY CandidateAssumption DEF Candidate
  <2>3. c.confidence \in Nat
    BY CandidateAssumption DEF Candidate
  <2> QED BY <2>1, <2>2, <2>3
<1>2. NewItem(u, c, n) \in Item
  BY <1>1 DEF NewItem, Item
<1>3. ASSUME NEW x \in table PROVE Credit(x, c) \in Item
  <2>1. x \in Item
    OBVIOUS
  <2>2. x.evidence \in Nat /\ x.confidence \in Nat
    BY <2>1 DEF Item
  <2>3. x.evidence + c.evidence \in Nat
    BY <1>1, <2>2
  <2>4. (IF x.confidence >= c.confidence THEN x.confidence ELSE c.confidence) \in Nat
    BY <1>1, <2>2
  <2> QED BY <2>1, <2>3, <2>4, Zenon DEF Credit, Item
<1> QED BY <1>2, <1>3 DEF Merged

\* The empty transaction view is well typed.
LEMMA NoTxType == NoTx \in [messages : MessageTable, items : SUBSET Item]
BY DEF NoTx, MessageTable

\* The result of a failed or empty extraction is well typed.
LEMMA NoReplyType ==
  NoReply \in [error : ErrorCodes \cup {NoError}, candidates : Seq(Candidate)]
BY DEF NoReply
-----------------------------------------------------------------------------
(* Type correctness.                                                       *)

\* Parts of TypeOK that the shared pieces of the actions write.
RunType ==
  /\ loop \in Requests \cup {NoRequest}
  /\ pc \in [Requests -> {"idle"} \cup InFlight \cup Ended]
  /\ selected \in [Requests -> SUBSET MsgIds]
  /\ reply \in [Requests -> [error : ErrorCodes \cup {NoError}, candidates : Seq(Candidate)]]
  /\ readers \in [MsgIds -> SUBSET Requests]
  /\ deleted \in [Requests -> SUBSET MsgIds]

StoreType ==
  /\ messages \in MessageTable
  /\ items \in SUBSET Item
  /\ lock \in Requests \cup {NoRequest}
  /\ tx \in [messages : MessageTable, items : SUBSET Item]

RestType ==
  /\ target \in [Requests -> Users]
  /\ traced \in [Requests -> BOOLEAN]
  /\ mode \in [Requests -> {"skip", "bootstrap", "refresh"}]
  /\ clock \in Nat
  /\ faulted \in SUBSET Requests

LEMMA TypeParts == TypeOK <=> RunType /\ StoreType /\ RestType
BY DEF TypeOK, RunType, StoreType, RestType

LEMMA FinishType ==
  ASSUME RunType, NEW r \in Requests, NEW outcome \in Ended, Finish(r, outcome)
  PROVE  RunType'
BY NoReplyType DEF RunType, Finish, Goto

LEMMA CommitType == ASSUME StoreType, Commit PROVE StoreType'
BY NoTxType DEF StoreType, Commit

LEMMA RollbackType == ASSUME StoreType, Rollback PROVE StoreType'
BY NoTxType DEF StoreType, Rollback, tables

\* The type invariant is preserved by every step.
LEMMA TypeStep == TypeOK /\ [Next]_vars => TypeOK'
<1> SUFFICES ASSUME TypeOK, [Next]_vars PROVE RunType' /\ StoreType' /\ RestType'
  BY TypeParts DEF TypeOK, RunType, StoreType, RestType
<1> RunType /\ StoreType /\ RestType
  BY TypeParts
<1> USE DEF history
<1>1. ASSUME NEW s \in Streams, NEW u \in Users, NEW v \in BOOLEAN, Ingest(s, u, v)
      PROVE  RunType' /\ StoreType' /\ RestType'
  <2> DEFINE row == [stream |-> s, user |-> u, viewer |-> v, processed |-> FALSE,
                     attempts |-> 0, error |-> NoError]
  <2>1. row \in Message
    BY DEF Message
  <2>2. messages' \in MessageTable
    BY <1>1, <2>1 DEF Ingest, StoreType, MessageTable
  <2>3. readers' \in [MsgIds -> SUBSET Requests]
    BY <1>1 DEF Ingest, RunType
  <2> QED BY <1>1, <2>2, <2>3 DEF Ingest, RunType, StoreType, RestType, session, arguments
<1>2. ASSUME NEW s \in Streams, ResetStream(s)
      PROVE  RunType' /\ StoreType' /\ RestType'
  <2>1. messages' \in MessageTable
    BY <1>2 DEF ResetStream, StoreType, MessageTable
  <2>2. readers' \in [MsgIds -> SUBSET Requests]
    BY <1>2 DEF ResetStream, RunType
  <2>3. deleted' \in [Requests -> SUBSET MsgIds]
    BY <1>2 DEF ResetStream, RunType
  <2> QED BY <1>2, <2>1, <2>2, <2>3 DEF ResetStream, RunType, StoreType, RestType, session, arguments
<1>3. ASSUME NEW r \in Requests, StartRefresh(r)
      PROVE  RunType' /\ StoreType' /\ RestType'
  BY <1>3 DEF StartRefresh, RefreshMode, Goto, RunType, StoreType, RestType, session,
              arguments, tables, InFlight, LoopSteps, TxSteps, Ended
<1>4. ASSUME NEW r \in Requests, SelectMessages(r)
      PROVE  RunType' /\ StoreType' /\ RestType'
  <2> DEFINE ids == Selection(target[r], mode[r])
  <2>1. StoreType' /\ RestType'
    BY <1>4 DEF SelectMessages, StoreType, RestType, session, arguments, tables
  <2>2. CASE ids = {}
    BY <1>4, <2>1, <2>2, FinishType DEF SelectMessages, Ended
  <2>3. CASE ids # {}
    <3>1. ids \in SUBSET MsgIds
      BY DEF Selection, Recent, Oldest, Unprocessed, Viewer
    <3>2. /\ pc' = [pc EXCEPT ![r] = "llm"] /\ loop' = NoRequest
          /\ selected' = [selected EXCEPT ![r] = ids]
          /\ readers' = [i \in MsgIds |-> IF i \in ids THEN readers[i] \cup {r} ELSE readers[i]]
          /\ reply' = reply /\ deleted' = deleted
      BY <1>4, <2>3 DEF SelectMessages, Goto
    <3> HIDE DEF ids
    <3>3. readers' \in [MsgIds -> SUBSET Requests]
      BY <3>2 DEF RunType
    <3> QED BY <2>1, <3>1, <3>2, <3>3 DEF RunType, InFlight
  <2> QED BY <2>2, <2>3
<1>5. ASSUME NEW r \in Requests, Receive(r)
      PROVE  RunType' /\ StoreType' /\ RestType'
  <2>1. PICK e \in ErrorCodes \cup {NoError}, b \in Seq(Candidate) : ReceiveReply(r, e, b)
    <3>1. <<>> \in Seq(Candidate) /\ \A b \in Replies : b \in Seq(Candidate)
      BY DEF Replies
    <3> QED BY <1>5, <3>1 DEF Receive
  <2>2. [error |-> e, candidates |-> b]
          \in [error : ErrorCodes \cup {NoError}, candidates : Seq(Candidate)]
    OBVIOUS
  <2> QED BY <2>1, <2>2 DEF ReceiveReply, Goto, RunType, StoreType, RestType, session,
              arguments, tables, InFlight, LoopSteps
<1>6. ASSUME NEW r \in Requests, MarkAttempted(r)
      PROVE  RunType' /\ StoreType' /\ RestType'
  <2>1. Attempted(messages, selected[r], reply[r].error) \in MessageTable
    BY AttemptedType DEF StoreType, RunType
  <2> QED BY <1>6, <2>1 DEF MarkAttempted, Goto, RunType, StoreType, RestType,
              arguments, tables, InFlight, LoopSteps, TxSteps
<1>7. ASSUME NEW r \in Requests, TraceBlocked(r)
      PROVE  RunType' /\ StoreType' /\ RestType'
  BY <1>7, FinishType, RollbackType DEF TraceBlocked, RestType, arguments, Ended
<1>8. ASSUME NEW r \in Requests, GiveUp(r)
      PROVE  RunType' /\ StoreType' /\ RestType'
  BY <1>8, FinishType, CommitType DEF GiveUp, RestType, arguments, Ended
<1>9. ASSUME NEW r \in Requests, BeginMerge(r)
      PROVE  RunType' /\ StoreType' /\ RestType'
  BY <1>9 DEF BeginMerge, Goto, RunType, StoreType, RestType, session, arguments, tables,
              InFlight, LoopSteps, TxSteps
<1>10. ASSUME NEW r \in Requests, MergeCandidate(r)
       PROVE  RunType' /\ StoreType' /\ RestType'
  <2> DEFINE todo == reply[r].candidates
  <2>1. todo \in Seq(Candidate) /\ todo # <<>>
    BY <1>10 DEF RunType, MergeCandidate
  <2>2. Head(todo) \in Candidate /\ Tail(todo) \in Seq(Candidate) /\ Len(todo) \in Nat
    BY <2>1
  <2>3. Merged(tx.items, target[r], Head(todo), Len(todo)) \in SUBSET Item
    <3>1. tx.items \in SUBSET Item /\ target[r] \in Users /\ clock \in Nat
      BY DEF StoreType, RestType
    <3> HIDE DEF todo
    <3> QED BY <2>2, <3>1, MergedType
  <2>4. StoreType'
    BY <1>10, <2>3 DEF MergeCandidate, StoreType, tables
  <2>5. reply' \in [Requests -> [error : ErrorCodes \cup {NoError}, candidates : Seq(Candidate)]]
    BY <1>10, <2>2 DEF MergeCandidate, RunType
  <2> QED BY <1>10, <2>4, <2>5 DEF MergeCandidate, RunType, RestType, arguments
<1>11. ASSUME NEW r \in Requests, EndMerge(r)
       PROVE  RunType' /\ StoreType' /\ RestType'
  BY <1>11 DEF EndMerge, Goto, RunType, StoreType, RestType, session, arguments, tables,
               InFlight, LoopSteps, TxSteps
<1>12. ASSUME NEW r \in Requests, Trim(r)
       PROVE  RunType' /\ StoreType' /\ RestType'
  <2>1. PICK K \in SUBSET Rows(tx.items, target[r]) :
          tx' = [tx EXCEPT !.items = (@ \ Rows(tx.items, target[r])) \cup K]
    BY <1>12 DEF Trim
  <2>2. (tx.items \ Rows(tx.items, target[r])) \cup K \in SUBSET Item
    BY DEF StoreType, Rows
  <2>3. StoreType'
    BY <1>12, <2>1, <2>2 DEF Trim, StoreType, tables
  <2> QED BY <1>12, <2>3 DEF Trim, Goto, RunType, RestType, arguments, InFlight,
               LoopSteps, TxSteps
<1>13. ASSUME NEW r \in Requests, MarkProcessed(r)
       PROVE  RunType' /\ StoreType' /\ RestType'
  <2>1. Processed(tx.messages, selected[r]) \in MessageTable
    BY ProcessedType DEF StoreType
  <2> QED BY <1>13, <2>1 DEF MarkProcessed, Goto, RunType, StoreType, RestType, arguments,
               tables, InFlight, LoopSteps, TxSteps
<1>14. ASSUME NEW r \in Requests, CommitRefresh(r)
       PROVE  RunType' /\ StoreType' /\ RestType'
  BY <1>14, CommitType DEF CommitRefresh, Goto, RunType, RestType, arguments, InFlight,
               LoopSteps
<1>15. ASSUME NEW r \in Requests, Report(r)
       PROVE  RunType' /\ StoreType' /\ RestType'
  BY <1>15, FinishType DEF Report, StoreType, RestType, session, tables, arguments, Ended
<1>16. ASSUME NEW r \in Requests, FailToPrepare(r) \/ Fault(r)
       PROVE  RunType' /\ StoreType' /\ RestType'
  BY <1>16, FinishType, RollbackType DEF FailToPrepare, Fault, RestType, arguments, Ended
<1>17. ASSUME Crash
       PROVE  RunType' /\ StoreType' /\ RestType'
  <2>1. StoreType'
    BY <1>17, RollbackType DEF Crash
  <2> QED BY <1>17, <2>1, NoReplyType DEF Crash, RunType, RestType, arguments, Ended
<1>18. ASSUME UNCHANGED vars
       PROVE  RunType' /\ StoreType' /\ RestType'
  BY <1>18 DEF vars, RunType, StoreType, RestType
<1> QED BY <1>1, <1>2, <1>3, <1>4, <1>5, <1>6, <1>7, <1>8, <1>9, <1>10, <1>11, <1>12,
           <1>13, <1>14, <1>15, <1>16, <1>17, <1>18 DEF Next, LoopStep

\* Every reachable state is well typed.
THEOREM TypeCorrect == Spec => []TypeOK
<1>1. Init => TypeOK
  BY NoTxType, NoReplyType
     DEF Init, TypeOK, MessageTable
<1> QED BY <1>1, TypeStep, PTL DEF Spec
-----------------------------------------------------------------------------
(* The write lock is held inside one run of the event loop.                *)

\* Exactly the request on the loop is between two awaits, and exactly the one
\* in its transaction holds the lock.
LoopOwner == \A r \in Requests : pc[r] \in LoopSteps <=> loop = r
LockOwner == \A r \in Requests : pc[r] \in TxSteps <=> lock = r
Ownership == LoopOwner /\ LockOwner

\* The call that ends leaves the loop, and the lock if it was its.
LEMMA FinishOwnership ==
  ASSUME TypeOK, Ownership, NEW r \in Requests, pc[r] \in LoopSteps \/ loop = NoRequest,
         NEW outcome \in Ended, Finish(r, outcome), lock' = NoRequest
  PROVE  Ownership'
<1>1. \A q \in Requests \ {r} : pc[q] \notin LoopSteps /\ pc[q] \notin TxSteps
  BY NullAssumption DEF Ownership, LoopOwner, LoopSteps
<1>2. pc' = [pc EXCEPT ![r] = outcome] /\ loop' = NoRequest
  BY DEF Finish, Goto
<1>3. outcome \notin LoopSteps /\ outcome \notin TxSteps
  BY DEF Ended, LoopSteps, TxSteps
<1>4. \A q \in Requests : pc'[q] \notin LoopSteps /\ pc'[q] \notin TxSteps
  BY <1>1, <1>2, <1>3 DEF TypeOK
<1> QED BY <1>2, <1>4, NullAssumption DEF Ownership, LoopOwner, LockOwner

\* A step of the request on the loop that keeps both the loop and the lock.
LEMMA KeepOwnership ==
  ASSUME TypeOK, Ownership, NEW r \in Requests, pc[r] \in TxSteps,
         NEW label \in TxSteps, Goto(r, label), UNCHANGED <<loop, lock>>
  PROVE  Ownership'
BY DEF TypeOK, Ownership, LoopOwner, LockOwner, Goto, LoopSteps

LEMMA OwnershipStep == TypeOK /\ Ownership /\ [Next]_vars => Ownership'
<1> SUFFICES ASSUME TypeOK, Ownership, [Next]_vars PROVE Ownership'
  OBVIOUS
<1> USE DEF Ownership, LoopOwner, LockOwner
<1>1. ASSUME UNCHANGED <<pc, loop, lock>> PROVE Ownership'
  BY <1>1
<1>2. ASSUME NEW s \in Streams, NEW u \in Users, NEW v \in BOOLEAN, Ingest(s, u, v)
      PROVE  Ownership'
  BY <1>1, <1>2 DEF Ingest, session
<1>3. ASSUME NEW s \in Streams, ResetStream(s) PROVE Ownership'
  BY <1>1, <1>3 DEF ResetStream, session
<1>4. ASSUME NEW r \in Requests, StartRefresh(r) PROVE Ownership'
  BY <1>4, NullAssumption DEF StartRefresh, Goto, session, TypeOK, LoopSteps, TxSteps
<1>5. ASSUME NEW r \in Requests, SelectMessages(r) PROVE Ownership'
  <2>1. CASE Selection(target[r], mode[r]) = {}
    <3>1. lock' = lock /\ lock = NoRequest
      BY <1>5 DEF SelectMessages, session, TypeOK, LoopSteps, TxSteps
    <3> QED BY <1>5, <2>1, <3>1, FinishOwnership DEF SelectMessages, Ended, LoopSteps
  <2>2. CASE Selection(target[r], mode[r]) # {}
    BY <1>5, <2>2, NullAssumption DEF SelectMessages, Goto, session, TypeOK, LoopSteps, TxSteps
  <2> QED BY <2>1, <2>2
<1>6. ASSUME NEW r \in Requests, Receive(r) PROVE Ownership'
  <2>1. PICK e, b : ReceiveReply(r, e, b)
    BY <1>6 DEF Receive
  <2> QED BY <2>1, NullAssumption DEF ReceiveReply, Goto, session, TypeOK, LoopSteps, TxSteps
<1>7. ASSUME NEW r \in Requests, MarkAttempted(r) PROVE Ownership'
  BY <1>7, NullAssumption DEF MarkAttempted, Goto, TypeOK, LoopSteps, TxSteps
<1>8. ASSUME NEW r \in Requests, TraceBlocked(r) PROVE Ownership'
  BY <1>8, FinishOwnership DEF TraceBlocked, Rollback, Ended, LoopSteps, TxSteps
<1>9. ASSUME NEW r \in Requests, GiveUp(r) PROVE Ownership'
  BY <1>9, FinishOwnership DEF GiveUp, Commit, Ended, LoopSteps, TxSteps
<1>10. ASSUME NEW r \in Requests, BeginMerge(r) PROVE Ownership'
  BY <1>10, KeepOwnership DEF BeginMerge, session, TxSteps
<1>11. ASSUME NEW r \in Requests, MergeCandidate(r) PROVE Ownership'
  BY <1>1, <1>11 DEF MergeCandidate
<1>12. ASSUME NEW r \in Requests, EndMerge(r) PROVE Ownership'
  BY <1>12, KeepOwnership DEF EndMerge, session, TxSteps
<1>13. ASSUME NEW r \in Requests, Trim(r) PROVE Ownership'
  BY <1>13, KeepOwnership DEF Trim, TxSteps
<1>14. ASSUME NEW r \in Requests, MarkProcessed(r) PROVE Ownership'
  BY <1>14, KeepOwnership DEF MarkProcessed, TxSteps
<1>15. ASSUME NEW r \in Requests, CommitRefresh(r) PROVE Ownership'
  BY <1>15, NullAssumption DEF CommitRefresh, Commit, Goto, TypeOK, LoopSteps, TxSteps
<1>16. ASSUME NEW r \in Requests, Report(r) PROVE Ownership'
  <2>1. lock' = NoRequest
    BY <1>16 DEF Report, session, TypeOK, LoopSteps, TxSteps
  <2> QED BY <1>16, <2>1, FinishOwnership DEF Report, Ended, LoopSteps
<1>17. ASSUME NEW r \in Requests, FailToPrepare(r) \/ Fault(r) PROVE Ownership'
  BY <1>17, FinishOwnership DEF FailToPrepare, Fault, Rollback, Ended, LoopSteps
<1>18. ASSUME Crash PROVE Ownership'
  BY <1>18, NullAssumption DEF Crash, Rollback, TypeOK, InFlight, LoopSteps, TxSteps
<1> QED BY <1>1, <1>2, <1>3, <1>4, <1>5, <1>6, <1>7, <1>8, <1>9, <1>10, <1>11, <1>12,
           <1>13, <1>14, <1>15, <1>16, <1>17, <1>18 DEF Next, LoopStep, vars

LEMMA OwnershipInvariant == Spec => []Ownership
<1>1. Init => Ownership
  BY NullAssumption DEF Init, Ownership, LoopOwner, LockOwner, LoopSteps, TxSteps
<1> QED BY <1>1, TypeCorrect, OwnershipStep, PTL DEF Spec

\* No transaction stays open across the await of a model.
THEOREM LockNeverAwaits == Spec => []LockInsideLoopRun
<1>1. TypeOK /\ Ownership => LockInsideLoopRun
  BY NullAssumption DEF TypeOK, Ownership, LoopOwner, LockOwner, LockInsideLoopRun, LoopSteps
<1> QED BY <1>1, TypeCorrect, OwnershipInvariant, PTL
-----------------------------------------------------------------------------
(* The open transaction.                                                   *)

\* Only these steps leave the write lock taken.
LEMMA LockedSteps ==
  ASSUME TypeOK, Ownership, [Next]_vars, lock' # NoRequest
  PROVE  \/ UNCHANGED vars
         \/ \E r \in Requests :
              /\ lock' = r
              /\ \/ MarkAttempted(r) \/ BeginMerge(r) \/ MergeCandidate(r)
                 \/ EndMerge(r) \/ Trim(r) \/ MarkProcessed(r)
<1> USE DEF Ownership, LoopOwner, LockOwner
<1>1. ASSUME NEW r \in Requests, pc[r] \notin TxSteps, pc[r] \in LoopSteps
      PROVE  lock = NoRequest
  BY <1>1 DEF TypeOK, LoopSteps
<1>2. ASSUME loop = NoRequest PROVE lock = NoRequest
  BY <1>2, NullAssumption DEF TypeOK, LoopSteps
<1>3. ASSUME NEW r \in Requests, LoopStep(r)
      PROVE  \/ MarkAttempted(r) \/ BeginMerge(r) \/ MergeCandidate(r)
             \/ EndMerge(r) \/ Trim(r) \/ MarkProcessed(r)
  <2>1. ~SelectMessages(r) /\ ~Report(r)
    BY <1>1 DEF SelectMessages, Report, session, TxSteps, LoopSteps
  <2>2. ~Receive(r)
    BY <1>2 DEF Receive, ReceiveReply, session
  <2>3. ~TraceBlocked(r) /\ ~GiveUp(r) /\ ~CommitRefresh(r)
    BY DEF TraceBlocked, GiveUp, CommitRefresh, Commit, Rollback
  <2> QED BY <1>3, <2>1, <2>2, <2>3 DEF LoopStep
<1>4. ASSUME NEW r \in Requests, LoopStep(r) PROVE lock' = r
  <2>1. CASE MarkAttempted(r)
    BY <2>1 DEF MarkAttempted
  <2>2. CASE BeginMerge(r) \/ MergeCandidate(r) \/ EndMerge(r) \/ Trim(r) \/ MarkProcessed(r)
    BY <2>2 DEF BeginMerge, MergeCandidate, EndMerge, Trim, MarkProcessed, session, TxSteps
  <2> QED BY <1>3, <1>4, <2>1, <2>2
<1>5. ASSUME NEW r \in Requests PROVE ~StartRefresh(r) /\ ~FailToPrepare(r) /\ ~Fault(r)
  BY <1>2 DEF StartRefresh, FailToPrepare, Fault, Rollback, session
<1>6. ~Crash
  BY DEF Crash, Rollback
<1>7. ASSUME NEW s \in Streams PROVE ~ResetStream(s) /\ \A u, v : ~Ingest(s, u, v)
  BY DEF ResetStream, Ingest, session
<1> QED BY <1>3, <1>4, <1>5, <1>6, <1>7 DEF Next

\* Only these steps change what is committed.
LEMMA CommittedSteps ==
  ASSUME [Next]_vars, <<messages, items>>' # <<messages, items>>
  PROVE  \/ \E s \in Streams, u \in Users, v \in BOOLEAN : Ingest(s, u, v)
         \/ \E s \in Streams : ResetStream(s)
         \/ \E r \in Requests : GiveUp(r) \/ CommitRefresh(r)
<1>1. ASSUME NEW r \in Requests, LoopStep(r) PROVE GiveUp(r) \/ CommitRefresh(r)
  BY <1>1 DEF LoopStep, SelectMessages, Receive, ReceiveReply, MarkAttempted, TraceBlocked,
     BeginMerge, MergeCandidate, EndMerge, Trim, MarkProcessed, Report, Rollback, tables
<1>2. ASSUME NEW r \in Requests PROVE ~StartRefresh(r) /\ ~FailToPrepare(r) /\ ~Fault(r)
  BY DEF StartRefresh, FailToPrepare, Fault, Rollback, tables
<1>3. ~Crash
  BY DEF Crash, Rollback, tables
<1> QED BY <1>1, <1>2, <1>3 DEF Next, vars

CleanRow(m) == m.processed => m.error = NoError /\ m.attempts > 0

\* Marking attempted keeps rows, their processed flag and their cleanness.
LEMMA AttemptedRows ==
  ASSUME NEW table \in MessageTable, NEW ids, NEW error \in ErrorCodes \cup {NoError},
         NEW i \in MsgIds
  PROVE  LET T == Attempted(table, ids, error) IN
         /\ T[i] = NoMessage <=> table[i] = NoMessage
         /\ table[i] # NoMessage =>
              /\ T[i].processed = table[i].processed
              /\ CleanRow(table[i]) => CleanRow(T[i])
              /\ CleanRow(table[i]) /\ i \in ids => T[i].attempts > 0
<1> DEFINE T == Attempted(table, ids, error)
<1>1. CASE i \in ids /\ table[i] # NoMessage /\ ~table[i].processed
  <2>1. table[i] \in Message
    BY <1>1 DEF MessageTable
  <2>2. T[i] = [table[i] EXCEPT !.attempts = @ + 1, !.error = error]
    BY <1>1 DEF Attempted
  <2>3. T[i].processed = table[i].processed /\ T[i].attempts = table[i].attempts + 1
    BY <2>1, <2>2 DEF Message
  <2>4. table[i].attempts \in Nat
    BY <2>1 DEF Message
  <2>5. T[i].attempts > 0
    BY <2>3, <2>4
  <2>6. T[i] # NoMessage
    <3>1. T \in MessageTable
      BY AttemptedType
    <3>2. ASSUME NEW m \in Message
          PROVE  [m EXCEPT !.attempts = @ + 1, !.error = error] \in Message
      <4>1. m.attempts + 1 \in Nat
        BY DEF Message
      <4> QED BY <4>1, Zenon DEF Message
    <3> QED BY <2>1, <2>2, <3>2, NoMessageAssumption
  <2> QED BY <1>1, <2>3, <2>5, <2>6 DEF CleanRow
<1>2. CASE ~(i \in ids /\ table[i] # NoMessage /\ ~table[i].processed)
  <2>1. T[i] = table[i]
    BY <1>2 DEF Attempted
  <2> QED BY <1>2, <2>1 DEF CleanRow
<1> QED BY <1>1, <1>2

\* Marking processed keeps rows and leaves those outside the batch alone.
LEMMA ProcessedRows ==
  ASSUME NEW table \in MessageTable, NEW ids, NEW i \in MsgIds
  PROVE  LET T == Processed(table, ids) IN
         /\ T[i] = NoMessage <=> table[i] = NoMessage
         /\ i \notin ids => T[i] = table[i]
         /\ table[i] # NoMessage /\ i \in ids =>
              T[i].processed /\ T[i].error = NoError /\ T[i].attempts = table[i].attempts
<1> DEFINE T == Processed(table, ids)
<1>1. CASE i \in ids /\ table[i] # NoMessage
  <2>1. table[i] \in Message
    BY <1>1 DEF MessageTable
  <2>2. T[i] = [table[i] EXCEPT !.processed = TRUE, !.error = NoError]
    BY <1>1 DEF Processed
  <2>3. T[i].processed /\ T[i].error = NoError /\ T[i].attempts = table[i].attempts
    BY <2>1, <2>2 DEF Message
  <2>4. T[i] # NoMessage
    <3>1. ASSUME NEW m \in Message
          PROVE  [m EXCEPT !.processed = TRUE, !.error = NoError] \in Message
      BY Zenon DEF Message
    <3> QED BY <2>1, <2>2, <3>1, NoMessageAssumption
  <2> QED BY <1>1, <2>3, <2>4
<1>2. CASE ~(i \in ids /\ table[i] # NoMessage)
  BY <1>2 DEF Processed
<1> QED BY <1>1, <1>2
-----------------------------------------------------------------------------
(* Processed messages are clean.                                           *)

CleanTable(t) == \A i \in MsgIds : t[i] # NoMessage => CleanRow(t[i])

\* The holder of the lock sees the committed rows, with its batch attempted;
\* only its last statement changes a processed flag, and only in its batch.
TxView ==
  \A r \in Requests : lock = r =>
    \A i \in MsgIds :
      /\ tx.messages[i] = NoMessage <=> messages[i] = NoMessage
      /\ messages[i] # NoMessage /\ (pc[r] # "commit" \/ i \notin selected[r]) =>
           tx.messages[i].processed = messages[i].processed
      /\ messages[i] # NoMessage /\ i \in selected[r] => tx.messages[i].attempts > 0
      /\ messages[i] # NoMessage /\ i \in selected[r] /\ pc[r] = "commit" =>
           tx.messages[i].processed

Clean == CleanTable(messages) /\ CleanTable(tx.messages)

LEMMA CleanIsProcessedIsClean == CleanTable(messages) => ProcessedIsClean
BY DEF CleanTable, CleanRow, ProcessedIsClean

LEMMA TxViewStep == TypeOK /\ Ownership /\ Clean /\ TxView /\ [Next]_vars => TxView'
<1> SUFFICES ASSUME TypeOK, Ownership, Clean, TxView, [Next]_vars,
                    NEW q \in Requests, lock' = q
             PROVE  (\A i \in MsgIds :
                       /\ tx.messages[i] = NoMessage <=> messages[i] = NoMessage
                       /\ messages[i] # NoMessage /\ (pc[q] # "commit" \/ i \notin selected[q]) =>
                            tx.messages[i].processed = messages[i].processed
                       /\ messages[i] # NoMessage /\ i \in selected[q] =>
                            tx.messages[i].attempts > 0
                       /\ messages[i] # NoMessage /\ i \in selected[q] /\ pc[q] = "commit" =>
                            tx.messages[i].processed)'
  BY DEF TxView
<1>1. CASE UNCHANGED vars
  BY <1>1 DEF vars, TxView
<1>2. CASE MarkAttempted(q)
  <2> DEFINE T == Attempted(messages, selected[q], reply[q].error)
  <2>1. /\ messages' = messages /\ tx'.messages = T /\ selected' = selected
        /\ pc'[q] = "attempted"
    BY <1>2 DEF MarkAttempted, Goto, tables, TypeOK
  <2>2. messages \in MessageTable /\ reply[q].error \in ErrorCodes \cup {NoError}
    BY DEF TypeOK
  <2>3. \A i \in MsgIds :
          /\ T[i] = NoMessage <=> messages[i] = NoMessage
          /\ messages[i] # NoMessage => T[i].processed = messages[i].processed
          /\ messages[i] # NoMessage /\ i \in selected[q] => T[i].attempts > 0
    BY <2>2, AttemptedRows DEF Clean, CleanTable
  <2> HIDE DEF T
  <2> QED BY <2>1, <2>3
<1>3. CASE MarkProcessed(q)
  <2> DEFINE T == Processed(tx.messages, selected[q])
  <2>1. /\ messages' = messages /\ tx'.messages = T /\ selected' = selected
        /\ pc'[q] = "commit" /\ pc[q] = "process" /\ lock = q
    BY <1>3 DEF MarkProcessed, Goto, tables, TypeOK
  <2>2. tx.messages \in MessageTable
    BY DEF TypeOK
  <2>3. \A i \in MsgIds :
          /\ T[i] = NoMessage <=> tx.messages[i] = NoMessage
          /\ i \notin selected[q] => T[i] = tx.messages[i]
          /\ tx.messages[i] # NoMessage /\ i \in selected[q] =>
               T[i].attempts = tx.messages[i].attempts /\ T[i].processed
    BY <2>2, ProcessedRows
  <2> HIDE DEF T
  <2> QED BY <2>1, <2>3 DEF TxView
<1>4. CASE BeginMerge(q) \/ MergeCandidate(q) \/ EndMerge(q) \/ Trim(q)
  <2>1. /\ messages' = messages /\ tx'.messages = tx.messages /\ selected' = selected
        /\ lock = q /\ pc[q] # "commit" /\ pc'[q] # "commit"
    BY <1>4 DEF BeginMerge, MergeCandidate, EndMerge, Trim, Goto, tables, session, TypeOK
  <2> QED BY <2>1 DEF TxView
<1> QED BY <1>1, <1>2, <1>3, <1>4, LockedSteps, NullAssumption

LEMMA CleanStep == TypeOK /\ Ownership /\ Clean /\ TxView /\ [Next]_vars => Clean'
<1> SUFFICES ASSUME TypeOK, Ownership, Clean, TxView, [Next]_vars PROVE Clean'
  OBVIOUS
<1>1. CleanTable(messages)'
  <2>1. CASE <<messages, items>>' = <<messages, items>>
    BY <2>1 DEF Clean, CleanTable
  <2>2. ASSUME NEW s \in Streams, NEW u \in Users, NEW v \in BOOLEAN, Ingest(s, u, v)
        PROVE  CleanTable(messages)'
    BY <2>2 DEF Ingest, Clean, CleanTable, CleanRow, TypeOK, MessageTable
  <2>3. ASSUME NEW s \in Streams, ResetStream(s) PROVE CleanTable(messages)'
    BY <2>3 DEF ResetStream, Clean, CleanTable
  <2>4. ASSUME NEW r \in Requests, GiveUp(r) \/ CommitRefresh(r) PROVE CleanTable(messages)'
    BY <2>4 DEF GiveUp, CommitRefresh, Commit, Clean, CleanTable
  <2> QED BY <2>1, <2>2, <2>3, <2>4, CommittedSteps
<1>2. CleanTable(tx.messages)'
  <2>1. CASE lock' = NoRequest
    <3>1. tx' = NoTx \/ tx' = tx
      <4>1. ASSUME NEW r \in Requests, LoopStep(r) PROVE tx' = NoTx \/ tx' = tx
        <5>1. ~MarkAttempted(r) /\ ~MergeCandidate(r) /\ ~Trim(r) /\ ~MarkProcessed(r)
          BY <2>1, NullAssumption DEF MarkAttempted, MergeCandidate, Trim, MarkProcessed,
             Ownership, LockOwner, TxSteps
        <5> QED BY <4>1, <5>1 DEF LoopStep, SelectMessages, Receive, ReceiveReply, TraceBlocked,
               GiveUp, BeginMerge, EndMerge, CommitRefresh, Report, Commit, Rollback, session
      <4>2. ASSUME NEW r \in Requests, StartRefresh(r) \/ FailToPrepare(r) \/ Fault(r)
            PROVE  tx' = NoTx \/ tx' = tx
        BY <4>2 DEF StartRefresh, FailToPrepare, Fault, Rollback, session
      <4>3. ASSUME NEW s \in Streams, NEW u \in Users, NEW v \in BOOLEAN,
                   ResetStream(s) \/ Ingest(s, u, v)
            PROVE  tx' = tx
        BY <4>3 DEF ResetStream, Ingest, session
      <4>4. ASSUME NEW s \in Streams, ResetStream(s) PROVE tx' = tx
        BY <4>4 DEF ResetStream, session
      <4> QED BY <4>1, <4>2, <4>3, <4>4 DEF Next, Crash, Rollback, vars
    <3> QED BY <3>1 DEF Clean, CleanTable, NoTx
  <2>2. CASE UNCHANGED vars
    BY <2>2 DEF vars, Clean, CleanTable
  <2>3. ASSUME NEW r \in Requests, MarkAttempted(r) PROVE CleanTable(tx.messages)'
    <3>1. tx'.messages = Attempted(messages, selected[r], reply[r].error)
      BY <2>3 DEF MarkAttempted
    <3>2. messages \in MessageTable /\ reply[r].error \in ErrorCodes \cup {NoError}
      BY DEF TypeOK
    <3> QED BY <3>1, <3>2, AttemptedRows DEF Clean, CleanTable
  <2>4. ASSUME NEW r \in Requests, MarkProcessed(r) PROVE CleanTable(tx.messages)'
    <3>1. tx'.messages = Processed(tx.messages, selected[r]) /\ lock = r
      BY <2>4 DEF MarkProcessed, Ownership, LockOwner, TxSteps
    <3>2. tx.messages \in MessageTable
      BY DEF TypeOK
    <3> QED BY <3>1, <3>2, ProcessedRows DEF Clean, CleanTable, CleanRow, TxView
  <2>5. ASSUME NEW r \in Requests,
               BeginMerge(r) \/ MergeCandidate(r) \/ EndMerge(r) \/ Trim(r)
        PROVE  CleanTable(tx.messages)'
    <3>1. tx'.messages = tx.messages
      BY <2>5 DEF BeginMerge, MergeCandidate, EndMerge, Trim, session, TypeOK
    <3> QED BY <3>1 DEF Clean, CleanTable
  <2> QED BY <2>1, <2>2, <2>3, <2>4, <2>5, LockedSteps
<1> QED BY <1>1, <1>2 DEF Clean

LEMMA CleanInvariant == Spec => [](Clean /\ TxView)
<1>1. Init => Clean /\ TxView
  BY NullAssumption DEF Init, Clean, CleanTable, TxView, NoTx
<1> QED BY <1>1, TypeCorrect, OwnershipInvariant, TxViewStep, CleanStep, PTL DEF Spec

\* No overlap of refreshes leaves an error on a processed message.
THEOREM ProcessedStaysClean == Spec => []ProcessedIsClean
BY CleanInvariant, CleanIsProcessedIsClean, PTL DEF Clean
-----------------------------------------------------------------------------
(* What a refresh marks without having read it.                             *)

\* Past the failure check the extraction is known to have succeeded.
AnswerOk == \A r \in Requests :
  pc[r] \in {"merge", "trim", "process", "commit"} => reply[r].error = NoError

LEMMA AnswerStep == TypeOK /\ Ownership /\ AnswerOk /\ [Next]_vars => AnswerOk'
<1> SUFFICES ASSUME TypeOK, Ownership, AnswerOk, [Next]_vars, NEW q \in Requests,
                    pc'[q] \in {"merge", "trim", "process", "commit"}
             PROVE  reply'[q].error = NoError
  BY DEF AnswerOk
<1> DEFINE Past == {"merge", "trim", "process", "commit"}
<1>1. CASE pc'[q] = pc[q] /\ reply'[q] = reply[q]
  BY <1>1 DEF AnswerOk
<1>2. ASSUME NEW r \in Requests, NEW outcome \in Ended, Finish(r, outcome)
      PROVE  pc'[q] = pc[q] /\ reply'[q] = reply[q]
  BY <1>2 DEF Finish, Goto, TypeOK, Ended
<1>3. ASSUME NEW r \in Requests, LoopStep(r) PROVE reply'[q].error = NoError
  <2>1. CASE TraceBlocked(r) \/ GiveUp(r) \/ Report(r)
    BY <1>1, <1>2, <2>1 DEF TraceBlocked, GiveUp, Report, Ended
  <2>2. CASE SelectMessages(r)
    BY <1>1, <1>2, <2>2 DEF SelectMessages, Goto, Ended, TypeOK
  <2>3. CASE Receive(r)
    <3>1. PICK e, b : ReceiveReply(r, e, b)
      BY <2>3 DEF Receive
    <3> QED BY <1>1, <3>1 DEF ReceiveReply, Goto, TypeOK
  <2>4. CASE MarkAttempted(r)
    BY <1>1, <2>4 DEF MarkAttempted, Goto, TypeOK
  <2>5. CASE BeginMerge(r)
    BY <1>1, <2>5 DEF BeginMerge, Goto, TypeOK
  <2>6. CASE MergeCandidate(r)
    BY <2>6 DEF MergeCandidate, AnswerOk, TypeOK
  <2>7. CASE EndMerge(r)
    BY <1>1, <2>7 DEF EndMerge, Goto, TypeOK, AnswerOk
  <2>8. CASE Trim(r)
    BY <1>1, <2>8 DEF Trim, Goto, TypeOK, AnswerOk
  <2>9. CASE MarkProcessed(r)
    BY <1>1, <2>9 DEF MarkProcessed, Goto, TypeOK, AnswerOk
  <2>10. CASE CommitRefresh(r)
    BY <1>1, <2>10 DEF CommitRefresh, Goto, TypeOK
  <2> QED BY <1>3, <2>1, <2>2, <2>3, <2>4, <2>5, <2>6, <2>7, <2>8, <2>9, <2>10 DEF LoopStep
<1>4. ASSUME NEW r \in Requests, StartRefresh(r) PROVE reply'[q].error = NoError
  BY <1>1, <1>4 DEF StartRefresh, Goto, TypeOK
<1>5. ASSUME NEW r \in Requests, FailToPrepare(r) \/ Fault(r) PROVE reply'[q].error = NoError
  BY <1>1, <1>2, <1>5 DEF FailToPrepare, Fault, Ended
<1>6. ASSUME NEW s \in Streams, NEW u \in Users, NEW v \in BOOLEAN, Ingest(s, u, v)
      PROVE  reply'[q].error = NoError
  BY <1>1, <1>6 DEF Ingest
<1>7. ASSUME NEW s \in Streams, ResetStream(s) PROVE reply'[q].error = NoError
  BY <1>1, <1>7 DEF ResetStream
<1>8. ASSUME Crash PROVE FALSE
  BY <1>8 DEF Crash, TypeOK, InFlight, LoopSteps, TxSteps
<1> QED BY <1>1, <1>3, <1>4, <1>5, <1>6, <1>7, <1>8 DEF Next, vars

-----------------------------------------------------------------------------
(* The key of a new message is free.                                        *)

\* The shortest way to say that a finite set of numbers has a greatest member: among its
\* subsets without one there is no smallest.
LEMMA GreatestMember ==
  ASSUME NEW S \in SUBSET Nat, IsFiniteSet(S), S # {}
  PROVE  \E m \in S : \A i \in S : i <= m
<1> DEFINE Bad == {T \in SUBSET S : T # {} /\ \A m \in T : \E i \in T : ~(i <= m)}
<1> SUFFICES ASSUME Bad # {} PROVE FALSE
  OBVIOUS
<1>1. IsWellFoundedOn(StrictSubsetOrdering(S), FiniteSubsetsOf(S))
  BY FS_StrictSubsetOrderingWellFounded
<1>2. Bad \subseteq FiniteSubsetsOf(S)
  BY FS_Subset DEF FiniteSubsetsOf
<1>3. PICK T \in Bad : \A U \in Bad : <<U, T>> \notin StrictSubsetOrdering(S)
  <2> HIDE DEF Bad
  <2> QED BY <1>1, <1>2, WFMin
<1>4. PICK t \in T : TRUE
  BY <1>3
<1>5. CASE T = {t}
  BY <1>3, <1>5
<1>6. CASE T # {t}
  <2>1. T \ {t} # {} /\ T \ {t} \in SUBSET S
    BY <1>3, <1>4, <1>6
  <2>2. <<T \ {t}, T>> \in StrictSubsetOrdering(S)
    BY <1>3, <1>4, <2>1 DEF StrictSubsetOrdering
  <2>3. T \ {t} \notin Bad
    BY <1>3, <2>2
  <2>4. PICK m \in T \ {t} : \A i \in T \ {t} : i <= m
    BY <2>1, <2>3
  <2>5. m \in Nat /\ t \in Nat /\ \A i \in T : i \in Nat
    BY <1>3, <1>4, <2>4
  <2>6. \/ \A i \in T : i <= m
        \/ \A i \in T : i <= t
    BY <2>4, <2>5
  <2> QED BY <1>3, <1>4, <2>4, <2>6
<1> QED BY <1>5, <1>6

\* No row has a higher key than any that is there.
LEMMA NextIdIsFree ==
  ASSUME TypeOK, NextId \in MsgIds
  PROVE  messages[NextId] = NoMessage
<1> DEFINE used == {i \in MsgIds : messages[i] # NoMessage}
           IsTop(n) == /\ n = 0 \/ messages[n] # NoMessage
                       /\ \A i \in MsgIds : messages[i] # NoMessage => i <= n
           top == CHOOSE n \in MsgIds \cup {0} : IsTop(n)
<1>1. \E n \in MsgIds \cup {0} : IsTop(n)
  <2>1. CASE used = {}
    BY <2>1
  <2>2. CASE used # {}
    <3>1. used \in SUBSET Nat /\ IsFiniteSet(used)
      BY MsgIdsAssumption, FS_Subset
    <3>2. PICK m \in used : \A i \in used : i <= m
      BY <2>2, <3>1, GreatestMember
    <3> QED BY <3>2
  <2> QED BY <2>1, <2>2
<1>2. top \in MsgIds \cup {0} /\ IsTop(top)
  BY <1>1
<1>3. NextId = 1 + top
  BY DEF NextId
<1> HIDE DEF top
<1>4. top \in Nat
  BY <1>2, MsgIdsAssumption
<1>5. ~(NextId <= top)
  BY <1>3, <1>4
<1> QED BY <1>2, <1>5
-----------------------------------------------------------------------------
(* A batch, and what a reset has deleted of it.                            *)

\* What a refresh has read is still there, or a reset has deleted it since.
BatchIsThere ==
  \A r \in Requests : \A i \in selected[r] :
    i \in deleted[r] \/ (messages[i] # NoMessage /\ r \in readers[i])

LEMMA ThereFinish ==
  ASSUME TypeOK, BatchIsThere, NEW r \in Requests, NEW outcome, Finish(r, outcome),
         \A i \in MsgIds : messages[i] # NoMessage => messages'[i] # NoMessage
  PROVE  BatchIsThere'
<1>1. /\ selected' = [selected EXCEPT ![r] = {}]
      /\ deleted' = [deleted EXCEPT ![r] = {}]
      /\ readers' = [i \in MsgIds |-> readers[i] \ {r}]
  BY DEF Finish
<1>2. \A q \in Requests, i \in MsgIds : i \in selected'[q] =>
        /\ q # r /\ i \in selected[q] /\ deleted'[q] = deleted[q]
        /\ q \in readers[i] => q \in readers'[i]
  BY <1>1 DEF TypeOK
<1>3. \A q \in Requests : selected'[q] \subseteq MsgIds
  BY <1>1 DEF TypeOK
<1> QED BY <1>2, <1>3 DEF BatchIsThere

LEMMA ThereStep ==
  ASSUME TypeOK, Ownership, TxView, BatchIsThere, [Next]_vars
  PROVE  BatchIsThere'
<1>0. \A r \in Requests : selected[r] \subseteq MsgIds
  BY DEF TypeOK
<1>1. ASSUME UNCHANGED <<messages, selected, readers, deleted>> PROVE BatchIsThere'
  BY <1>1 DEF BatchIsThere
<1>2. ASSUME NEW s \in Streams, NEW u \in Users, NEW v \in BOOLEAN, Ingest(s, u, v)
      PROVE  BatchIsThere'
  <2>1. NextId \in MsgIds /\ messages[NextId] = NoMessage
    BY <1>2, NextIdIsFree DEF Ingest
  <2>2. selected' = selected /\ deleted' = deleted
    BY <1>2 DEF Ingest
  <2>3. \A i \in MsgIds \ {NextId} : messages'[i] = messages[i] /\ readers'[i] = readers[i]
    BY <1>2 DEF Ingest, TypeOK, MessageTable
  <2>4. ASSUME NEW r \in Requests, NEW i \in selected[r]
        PROVE  i \in deleted[r] \/ (messages'[i] # NoMessage /\ r \in readers'[i])
    BY <1>0, <2>1, <2>3 DEF BatchIsThere
  <2> QED BY <2>2, <2>4 DEF BatchIsThere
<1>3. ASSUME NEW s \in Streams, ResetStream(s) PROVE BatchIsThere'
  <2> DEFINE gone == {i \in MsgIds : messages[i] # NoMessage /\ messages[i].stream = s}
  <2>1. /\ selected' = selected
        /\ \A r \in Requests : deleted'[r] = deleted[r] \cup (selected[r] \cap gone)
    BY <1>3 DEF ResetStream
  <2>2. \A i \in MsgIds \ gone : messages'[i] = messages[i] /\ readers'[i] = readers[i]
    BY <1>3 DEF ResetStream
  <2> HIDE DEF gone
  <2>3. ASSUME NEW r \in Requests, NEW i \in selected[r]
        PROVE  i \in deleted'[r] \/ (messages'[i] # NoMessage /\ r \in readers'[i])
    BY <1>0, <2>1, <2>2 DEF BatchIsThere
  <2> QED BY <2>1, <2>3 DEF BatchIsThere
<1>4. ASSUME NEW r \in Requests, SelectMessages(r) PROVE BatchIsThere'
  <2> DEFINE ids == Selection(target[r], mode[r])
  <2>1. CASE ids = {}
    BY <1>4, <2>1, ThereFinish DEF SelectMessages, tables
  <2>2. CASE ids # {}
    <3>1. /\ selected' = [selected EXCEPT ![r] = ids]
          /\ readers' = [i \in MsgIds |-> IF i \in ids THEN readers[i] \cup {r} ELSE readers[i]]
          /\ messages' = messages /\ deleted' = deleted
      BY <1>4, <2>2 DEF SelectMessages, tables
    <3>2. ids \subseteq MsgIds /\ \A i \in ids : messages[i] # NoMessage
      BY DEF Selection, Recent, Oldest, Unprocessed, Viewer
    <3> HIDE DEF ids
    <3>3. \A i \in MsgIds : readers[i] \subseteq readers'[i] /\ (i \in ids => r \in readers'[i])
      BY <3>1
    <3>4. ASSUME NEW q \in Requests, NEW i \in selected'[q]
          PROVE  i \in deleted[q] \/ (messages[i] # NoMessage /\ q \in readers'[i])
      <4>1. CASE q = r
        BY <3>1, <3>2, <3>3, <3>4, <4>1 DEF TypeOK
      <4>2. CASE q # r
        BY <1>0, <3>1, <3>3, <3>4, <4>2 DEF BatchIsThere, TypeOK
      <4> QED BY <4>1, <4>2
    <3> QED BY <3>1, <3>4 DEF BatchIsThere
  <2> QED BY <2>1, <2>2
<1>5. ASSUME NEW r \in Requests, GiveUp(r) \/ CommitRefresh(r)
      PROVE  \A i \in MsgIds : messages[i] # NoMessage => messages'[i] # NoMessage
  <2>1. lock = r /\ messages' = tx.messages
    BY <1>5 DEF GiveUp, CommitRefresh, Commit, Ownership, LockOwner, TxSteps
  <2> QED BY <2>1 DEF TxView
<1>6. ASSUME NEW r \in Requests, LoopStep(r) PROVE BatchIsThere'
  <2>1. CASE GiveUp(r)
    BY <1>5, <2>1, ThereFinish DEF GiveUp
  <2>2. CASE CommitRefresh(r)
    <3>1. selected' = selected /\ readers' = readers /\ deleted' = deleted
      BY <2>2 DEF CommitRefresh, history
    <3> QED BY <1>0, <1>5, <2>2, <3>1 DEF BatchIsThere
  <2>3. CASE TraceBlocked(r)
    BY <2>3, ThereFinish DEF TraceBlocked, Rollback, tables
  <2>4. CASE Report(r)
    BY <2>4, ThereFinish DEF Report, tables
  <2>5. CASE Receive(r)
    BY <1>1, <2>5 DEF Receive, ReceiveReply, tables, history
  <2>6. CASE \/ MarkAttempted(r) \/ BeginMerge(r) \/ MergeCandidate(r) \/ EndMerge(r)
             \/ Trim(r) \/ MarkProcessed(r)
    BY <1>1, <2>6 DEF MarkAttempted, BeginMerge, MergeCandidate, EndMerge, Trim,
       MarkProcessed, tables, history
  <2> QED BY <1>4, <1>6, <2>1, <2>2, <2>3, <2>4, <2>5, <2>6 DEF LoopStep
<1>7. ASSUME NEW r \in Requests, StartRefresh(r) PROVE BatchIsThere'
  BY <1>1, <1>7 DEF StartRefresh, tables, history
<1>8. ASSUME NEW r \in Requests, FailToPrepare(r) \/ Fault(r) PROVE BatchIsThere'
  BY <1>8, ThereFinish DEF FailToPrepare, Fault, Rollback, tables
<1>9. ASSUME Crash PROVE BatchIsThere'
  BY <1>9 DEF Crash, BatchIsThere
<1> QED BY <1>1, <1>2, <1>3, <1>6, <1>7, <1>8, <1>9 DEF Next, vars

\* A message becomes processed only at a commit of a refresh that selected its key.
LEMMA MarkedByItsBatch ==
  ASSUME TypeOK, Ownership, TxView, AnswerOk, Next, NEW i \in MsgIds,
         messages[i] # NoMessage, ~messages[i].processed,
         messages'[i] # NoMessage, messages'[i].processed
  PROVE  \E r \in Requests :
           pc[r] = "commit" /\ reply[r].error = NoError /\ i \in selected[r]
<1>1. <<messages, items>>' # <<messages, items>>
  OBVIOUS
<1>2. ASSUME NEW s \in Streams, NEW u \in Users, NEW v \in BOOLEAN, Ingest(s, u, v)
      PROVE  FALSE
  BY <1>2 DEF Ingest, TypeOK, MessageTable
<1>3. ASSUME NEW s \in Streams, ResetStream(s) PROVE FALSE
  BY <1>3 DEF ResetStream
<1>4. PICK r \in Requests : GiveUp(r) \/ CommitRefresh(r)
  BY <1>1, <1>2, <1>3, CommittedSteps
<1>5. lock = r /\ messages' = tx.messages
  BY <1>4 DEF GiveUp, CommitRefresh, Commit, Ownership, LockOwner, TxSteps
<1>6. pc[r] = "commit" /\ i \in selected[r]
  BY <1>5 DEF TxView
<1> QED BY <1>6 DEF AnswerOk

\* However refreshes, chat and resets interleave, fail or die, a refresh marks only what it
\* has read and the model has answered for, save what stands under a key whose message a
\* reset has deleted from the batch: the reset of a stream during the model call is the
\* only cause of the violation that the run about SQLite's keys shows.
THEOREM ResetsAloneMixUpIds == Spec => UnreadMarksFollowAReset
<1> DEFINE Step == \A i \in MsgIds :
             /\ messages[i] # NoMessage /\ ~messages[i].processed
             /\ messages'[i] # NoMessage /\ messages'[i].processed
             => \E r \in Requests :
                  /\ pc[r] = "commit" /\ reply[r].error = NoError /\ i \in selected[r]
                  /\ r \in readers[i] \/ i \in deleted[r]
<1>1. Init => AnswerOk /\ BatchIsThere
  BY DEF Init, AnswerOk, NoReply, BatchIsThere
<1>2. Spec => []AnswerOk
  BY <1>1, AnswerStep, TypeCorrect, OwnershipInvariant, PTL DEF Spec
<1>3. TypeOK /\ Ownership /\ TxView /\ BatchIsThere /\ [Next]_vars => BatchIsThere'
  BY ThereStep
<1>4. Spec => []BatchIsThere
  BY <1>1, <1>3, TypeCorrect, OwnershipInvariant, CleanInvariant, PTL DEF Spec
<1>5. ASSUME TypeOK, Ownership, TxView, AnswerOk, BatchIsThere, [Next]_vars PROVE [Step]_vars
  <2> SUFFICES ASSUME Next, NEW i \in MsgIds,
                      messages[i] # NoMessage, ~messages[i].processed,
                      messages'[i] # NoMessage, messages'[i].processed
               PROVE  \E r \in Requests :
                        /\ pc[r] = "commit" /\ reply[r].error = NoError /\ i \in selected[r]
                        /\ r \in readers[i] \/ i \in deleted[r]
    BY <1>5
  <2>1. PICK r \in Requests : pc[r] = "commit" /\ reply[r].error = NoError /\ i \in selected[r]
    BY <1>5, MarkedByItsBatch
  <2>2. r \in readers[i] \/ i \in deleted[r]
    BY <1>5, <2>1 DEF BatchIsThere
  <2> QED BY <2>1, <2>2
<1> QED BY <1>2, <1>4, <1>5, TypeCorrect, OwnershipInvariant, CleanInvariant, PTL
        DEF Spec, UnreadMarksFollowAReset
-----------------------------------------------------------------------------
(* No user has more items than the limit.                                  *)

\* The transaction differs from the committed items only in its user's rows,
\* and has cut them to the limit before it can commit.
TxItems ==
  \A r \in Requests : lock = r =>
    /\ \A u \in Users \ {target[r]} : Rows(tx.items, u) = Rows(items, u)
    /\ pc[r] = "attempted" => tx.items = items
    /\ pc[r] \in {"process", "commit"} => Cardinality(Rows(tx.items, target[r])) <= MaxItems

\* Merging a candidate for u leaves the rows of every other user alone.
LEMMA MergedOthers ==
  ASSUME NEW table \in SUBSET Item, NEW u \in Users, NEW w \in Users \ {u},
         NEW c \in Candidate, NEW n \in Nat
  PROVE  Rows(Merged(table, u, c, n), w) = Rows(table, w)
<1>1. NewItem(u, c, n).user = u
  BY DEF NewItem
<1>2. ASSUME NEW x \in table PROVE Credit(x, c).user = x.user
  BY DEF Credit, Item
<1>3. CASE c.confidence < MinConfidence
  BY <1>3 DEF Merged
<1>4. CASE ~(c.confidence < MinConfidence) /\ Existing(u, c.key) = {}
  <2>1. Merged(table, u, c, n) = table \cup {NewItem(u, c, n)}
    BY <1>4 DEF Merged
  <2> QED BY <1>1, <2>1 DEF Rows
<1>5. CASE ~(c.confidence < MinConfidence) /\ Existing(u, c.key) # {}
  <2> DEFINE row == LastListed(Existing(u, c.key))
             Next1(x) == IF x.user = u /\ SameRow(x, row) THEN Credit(x, c) ELSE x
  <2>1. Merged(table, u, c, n) = {Next1(x) : x \in table}
    BY <1>5 DEF Merged
  <2>2. \A x \in table : Next1(x).user = x.user /\ (x.user # u => Next1(x) = x)
    BY <1>2
  <2> HIDE DEF Next1
  <2> QED BY <2>1, <2>2 DEF Rows
<1> QED BY <1>3, <1>4, <1>5

LEMMA TxItemsStep == TypeOK /\ Ownership /\ TxItems /\ [Next]_vars => TxItems'
<1> SUFFICES ASSUME TypeOK, Ownership, TxItems, [Next]_vars, NEW q \in Requests, lock' = q
             PROVE  (/\ \A u \in Users \ {target[q]} : Rows(tx.items, u) = Rows(items, u)
                     /\ pc[q] = "attempted" => tx.items = items
                     /\ pc[q] \in {"process", "commit"} =>
                          Cardinality(Rows(tx.items, target[q])) <= MaxItems)'
  BY DEF TxItems
<1>1. CASE UNCHANGED vars
  BY <1>1 DEF vars, TxItems, Rows
<1>2. CASE MarkAttempted(q)
  BY <1>2 DEF MarkAttempted, Goto, tables, TypeOK, Rows
<1>3. CASE BeginMerge(q) \/ EndMerge(q)
  <2>1. /\ tx' = tx /\ items' = items /\ target' = target /\ lock = q
        /\ pc'[q] \in {"merge", "trim"}
    BY <1>3 DEF BeginMerge, EndMerge, Goto, tables, session, arguments, TypeOK
  <2> QED BY <2>1 DEF TxItems, Rows
<1>4. CASE MergeCandidate(q)
  <2> DEFINE todo == reply[q].candidates
  <2>1. /\ items' = items /\ target' = target /\ lock = q /\ pc'[q] = "merge"
        /\ tx'.items = Merged(tx.items, target[q], Head(todo), Len(todo))
    BY <1>4 DEF MergeCandidate, tables, arguments, TypeOK, Ownership, LockOwner, TxSteps
  <2>2. todo \in Seq(Candidate) /\ todo # <<>>
    BY <1>4 DEF MergeCandidate, TypeOK
  <2>3. Head(todo) \in Candidate /\ Len(todo) \in Nat
    BY <2>2
  <2>4. tx.items \in SUBSET Item /\ target[q] \in Users
    BY DEF TypeOK
  <2> HIDE DEF todo
  <2>5. \A u \in Users \ {target[q]} : Rows(tx'.items, u) = Rows(tx.items, u)
    BY <2>1, <2>3, <2>4, MergedOthers
  <2> QED BY <2>1, <2>5 DEF TxItems, Rows
<1>5. CASE Trim(q)
  <2> DEFINE S == Rows(tx.items, target[q])
  <2>1. PICK K \in SUBSET S : Kept(S, K) /\ tx' = [tx EXCEPT !.items = (@ \ S) \cup K]
    BY <1>5 DEF Trim
  <2>2. /\ items' = items /\ target' = target /\ lock = q /\ pc'[q] = "process"
        /\ tx'.items = (tx.items \ S) \cup K
    BY <1>5, <2>1 DEF Trim, Goto, tables, arguments, TypeOK, Ownership, LockOwner, TxSteps
  <2>3. Rows(tx'.items, target[q]) = K
    BY <2>2 DEF Rows
  <2>4. \A u \in Users \ {target[q]} : Rows(tx'.items, u) = Rows(tx.items, u)
    BY <2>2 DEF Rows
  <2>5. Cardinality(K) <= MaxItems
    BY <2>1, SettingsAssumption DEF Kept
  <2> QED BY <2>2, <2>3, <2>4, <2>5 DEF TxItems, Rows
<1>6. CASE MarkProcessed(q)
  <2>1. /\ tx'.items = tx.items /\ items' = items /\ target' = target /\ lock = q
        /\ pc[q] = "process" /\ pc'[q] = "commit"
    BY <1>6 DEF MarkProcessed, Goto, tables, arguments, TypeOK
  <2> QED BY <2>1 DEF TxItems, Rows
<1> QED BY <1>1, <1>2, <1>3, <1>4, <1>5, <1>6, LockedSteps, NullAssumption

LEMMA BoundedStep ==
  TypeOK /\ Ownership /\ TxItems /\ ItemsBounded /\ [Next]_vars => ItemsBounded'
<1> SUFFICES ASSUME TypeOK, Ownership, TxItems, ItemsBounded, [Next]_vars PROVE ItemsBounded'
  OBVIOUS
<1>1. CASE items' = items
  BY <1>1 DEF ItemsBounded, Rows
<1>2. CASE items' # items
  <2>1. PICK r \in Requests : GiveUp(r) \/ CommitRefresh(r)
    BY <1>2, CommittedSteps DEF Ingest, ResetStream
  <2>2. /\ lock = r /\ items' = tx.items /\ target[r] \in Users
        /\ pc[r] \in {"attempted", "commit"}
    BY <2>1 DEF GiveUp, CommitRefresh, Commit, TypeOK, Ownership, LockOwner, TxSteps
  <2>3. pc[r] = "commit"
    BY <1>2, <2>2 DEF TxItems
  <2>4. \A u \in Users : Cardinality(Rows(tx.items, u)) <= MaxItems
    BY <2>2, <2>3 DEF TxItems, ItemsBounded
  <2> QED BY <2>2, <2>4 DEF ItemsBounded, Rows
<1> QED BY <1>1, <1>2

\* However refreshes overlap, no user ends up with more items than the limit.
THEOREM MemoryBounded == Spec => []ItemsBounded
<1>1. Init => TxItems
  BY NullAssumption DEF Init, TxItems
<1>2. Init => ItemsBounded
  <2>1. Cardinality({}) = 0
    BY FS_EmptySet
  <2> QED BY <2>1, SettingsAssumption DEF Init, ItemsBounded, Rows
<1> QED BY <1>1, <1>2, TypeCorrect, OwnershipInvariant, TxItemsStep, BoundedStep, PTL DEF Spec
-----------------------------------------------------------------------------
(* Items and the batch they come from are committed together.              *)

LEMMA TxItemsInvariant == Spec => []TxItems
<1>1. Init => TxItems
  BY NullAssumption DEF Init, TxItems
<1> QED BY <1>1, TypeCorrect, OwnershipInvariant, TxItemsStep, PTL DEF Spec

\* Items of a user change only together with the marking of the batch they
\* were distilled from: a fault, a crash or an overlap never separates them.
THEOREM MemoryAndMarksAreAtomic == Spec => MemoryMovesWithItsBatch
<1> DEFINE Step == items' # items =>
       \E r \in Requests :
         /\ pc[r] = "commit"
         /\ \A x \in (items \ items') \cup (items' \ items) : x.user = target[r]
         /\ \A i \in selected[r] : messages'[i] # NoMessage => messages'[i].processed
<1>1. ASSUME TypeOK, TypeOK', Ownership, TxView, TxItems, [Next]_vars PROVE [Step]_vars
  <2> SUFFICES ASSUME items' # items
               PROVE  \E r \in Requests :
                 /\ pc[r] = "commit"
                 /\ \A x \in (items \ items') \cup (items' \ items) : x.user = target[r]
                 /\ \A i \in selected[r] : messages'[i] # NoMessage => messages'[i].processed
    OBVIOUS
  <2>1. PICK r \in Requests : GiveUp(r) \/ CommitRefresh(r)
    BY <1>1, CommittedSteps DEF Ingest, ResetStream
  <2>2. /\ lock = r /\ items' = tx.items /\ messages' = tx.messages
        /\ pc[r] \in {"attempted", "commit"}
    BY <1>1, <2>1 DEF GiveUp, CommitRefresh, Commit, Ownership, LockOwner, TxSteps
  <2>3. pc[r] = "commit"
    BY <1>1, <2>2 DEF TxItems
  <2>4. ASSUME NEW x \in (items \ items') \cup (items' \ items) PROVE x.user = target[r]
    <3>1. x.user \in Users
      BY <1>1, <2>4 DEF TypeOK, Item
    <3>2. x.user # target[r] => Rows(items', x.user) = Rows(items, x.user)
      BY <1>1, <2>2, <3>1 DEF TxItems
    <3> QED BY <2>4, <3>2 DEF Rows
  <2>5. \A i \in selected[r] : messages'[i] # NoMessage => messages'[i].processed
    BY <1>1, <2>2, <2>3 DEF TxView, TypeOK
  <2> QED BY <2>3, <2>4, <2>5
<1> QED BY <1>1, TypeCorrect, OwnershipInvariant, CleanInvariant, TxItemsInvariant, PTL
        DEF Spec, MemoryMovesWithItsBatch
-----------------------------------------------------------------------------
(* One key of a user comes from one reply.                                 *)

\* A row of the transaction is a committed row, or a row of this merge whose
\* key its user does not have in the committed table.
RowOrigin(x) ==
  \/ \E y \in items : y.user = x.user /\ y.key = x.key /\ y.created = x.created
  \/ x.created = clock /\ Existing(x.user, x.key) = {}

TxOrigin == \A r \in Requests : lock = r => \A x \in tx.items : RowOrigin(x)

\* Merging keeps the origin of every row.
LEMMA MergedOrigin ==
  ASSUME NEW table \in SUBSET Item, NEW u \in Users, NEW c \in Candidate, NEW n \in Nat,
         \A x \in table : RowOrigin(x)
  PROVE  \A x \in Merged(table, u, c, n) : RowOrigin(x)
<1>1. ASSUME Existing(u, c.key) = {} PROVE RowOrigin(NewItem(u, c, n))
  BY <1>1 DEF NewItem, RowOrigin
<1>2. ASSUME NEW x \in table PROVE RowOrigin(Credit(x, c))
  <2>1. Credit(x, c).user = x.user /\ Credit(x, c).key = x.key
        /\ Credit(x, c).created = x.created
    BY DEF Credit, Item
  <2> HIDE DEF Credit
  <2> QED BY <2>1 DEF RowOrigin
<1> QED BY <1>1, <1>2 DEF Merged

LEMMA TxOriginStep ==
  TypeOK /\ Ownership /\ TxItems /\ TxOrigin /\ [Next]_vars => TxOrigin'
<1> SUFFICES ASSUME TypeOK, Ownership, TxItems, TxOrigin, [Next]_vars, NEW q \in Requests, lock' = q
             PROVE  (\A x \in tx.items : RowOrigin(x))'
  BY DEF TxOrigin
<1> USE DEF RowOrigin, Existing, Rows
<1>1. CASE UNCHANGED vars
  BY <1>1 DEF vars, TxOrigin
<1>2. CASE MarkAttempted(q)
  BY <1>2 DEF MarkAttempted, tables
<1>3. CASE BeginMerge(q)
  <2>1. lock = q /\ tx' = tx /\ items' = items /\ pc[q] = "attempted"
    BY <1>3 DEF BeginMerge, tables, session
  <2> QED BY <2>1 DEF TxItems
<1>4. CASE MergeCandidate(q)
  <2> DEFINE todo == reply[q].candidates
  <2>1. /\ lock = q /\ items' = items /\ clock' = clock
        /\ tx'.items = Merged(tx.items, target[q], Head(todo), Len(todo))
    BY <1>4 DEF MergeCandidate, tables, TypeOK, Ownership, LockOwner, TxSteps
  <2>2. todo \in Seq(Candidate) /\ todo # <<>>
    BY <1>4 DEF MergeCandidate, TypeOK
  <2>3. Head(todo) \in Candidate /\ Len(todo) \in Nat
    BY <2>2
  <2>4. tx.items \in SUBSET Item /\ target[q] \in Users /\ \A x \in tx.items : RowOrigin(x)
    BY <2>1 DEF TypeOK, TxOrigin
  <2> HIDE DEF todo, RowOrigin
  <2>5. \A x \in tx'.items : RowOrigin(x)
    BY <2>1, <2>3, <2>4, MergedOrigin
  <2> QED BY <2>1, <2>5 DEF RowOrigin
<1>5. CASE Trim(q)
  <2>1. /\ lock = q /\ items' = items /\ clock' = clock
        /\ tx'.items \subseteq tx.items
    BY <1>5 DEF Trim, tables, TypeOK, Ownership, LockOwner, TxSteps
  <2> QED BY <2>1 DEF TxOrigin
<1>6. CASE EndMerge(q) \/ MarkProcessed(q)
  <2>1. lock = q /\ items' = items /\ clock' = clock /\ tx'.items = tx.items
    BY <1>6 DEF EndMerge, MarkProcessed, tables, session, TypeOK
  <2> QED BY <2>1 DEF TxOrigin
<1> QED BY <1>1, <1>2, <1>3, <1>4, <1>5, <1>6, LockedSteps, NullAssumption

LEMMA SameKeyStep ==
  TypeOK /\ Ownership /\ TxOrigin /\ SameKeySameBatch /\ [Next]_vars => SameKeySameBatch'
<1> SUFFICES ASSUME TypeOK, Ownership, TxOrigin, SameKeySameBatch, [Next]_vars
             PROVE  SameKeySameBatch'
  OBVIOUS
<1>1. CASE items' = items
  BY <1>1 DEF SameKeySameBatch
<1>2. CASE items' # items
  <2>1. PICK r \in Requests : GiveUp(r) \/ CommitRefresh(r)
    BY <1>2, CommittedSteps DEF Ingest, ResetStream
  <2>2. lock = r /\ items' = tx.items
    BY <2>1 DEF GiveUp, CommitRefresh, Commit, Ownership, LockOwner, TxSteps
  <2>3. \A x \in items' : RowOrigin(x)
    BY <2>2 DEF TxOrigin
  <2>4. ASSUME NEW x \in items', NEW y \in items', x.user = y.user, x.key = y.key
        PROVE  x.created = y.created
    BY <2>3, <2>4 DEF RowOrigin, SameKeySameBatch, Existing, Rows
  <2> QED BY <2>4 DEF SameKeySameBatch
<1> QED BY <1>1, <1>2

\* Refreshes that overlap never add one key of a user twice.
THEOREM OverlapsNeverDuplicateKeys == Spec => []SameKeySameBatch
<1>1. Init => TxOrigin /\ SameKeySameBatch
  BY NullAssumption DEF Init, TxOrigin, SameKeySameBatch
<1> QED BY <1>1, TypeCorrect, OwnershipInvariant, TxItemsInvariant, TxOriginStep, SameKeyStep,
           PTL DEF Spec
-----------------------------------------------------------------------------
(* What becomes of the rows a user already has.                            *)

\* No two rows of a table have the same identity, and none is newer than now.
Distinct(table) ==
  /\ \A x \in table : x.created <= clock /\ x.updated <= clock
  /\ \A x, y \in table : SameRow(x, y) => x = y

\* Row y is row x, credited any number of times.
Grown(x, y) ==
  /\ x.user = y.user /\ x.key = y.key /\ y.evidence >= x.evidence
  /\ y.confidence >= x.confidence /\ y.updated >= x.updated

\* The rows a table has in common with the committed items are grown ones.
Grows(table) == \A x \in items, y \in table : SameRow(x, y) => Grown(x, y)

Keeps(table) == \A x \in items : \E y \in table : SameRow(x, y)

\* A committed row the table lacks made way for a full list of better ones.
DropsTheWorst(table) ==
  \A x \in items :
    (\A y \in table : ~SameRow(x, y)) =>
      /\ Cardinality(Rows(table, x.user)) = MaxItems
      /\ \A y \in Rows(table, x.user) : ~Better(x, y)

\* Rows added by the merge that is going on have places above n.
PlacedAbove(table, n) == \A x \in table : x.created = clock => x.no > n

\* What the transaction holds at each of its steps, against what is committed.
TxRows ==
  \A r \in Requests : lock = r =>
    /\ Distinct(tx.items) /\ Grows(tx.items)
    /\ pc[r] \in {"merge", "trim", "process", "commit"} =>
         \A x \in items : x.created < clock
    /\ pc[r] = "merge" => PlacedAbove(tx.items, Len(reply[r].candidates))
    /\ pc[r] \in {"merge", "trim"} => Keeps(tx.items)
    /\ pc[r] \in {"process", "commit"} => DropsTheWorst(tx.items)

RowHistory == Distinct(items) /\ TxRows

\* Crediting a row keeps its identity and makes it no weaker.
LEMMA CreditGrows ==
  ASSUME NEW x \in Item, NEW c \in Candidate, clock \in Nat, x.updated <= clock
  PROVE  /\ Credit(x, c).created = x.created /\ Credit(x, c).no = x.no
         /\ Credit(x, c).updated = clock /\ Grown(x, Credit(x, c))
<1>1. /\ x.evidence \in Nat /\ x.confidence \in Nat
      /\ c.evidence \in Nat /\ c.confidence \in Nat
  <2>1. c.evidence \in Nat
    BY CandidateAssumption DEF Candidate
  <2>2. c.confidence \in Nat
    BY CandidateAssumption DEF Candidate
  <2> QED BY <2>1, <2>2 DEF Item
<1>2. /\ Credit(x, c).created = x.created /\ Credit(x, c).no = x.no
      /\ Credit(x, c).user = x.user /\ Credit(x, c).key = x.key
      /\ Credit(x, c).updated = clock
      /\ Credit(x, c).evidence = x.evidence + c.evidence
      /\ Credit(x, c).confidence =
           IF x.confidence >= c.confidence THEN x.confidence ELSE c.confidence
  BY DEF Credit, Item
<1> HIDE DEF Credit
<1> QED BY <1>1, <1>2 DEF Grown

LEMMA GrownIsTransitive ==
  ASSUME NEW x \in Item, NEW y \in Item, NEW z \in Item, Grown(x, y), Grown(y, z)
  PROVE  Grown(x, z)
BY DEF Grown, Item

\* Merging a candidate at place n keeps every row, grown or as it was, and
\* gives the row it adds, if any, an identity of its own.
LEMMA MergedRows ==
  ASSUME NEW table \in SUBSET Item, NEW u \in Users, NEW c \in Candidate, NEW n \in Nat,
         clock \in Nat, items \in SUBSET Item, \A x \in items : x.created < clock,
         Distinct(table), Grows(table), Keeps(table), PlacedAbove(table, n)
  PROVE  LET T == Merged(table, u, c, n)
         IN  Distinct(T) /\ Grows(T) /\ Keeps(T) /\ PlacedAbove(T, n - 1)
<1>1. CASE Merged(table, u, c, n) = table
  BY <1>1 DEF PlacedAbove, Item
<1>2. CASE Merged(table, u, c, n) = table \cup {NewItem(u, c, n)}
  <2> DEFINE new == NewItem(u, c, n)
  <2>1. new.created = clock /\ new.updated = clock /\ new.no = n
    BY DEF NewItem
  <2>2. \A x \in table : ~SameRow(x, new) /\ ~SameRow(new, x)
    BY <2>1 DEF SameRow, PlacedAbove, Item
  <2>3. \A x \in items : ~SameRow(x, new)
    BY <2>1 DEF SameRow, Item
  <2> HIDE DEF new
  <2>4. Distinct(table \cup {new})
    BY <2>1, <2>2 DEF Distinct
  <2>5. Grows(table \cup {new}) /\ Keeps(table \cup {new})
    BY <2>3 DEF Grows, Keeps
  <2>6. PlacedAbove(table \cup {new}, n - 1)
    BY <2>1 DEF PlacedAbove, Item
  <2> QED BY <1>2, <2>4, <2>5, <2>6 DEF new
<1>3. CASE Merged(table, u, c, n) # table
           /\ Merged(table, u, c, n) # table \cup {NewItem(u, c, n)}
  <2> DEFINE row == LastListed(Existing(u, c.key))
             After(x) == IF x.user = u /\ SameRow(x, row) THEN Credit(x, c) ELSE x
             T == {After(x) : x \in table}
  <2>1. Merged(table, u, c, n) = T
    BY <1>3 DEF Merged
  <2>2. \A x \in table : /\ After(x).created = x.created /\ After(x).no = x.no
                         /\ After(x).updated <= clock /\ Grown(x, After(x))
    <3> SUFFICES ASSUME NEW x \in table
                 PROVE  /\ After(x).created = x.created /\ After(x).no = x.no
                        /\ After(x).updated <= clock /\ Grown(x, After(x))
      OBVIOUS
    <3>1. x \in Item /\ x.updated <= clock
      BY DEF Distinct
    <3>2. CASE After(x) = x
      BY <3>1, <3>2 DEF Grown, Item
    <3>3. CASE After(x) = Credit(x, c)
      BY <3>1, <3>3, CreditGrows
    <3> QED BY <3>2, <3>3
  <2>3. Merged(table, u, c, n) \in SUBSET Item
    BY MergedType
  <2>4. \A x \in table : After(x) \in Item
    BY <2>1, <2>3
  <2> HIDE DEF After
  <2>5. Distinct(T)
    <3>1. ASSUME NEW x \in table PROVE After(x).created <= clock /\ After(x).updated <= clock
      BY <2>2 DEF Distinct
    <3>2. ASSUME NEW x \in table, NEW y \in table, SameRow(After(x), After(y)) PROVE x = y
      BY <2>2, <3>2 DEF Distinct, SameRow
    <3> QED BY <3>1, <3>2 DEF Distinct
  <2>6. Grows(T)
    <3> SUFFICES ASSUME NEW x \in items, NEW y \in table, SameRow(x, After(y))
                 PROVE  Grown(x, After(y))
      BY DEF Grows
    <3>1. SameRow(x, y)
      BY <2>2 DEF SameRow
    <3>2. Grown(x, y) /\ Grown(y, After(y))
      BY <2>2, <3>1 DEF Grows
    <3> QED BY <2>4, <3>2, GrownIsTransitive
  <2>7. Keeps(T)
    <3> SUFFICES ASSUME NEW x \in items PROVE \E y \in table : SameRow(x, After(y))
      BY DEF Keeps
    <3>1. PICK y \in table : SameRow(x, y)
      BY DEF Keeps
    <3> QED BY <2>2, <3>1 DEF SameRow
  <2>8. PlacedAbove(T, n - 1)
    <3>1. ASSUME NEW x \in table, After(x).created = clock PROVE After(x).no > n - 1
      <4>1. x.no > n /\ x.no \in Nat /\ After(x).no = x.no
        BY <2>2, <3>1 DEF PlacedAbove, Item
      <4> QED BY <4>1
    <3> QED BY <3>1 DEF PlacedAbove
  <2> QED BY <2>1, <2>5, <2>6, <2>7, <2>8
<1> QED BY <1>1, <1>2, <1>3

\* A row that beats another still does so after it has grown.
LEMMA BetterGrows ==
  ASSUME NEW x \in Item, NEW y \in Item, NEW z \in Item,
         SameRow(x, y), Grown(x, y), Better(x, z)
  PROVE  Better(y, z)
BY DEF SameRow, Grown, Better, Item

\* Trimming one user's rows drops only rows worse than those that stay.
LEMMA TrimmedRows ==
  ASSUME NEW table \in SUBSET Item, NEW u \in Users, items \in SUBSET Item,
         Distinct(table), Grows(table), Keeps(table),
         NEW K \in SUBSET Rows(table, u), Kept(Rows(table, u), K)
  PROVE  LET T == (table \ Rows(table, u)) \cup K
         IN  Distinct(T) /\ Grows(T) /\ DropsTheWorst(T)
<1> DEFINE S == Rows(table, u)
           T == (table \ S) \cup K
<1>1. T \subseteq table
  BY DEF Rows
<1>2. Rows(T, u) = K
  BY DEF Rows
<1>3. Distinct(T) /\ Grows(T)
  <2> HIDE DEF T
  <2> QED BY <1>1 DEF Distinct, Grows
<1>4. ASSUME NEW x \in items, \A y \in T : ~SameRow(x, y)
      PROVE  /\ Cardinality(Rows(T, x.user)) = MaxItems
             /\ \A y \in Rows(T, x.user) : ~Better(x, y)
  <2>1. PICK y \in table : SameRow(x, y)
    BY DEF Keeps
  <2>2. y \in S \ K
    BY <1>4, <2>1
  <2>3. Grown(x, y) /\ x.user = u
    BY <2>1, <2>2 DEF Grows, Grown, Rows
  <2>4. Cardinality(K) = MaxItems /\ \A z \in K : ~Better(y, z)
    BY <2>2 DEF Kept
  <2>5. \A z \in K : z \in Item
    BY DEF Rows
  <2>6. \A z \in K : ~Better(x, z)
    BY <2>1, <2>3, <2>4, <2>5, BetterGrows
  <2> HIDE DEF T
  <2> QED BY <1>2, <2>3, <2>4, <2>6
<1>5. DropsTheWorst(T)
  <2> HIDE DEF T
  <2> QED BY <1>4 DEF DropsTheWorst
<1> QED BY <1>3, <1>5

LEMMA TxRowsStep ==
  TypeOK /\ Ownership /\ TxItems /\ RowHistory /\ [Next]_vars => TxRows'
<1> SUFFICES ASSUME TypeOK, Ownership, TxItems, RowHistory, [Next]_vars,
                    NEW q \in Requests, lock' = q
             PROVE  (/\ Distinct(tx.items) /\ Grows(tx.items)
                     /\ pc[q] \in {"merge", "trim", "process", "commit"} =>
                          \A x \in items : x.created < clock
                     /\ pc[q] = "merge" => PlacedAbove(tx.items, Len(reply[q].candidates))
                     /\ pc[q] \in {"merge", "trim"} => Keeps(tx.items)
                     /\ pc[q] \in {"process", "commit"} => DropsTheWorst(tx.items))'
  BY DEF TxRows
<1> USE DEF RowHistory
<1>0. /\ items \in SUBSET Item /\ tx.items \in SUBSET Item /\ clock \in Nat
      /\ target[q] \in Users
  BY DEF TypeOK
<1>1. CASE UNCHANGED vars
  BY <1>1 DEF vars, TxRows, Distinct, Grows, PlacedAbove, Keeps, DropsTheWorst, Rows
<1>2. CASE MarkAttempted(q)
  <2>1. tx'.items = items /\ items' = items /\ clock' = clock /\ pc'[q] = "attempted"
    BY <1>2 DEF MarkAttempted, Goto, tables, TypeOK
  <2>2. \A x, y \in items : SameRow(x, y) => Grown(x, y)
    BY <1>0 DEF Distinct, Grown, Item
  <2> QED BY <2>1, <2>2 DEF Distinct, Grows
<1>3. CASE BeginMerge(q)
  <2>1. /\ lock = q /\ tx' = tx /\ items' = items /\ clock' = clock + 1
        /\ pc[q] = "attempted" /\ pc'[q] = "merge"
    BY <1>3 DEF BeginMerge, Goto, tables, session, TypeOK
  <2>2. tx.items = items
    BY <2>1 DEF TxItems
  <2>3. \A x \in items : /\ x.created <= clock /\ x.updated <= clock
                         /\ x.created \in Nat /\ x.updated \in Nat
    BY <1>0 DEF Distinct, Item
  <2>4. \A x \in items : /\ x.created < clock' /\ x.created <= clock'
                         /\ x.updated <= clock' /\ x.created # clock'
    BY <1>0, <2>1, <2>3
  <2>5. Distinct(tx.items)' /\ Grows(tx.items)'
    BY <2>1, <2>2, <2>4 DEF TxRows, Distinct, Grows
  <2>6. Keeps(tx.items)' /\ \A x \in tx'.items : x.created # clock'
    BY <2>1, <2>2, <2>4 DEF Keeps, SameRow
  <2> QED BY <2>1, <2>4, <2>5, <2>6 DEF PlacedAbove
<1>4. CASE MergeCandidate(q)
  <2> DEFINE todo == reply[q].candidates
  <2>1. /\ lock = q /\ items' = items /\ clock' = clock
        /\ pc[q] = "merge" /\ pc'[q] = "merge"
        /\ tx'.items = Merged(tx.items, target[q], Head(todo), Len(todo))
        /\ reply'[q].candidates = Tail(todo)
    BY <1>4 DEF MergeCandidate, tables, TypeOK, Ownership, LockOwner, TxSteps
  <2>2. todo \in Seq(Candidate) /\ todo # <<>>
    BY <1>4 DEF MergeCandidate, TypeOK
  <2>3. Head(todo) \in Candidate /\ Len(todo) \in Nat /\ Len(Tail(todo)) = Len(todo) - 1
    BY <2>2
  <2> HIDE DEF todo
  <2>4. /\ Distinct(tx.items) /\ Grows(tx.items) /\ Keeps(tx.items)
        /\ \A x \in items : x.created < clock
        /\ PlacedAbove(tx.items, Len(todo))
    BY <2>1 DEF TxRows, todo
  <2> DEFINE T == Merged(tx.items, target[q], Head(todo), Len(todo))
  <2>5. Distinct(T) /\ Grows(T) /\ Keeps(T) /\ PlacedAbove(T, Len(todo) - 1)
    BY <1>0, <2>3, <2>4, MergedRows
  <2> HIDE DEF T
  <2>6. tx'.items = T
    BY <2>1 DEF T
  <2> QED BY <2>1, <2>3, <2>4, <2>5, <2>6 DEF Distinct, Grows, Keeps, PlacedAbove
<1>5. CASE Trim(q)
  <2> DEFINE S == Rows(tx.items, target[q])
  <2>1. PICK K \in SUBSET S : Kept(S, K) /\ tx' = [tx EXCEPT !.items = (@ \ S) \cup K]
    BY <1>5 DEF Trim
  <2>2. /\ lock = q /\ items' = items /\ clock' = clock
        /\ pc[q] = "trim" /\ pc'[q] = "process" /\ tx'.items = (tx.items \ S) \cup K
    BY <1>5, <2>1 DEF Trim, Goto, tables, TypeOK, Ownership, LockOwner, TxSteps
  <2>3. /\ Distinct(tx.items) /\ Grows(tx.items) /\ Keeps(tx.items)
        /\ \A x \in items : x.created < clock
    BY <2>2 DEF TxRows
  <2> DEFINE T == (tx.items \ S) \cup K
  <2>4. Distinct(T) /\ Grows(T) /\ DropsTheWorst(T)
    BY <1>0, <2>1, <2>3, TrimmedRows
  <2>5. tx'.items = T
    BY <2>2
  <2> HIDE DEF T, S
  <2> QED BY <2>2, <2>3, <2>4, <2>5 DEF Distinct, Grows, DropsTheWorst, Rows
<1>6. CASE EndMerge(q)
  <2>1. /\ lock = q /\ items' = items /\ clock' = clock /\ tx' = tx
        /\ pc[q] = "merge" /\ pc'[q] = "trim"
    BY <1>6 DEF EndMerge, Goto, tables, session, TypeOK, Ownership, LockOwner, TxSteps
  <2> QED BY <2>1 DEF TxRows, Distinct, Grows, Keeps
<1>7. CASE MarkProcessed(q)
  <2>1. /\ lock = q /\ items' = items /\ clock' = clock /\ tx'.items = tx.items
        /\ pc[q] = "process" /\ pc'[q] = "commit"
    BY <1>7 DEF MarkProcessed, Goto, tables, TypeOK, Ownership, LockOwner, TxSteps
  <2> QED BY <2>1 DEF TxRows, Distinct, Grows, DropsTheWorst, Rows
<1> QED BY <1>1, <1>2, <1>3, <1>4, <1>5, <1>6, <1>7, LockedSteps, NullAssumption

\* Time does not run backwards.
LEMMA ClockStep == TypeOK /\ [Next]_vars => clock' \in Nat /\ clock' >= clock
<1> SUFFICES ASSUME TypeOK, [Next]_vars PROVE clock' \in Nat /\ clock' >= clock
  OBVIOUS
<1>1. clock \in Nat
  BY DEF TypeOK
<1>2. clock' = clock \/ clock' = clock + 1
  <2>1. ASSUME NEW r \in Requests, LoopStep(r) PROVE clock' = clock \/ clock' = clock + 1
    BY <2>1 DEF LoopStep, SelectMessages, Receive, ReceiveReply, MarkAttempted, TraceBlocked,
       GiveUp, BeginMerge, MergeCandidate, EndMerge, Trim, MarkProcessed, CommitRefresh, Report
  <2>2. ASSUME NEW r \in Requests, StartRefresh(r) \/ FailToPrepare(r) \/ Fault(r)
        PROVE  clock' = clock
    BY <2>2 DEF StartRefresh, FailToPrepare, Fault
  <2>3. ASSUME NEW s \in Streams, NEW u \in Users, NEW v \in BOOLEAN, Ingest(s, u, v)
        PROVE  clock' = clock
    BY <2>3 DEF Ingest
  <2>4. ASSUME NEW s \in Streams, ResetStream(s) PROVE clock' = clock
    BY <2>4 DEF ResetStream
  <2> QED BY <2>1, <2>2, <2>3, <2>4 DEF Next, Crash, vars
<1> QED BY <1>1, <1>2

\* The committed items change only into what a finished merge holds.
LEMMA ItemsCommitted ==
  ASSUME TypeOK, Ownership, TxItems, [Next]_vars, items' # items
  PROVE  \E r \in Requests :
           /\ lock = r /\ pc[r] = "commit" /\ items' = tx.items /\ clock' = clock
<1>1. PICK r \in Requests : GiveUp(r) \/ CommitRefresh(r)
  BY CommittedSteps DEF Ingest, ResetStream
<1>2. /\ lock = r /\ items' = tx.items /\ pc[r] \in {"attempted", "commit"}
      /\ clock' = clock
  BY <1>1 DEF GiveUp, CommitRefresh, Commit, Ownership, LockOwner, TxSteps
<1>3. pc[r] = "commit"
  BY <1>2 DEF TxItems
<1> QED BY <1>2, <1>3

LEMMA DistinctStep ==
  TypeOK /\ Ownership /\ TxItems /\ RowHistory /\ [Next]_vars => Distinct(items)'
<1> SUFFICES ASSUME TypeOK, Ownership, TxItems, RowHistory, [Next]_vars
             PROVE  Distinct(items)'
  OBVIOUS
<1>1. CASE items' = items
  <2>1. clock' \in Nat /\ clock' >= clock /\ clock \in Nat /\ items \in SUBSET Item
    BY ClockStep DEF TypeOK
  <2>2. \A x \in items : /\ x.created \in Nat /\ x.updated \in Nat
                         /\ x.created <= clock /\ x.updated <= clock
    BY <2>1 DEF Item, RowHistory, Distinct
  <2>3. \A x \in items : x.created <= clock' /\ x.updated <= clock'
    BY <2>1, <2>2
  <2> QED BY <1>1, <2>3 DEF RowHistory, Distinct
<1>2. CASE items' # items
  BY <1>2, ItemsCommitted DEF RowHistory, TxRows, Distinct
<1> QED BY <1>1, <1>2

LEMMA RowHistoryInvariant == Spec => []RowHistory
<1>1. Init => RowHistory
  BY NullAssumption DEF Init, RowHistory, TxRows, Distinct
<1>2. TypeOK /\ Ownership /\ TxItems /\ RowHistory /\ [Next]_vars => RowHistory'
  BY TxRowsStep, DistinctStep DEF RowHistory
<1> QED BY <1>1, <1>2, TypeCorrect, OwnershipInvariant, TxItemsInvariant, PTL DEF Spec

\* A row its user has is lost only to a full list of rows none of which is
\* worse, whatever merges, faults and other users' refreshes come in between.
THEOREM TrimLosesOnlyTheWorst == Spec => TrimKeepsTheBest
<1> DEFINE Step == \A x \in items :
       (\A y \in items' : ~SameRow(x, y)) =>
         /\ Cardinality(Rows(items', x.user)) = MaxItems
         /\ \A y \in Rows(items', x.user) : ~Better(x, y)
<1>1. ASSUME TypeOK, Ownership, TxItems, RowHistory, [Next]_vars PROVE [Step]_vars
  <2>1. CASE items' = items
    BY <2>1 DEF SameRow
  <2>2. CASE items' # items
    <3>1. DropsTheWorst(tx.items) /\ items' = tx.items
      BY <1>1, <2>2, ItemsCommitted DEF RowHistory, TxRows
    <3> QED BY <3>1 DEF DropsTheWorst, Rows
  <2> QED BY <2>1, <2>2
<1> QED BY <1>1, TypeCorrect, OwnershipInvariant, TxItemsInvariant, RowHistoryInvariant, PTL
        DEF Spec, TrimKeepsTheBest

\* What is known of a row only grows while the row lives: no merge, however
\* many candidates credit the row, lowers its evidence or its confidence.
THEOREM KnowledgeGrows == Spec => SurvivorsGrow
<1> DEFINE Step == \A x \in items, y \in items' : SameRow(x, y) =>
       /\ x.user = y.user /\ x.key = y.key /\ y.evidence >= x.evidence
       /\ y.confidence >= x.confidence /\ y.updated >= x.updated
<1>1. ASSUME TypeOK, Ownership, TxItems, RowHistory, [Next]_vars PROVE [Step]_vars
  <2>1. CASE items' = items
    <3>1. \A x, y \in items : SameRow(x, y) => x = y
      BY <1>1 DEF RowHistory, Distinct
    <3>2. \A x \in items : x.evidence \in Nat /\ x.confidence \in Nat /\ x.updated \in Nat
      BY <1>1 DEF TypeOK, Item
    <3> QED BY <2>1, <3>1, <3>2
  <2>2. CASE items' # items
    <3>1. Grows(tx.items) /\ items' = tx.items
      BY <1>1, <2>2, ItemsCommitted DEF RowHistory, TxRows
    <3> QED BY <3>1 DEF Grows, Grown
  <2> QED BY <2>1, <2>2
<1> QED BY <1>1, TypeCorrect, OwnershipInvariant, TxItemsInvariant, RowHistoryInvariant, PTL
        DEF Spec, SurvivorsGrow
-----------------------------------------------------------------------------
(* What the lock means for a refresh that is traced.                       *)

\* The steps and the ends behind the first trace event after the UPDATE.
Past == {"merge", "trim", "process", "commit", "report", "refreshed", "failed"}

\* A traced refresh gets no further than its first UPDATE.
TracedStopsAtTheLock == \A r \in Requests : traced[r] => pc[r] \notin Past

LEMMA TracedStep == TypeOK /\ TracedStopsAtTheLock /\ [Next]_vars => TracedStopsAtTheLock'
<1> SUFFICES ASSUME TypeOK, TracedStopsAtTheLock, [Next]_vars,
                    NEW q \in Requests, pc'[q] \in Past
             PROVE  ~traced'[q]
  BY DEF TracedStopsAtTheLock
<1> USE DEF Past
<1>1. ASSUME traced' = traced, pc'[q] = pc[q] PROVE ~traced'[q]
  BY <1>1 DEF TracedStopsAtTheLock
<1>2. ASSUME NEW r \in Requests, NEW label, Goto(r, label), traced' = traced,
             label \in Past => ~traced[r]
      PROVE  ~traced'[q]
  BY <1>1, <1>2 DEF Goto, TypeOK
<1>3. ASSUME NEW r \in Requests, NEW outcome, Finish(r, outcome), traced' = traced,
             outcome \in Past => ~traced[r]
      PROVE  ~traced'[q]
  BY <1>2, <1>3 DEF Finish
<1>4. ASSUME NEW r \in Requests, SelectMessages(r) PROVE ~traced'[q]
  BY <1>2, <1>3, <1>4 DEF SelectMessages, arguments
<1>5. ASSUME NEW r \in Requests, Receive(r) PROVE ~traced'[q]
  <2>1. PICK e, b : ReceiveReply(r, e, b)
    BY <1>5 DEF Receive
  <2> QED BY <1>2, <2>1 DEF ReceiveReply, arguments
<1>6. ASSUME NEW r \in Requests, StartRefresh(r) \/ MarkAttempted(r) PROVE ~traced'[q]
  BY <1>2, <1>6 DEF StartRefresh, MarkAttempted, arguments
<1>7. ASSUME NEW r \in Requests, TraceBlocked(r) \/ FailToPrepare(r) \/ Fault(r)
      PROVE  ~traced'[q]
  BY <1>3, <1>7 DEF TraceBlocked, FailToPrepare, Fault, arguments
<1>8. ASSUME NEW r \in Requests, GiveUp(r) PROVE ~traced'[q]
  BY <1>3, <1>8 DEF GiveUp, arguments
<1>9. ASSUME NEW r \in Requests, BeginMerge(r) PROVE ~traced'[q]
  BY <1>2, <1>9 DEF BeginMerge, arguments
<1>10. ASSUME NEW r \in Requests, MergeCandidate(r) PROVE ~traced'[q]
  BY <1>1, <1>10 DEF MergeCandidate, arguments
<1>11. ASSUME NEW r \in Requests,
              EndMerge(r) \/ Trim(r) \/ MarkProcessed(r) \/ CommitRefresh(r)
       PROVE  ~traced'[q]
  <2>1. traced' = traced /\ ~traced[r] /\ \E label : Goto(r, label)
    BY <1>11 DEF EndMerge, Trim, MarkProcessed, CommitRefresh, arguments,
       TracedStopsAtTheLock
  <2> QED BY <1>2, <2>1
<1>12. ASSUME NEW r \in Requests, Report(r) PROVE ~traced'[q]
  BY <1>3, <1>12 DEF Report, arguments, TracedStopsAtTheLock
<1>13. ASSUME NEW s \in Streams, NEW u \in Users, NEW v \in BOOLEAN, Ingest(s, u, v)
       PROVE  ~traced'[q]
  BY <1>1, <1>13 DEF Ingest, arguments
<1>14. ASSUME NEW s \in Streams, ResetStream(s) PROVE ~traced'[q]
  BY <1>1, <1>14 DEF ResetStream, arguments
<1>15. ASSUME Crash PROVE ~traced'[q]
  BY <1>1, <1>15 DEF Crash, arguments, InFlight, LoopSteps, TxSteps, TypeOK
<1> QED BY <1>1, <1>4, <1>5, <1>6, <1>7, <1>8, <1>9, <1>10, <1>11, <1>12, <1>13, <1>14, <1>15
        DEF Next, LoopStep, vars

\* While a request is traced its refresh can commit nothing: the write lock of its first
\* UPDATE stands in the way of the trace event after it, so it neither learns anything nor
\* records that the extraction failed, whatever the model answers.
THEOREM TracedRefreshesCommitNothing == Spec => []TracedStopsAtTheLock
<1>1. Init => TracedStopsAtTheLock
  BY DEF Init, TracedStopsAtTheLock, Past
<1> QED BY <1>1, TypeCorrect, TracedStep, PTL DEF Spec
=============================================================================
