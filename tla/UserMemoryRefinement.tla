------------------------- MODULE UserMemoryRefinement -------------------------
(* UserMemory implements MemoryStore, for every value of its constants: what  *)
(* a refresh does to the two tables is one step, whatever comes in between.   *)
EXTENDS UserMemoryProofs

-----------------------------------------------------------------------------
(* The strengthening: what is in flight, against what is committed.         *)

\* Who has read a batch and not settled it has read something.
BatchHeld == \A r \in Requests : pc[r] \in Reading => selected[r] # {}

\* What the statements up to the merge, and up to the commit, make of the messages.
Tried(r) == Attempted(messages, selected[r], reply[r].error)
Settled(r) == Processed(Tried(r), selected[r])

\* The open transaction sees the committed messages of now with its own statements on
\* top: nobody commits to that table while it holds the lock.
TxMessages ==
  \A r \in Requests : lock = r =>
    tx.messages = IF pc[r] = "commit" THEN Settled(r) ELSE Tried(r)

\* Every row of the transaction has a committed row it comes from, or is of this merge.
TxAncestors ==
  \A r \in Requests : lock = r =>
    \A x \in tx.items : x.created = clock \/ \E y \in items : SameRow(y, x)

InFlightInv == BatchHeld /\ TxMessages /\ TxAncestors

RefinementInv ==
  /\ TypeOK /\ Ownership /\ TxItems /\ TxOrigin /\ RowHistory /\ AnswerOk /\ ItemsBounded
  /\ InFlightInv
-----------------------------------------------------------------------------
(* The batch.                                                               *)

\* A call that ends has settled its batch; the others keep theirs.
LEMMA FinishBatch ==
  ASSUME TypeOK, BatchHeld, NEW r \in Requests, NEW outcome \in Ended, Finish(r, outcome)
  PROVE  /\ BatchHeld'
         /\ Held' = [Held EXCEPT ![r] = {}]
<1>1. /\ pc' = [pc EXCEPT ![r] = outcome] /\ selected' = [selected EXCEPT ![r] = {}]
      /\ outcome \notin Reading
  BY DEF Finish, Goto, Ended, Reading, TxSteps
<1>2. /\ pc'[r] \notin Reading
      /\ \A q \in Requests \ {r} : pc'[q] = pc[q] /\ selected'[q] = selected[q]
  BY <1>1 DEF TypeOK
<1>3. BatchHeld'
  BY <1>2 DEF BatchHeld
<1>4. Held' = [Held EXCEPT ![r] = {}]
  BY <1>2 DEF Held
<1> QED BY <1>3, <1>4

\* A step that takes nobody into or out of the stretch that holds a batch.
LEMMA SameBatch ==
  ASSUME TypeOK, BatchHeld, NEW r \in Requests, NEW label, Goto(r, label),
         selected' = selected, pc[r] \in Reading <=> label \in Reading
  PROVE  BatchHeld' /\ Held' = Held
<1>1. \A q \in Requests : pc'[q] \in Reading <=> pc[q] \in Reading
  BY DEF Goto, TypeOK
<1> QED BY <1>1 DEF BatchHeld, Held

LEMMA KeptBatch ==
  ASSUME BatchHeld, UNCHANGED <<pc, selected>>
  PROVE  BatchHeld' /\ Held' = Held
BY DEF BatchHeld, Held

LEMMA BatchStep == TypeOK /\ BatchHeld /\ [Next]_vars => BatchHeld'
<1> SUFFICES ASSUME TypeOK, BatchHeld, [Next]_vars PROVE BatchHeld'
  OBVIOUS
<1>1. ASSUME NEW s \in Streams, NEW u \in Users, NEW v \in BOOLEAN, Ingest(s, u, v)
      PROVE  BatchHeld'
  BY <1>1, KeptBatch DEF Ingest
<1>2. ASSUME NEW s \in Streams, ResetStream(s) PROVE BatchHeld'
  BY <1>2, KeptBatch DEF ResetStream
<1>3. ASSUME NEW r \in Requests, StartRefresh(r) PROVE BatchHeld'
  BY <1>3, SameBatch DEF StartRefresh, Reading, TxSteps
<1>4. ASSUME NEW r \in Requests, SelectMessages(r) PROVE BatchHeld'
  <2>1. CASE Selection(target[r], mode[r]) = {}
    BY <1>4, <2>1, FinishBatch DEF SelectMessages, Ended
  <2>2. CASE Selection(target[r], mode[r]) # {}
    <3>1. /\ pc' = [pc EXCEPT ![r] = "llm"]
          /\ selected' = [selected EXCEPT ![r] = Selection(target[r], mode[r])]
      BY <1>4, <2>2 DEF SelectMessages, Goto
    <3> QED BY <2>2, <3>1 DEF BatchHeld, TypeOK
  <2> QED BY <2>1, <2>2
<1>5. ASSUME NEW r \in Requests, Receive(r) PROVE BatchHeld'
  <2>1. PICK e, b : ReceiveReply(r, e, b)
    BY <1>5 DEF Receive
  <2> QED BY <2>1, SameBatch DEF ReceiveReply, Reading
<1>6. ASSUME NEW r \in Requests, MarkAttempted(r) PROVE BatchHeld'
  BY <1>6, SameBatch DEF MarkAttempted, Reading, TxSteps
<1>7. ASSUME NEW r \in Requests,
             TraceBlocked(r) \/ GiveUp(r) \/ Report(r) \/ FailToPrepare(r) \/ Fault(r)
      PROVE  BatchHeld'
  BY <1>7, FinishBatch DEF TraceBlocked, GiveUp, Report, FailToPrepare, Fault, Ended
<1>8. ASSUME NEW r \in Requests,
             BeginMerge(r) \/ EndMerge(r) \/ Trim(r) \/ MarkProcessed(r)
      PROVE  BatchHeld'
  BY <1>8, SameBatch DEF BeginMerge, EndMerge, Trim, MarkProcessed, Reading, TxSteps
<1>9. ASSUME NEW r \in Requests, MergeCandidate(r) PROVE BatchHeld'
  BY <1>9, KeptBatch DEF MergeCandidate
<1>10. ASSUME NEW r \in Requests, CommitRefresh(r) PROVE BatchHeld'
  <2>1. pc' = [pc EXCEPT ![r] = "report"] /\ selected' = selected
    BY <1>10 DEF CommitRefresh, Goto
  <2> QED BY <2>1 DEF BatchHeld, TypeOK, Reading, TxSteps
<1>11. ASSUME Crash PROVE BatchHeld'
  BY <1>11 DEF Crash, BatchHeld, Reading, InFlight, LoopSteps, TxSteps
<1>12. ASSUME UNCHANGED vars PROVE BatchHeld'
  BY <1>12, KeptBatch DEF vars
<1> QED BY <1>1, <1>2, <1>3, <1>4, <1>5, <1>6, <1>7, <1>8, <1>9, <1>10, <1>11, <1>12
        DEF Next, LoopStep
-----------------------------------------------------------------------------
(* The messages and the items of the open transaction.                      *)

LEMMA TxMessagesStep == TypeOK /\ Ownership /\ TxMessages /\ [Next]_vars => TxMessages'
<1> SUFFICES ASSUME TypeOK, Ownership, TxMessages, [Next]_vars,
                    NEW q \in Requests, lock' = q
             PROVE  (tx.messages = IF pc[q] = "commit" THEN Settled(q) ELSE Tried(q))'
  BY DEF TxMessages
<1>1. CASE UNCHANGED vars
  BY <1>1 DEF vars, TxMessages, Settled, Tried, Processed, Attempted
<1>2. CASE MarkAttempted(q)
  <2>1. /\ messages' = messages /\ selected' = selected /\ reply' = reply
        /\ tx'.messages = Tried(q) /\ pc'[q] = "attempted"
    BY <1>2 DEF MarkAttempted, Goto, tables, TypeOK, Tried
  <2> QED BY <2>1 DEF Tried, Attempted
<1>3. CASE MarkProcessed(q)
  <2>1. /\ messages' = messages /\ selected' = selected /\ reply' = reply /\ lock = q
        /\ pc[q] = "process" /\ pc'[q] = "commit"
        /\ tx'.messages = Processed(tx.messages, selected[q])
    BY <1>3 DEF MarkProcessed, Goto, tables, TypeOK
  <2>2. tx.messages = Tried(q)
    BY <2>1 DEF TxMessages
  <2>3. Settled(q)' = Settled(q)
    BY <2>1 DEF Settled, Tried, Processed, Attempted
  <2> QED BY <2>1, <2>2, <2>3 DEF Settled
<1>4. CASE BeginMerge(q) \/ MergeCandidate(q) \/ EndMerge(q) \/ Trim(q)
  <2>1. /\ messages' = messages /\ selected' = selected /\ lock = q
        /\ tx'.messages = tx.messages /\ pc[q] # "commit" /\ pc'[q] # "commit"
        /\ reply'[q].error = reply[q].error
    <3>1. CASE BeginMerge(q) \/ EndMerge(q) \/ Trim(q)
      BY <3>1 DEF BeginMerge, EndMerge, Trim, Goto, tables, session, TypeOK
    <3>2. CASE MergeCandidate(q)
      BY <3>2 DEF MergeCandidate, tables, TypeOK, Ownership, LockOwner, TxSteps
    <3> QED BY <1>4, <3>1, <3>2
  <2>2. Tried(q)' = Tried(q)
    BY <2>1 DEF Tried, Attempted
  <2> QED BY <2>1, <2>2 DEF TxMessages
<1> QED BY <1>1, <1>2, <1>3, <1>4, LockedSteps, NullAssumption

\* Merging a candidate adds a row of this merge or none.
LEMMA MergedAncestors ==
  ASSUME NEW table \in SUBSET Item, NEW u \in Users, NEW c \in Candidate, NEW n \in Nat,
         \A x \in table : x.created = clock \/ \E y \in items : SameRow(y, x)
  PROVE  \A x \in Merged(table, u, c, n) :
           x.created = clock \/ \E y \in items : SameRow(y, x)
<1>1. NewItem(u, c, n).created = clock
  BY DEF NewItem
<1>2. ASSUME NEW x \in table
      PROVE  Credit(x, c).created = x.created /\ Credit(x, c).no = x.no
  BY DEF Credit, Item
<1> HIDE DEF NewItem, Credit
<1> QED BY <1>1, <1>2 DEF Merged, SameRow

LEMMA TxAncestorsStep ==
  TypeOK /\ Ownership /\ TxItems /\ TxAncestors /\ [Next]_vars => TxAncestors'
<1> SUFFICES ASSUME TypeOK, Ownership, TxItems, TxAncestors, [Next]_vars,
                    NEW q \in Requests, lock' = q
             PROVE  (\A x \in tx.items : x.created = clock \/ \E y \in items : SameRow(y, x))'
  BY DEF TxAncestors
<1>1. CASE UNCHANGED vars
  BY <1>1 DEF vars, TxAncestors, SameRow
<1>2. CASE MarkAttempted(q)
  BY <1>2 DEF MarkAttempted, tables, SameRow
<1>3. CASE BeginMerge(q)
  <2>1. lock = q /\ tx' = tx /\ items' = items /\ pc[q] = "attempted"
    BY <1>3 DEF BeginMerge, tables, session
  <2>2. tx.items = items
    BY <2>1 DEF TxItems
  <2> QED BY <2>1, <2>2 DEF SameRow
<1>4. CASE MergeCandidate(q)
  <2> DEFINE todo == reply[q].candidates
  <2>1. /\ lock = q /\ items' = items /\ clock' = clock
        /\ tx'.items = Merged(tx.items, target[q], Head(todo), Len(todo))
    BY <1>4 DEF MergeCandidate, tables, TypeOK, Ownership, LockOwner, TxSteps
  <2>2. todo \in Seq(Candidate) /\ todo # <<>>
    BY <1>4 DEF MergeCandidate, TypeOK
  <2>3. Head(todo) \in Candidate /\ Len(todo) \in Nat
    BY <2>2
  <2>4. /\ tx.items \in SUBSET Item /\ target[q] \in Users
        /\ \A x \in tx.items : x.created = clock \/ \E y \in items : SameRow(y, x)
    BY <2>1 DEF TypeOK, TxAncestors
  <2> HIDE DEF todo
  <2>5. \A x \in tx'.items : x.created = clock \/ \E y \in items : SameRow(y, x)
    BY <2>1, <2>3, <2>4, MergedAncestors
  <2> QED BY <2>1, <2>5 DEF SameRow
<1>5. CASE Trim(q)
  <2>1. lock = q /\ items' = items /\ clock' = clock /\ tx'.items \subseteq tx.items
    BY <1>5 DEF Trim, Rows, tables, TypeOK, Ownership, LockOwner, TxSteps
  <2>2. \A x \in tx'.items : x.created = clock \/ \E y \in items : SameRow(y, x)
    BY <2>1 DEF TxAncestors
  <2> QED BY <2>1, <2>2 DEF SameRow
<1>6. CASE EndMerge(q) \/ MarkProcessed(q)
  <2>1. lock = q /\ items' = items /\ clock' = clock /\ tx'.items = tx.items
    BY <1>6 DEF EndMerge, MarkProcessed, tables, session, TypeOK
  <2> QED BY <2>1 DEF TxAncestors, SameRow
<1> QED BY <1>1, <1>2, <1>3, <1>4, <1>5, <1>6, LockedSteps, NullAssumption
-----------------------------------------------------------------------------
(* The strengthening holds.                                                 *)

LEMMA RefinementInvariant == Spec => []RefinementInv
<1>1. Init => TxItems /\ TxOrigin /\ RowHistory /\ AnswerOk
  BY NullAssumption
     DEF Init, TxItems, TxOrigin, RowHistory, TxRows, Distinct, AnswerOk, NoReply
<1>2. Init => InFlightInv
  BY NullAssumption
     DEF Init, InFlightInv, BatchHeld, Reading, TxSteps, TxMessages, TxAncestors
<1>3. /\ TypeOK /\ Ownership /\ TxItems /\ TxView /\ InFlightInv /\ [Next]_vars
         => InFlightInv'
  BY BatchStep, TxMessagesStep, TxAncestorsStep DEF InFlightInv
<1>4. Spec => [](TypeOK /\ Ownership /\ TxItems /\ TxView /\ RowHistory /\ ItemsBounded)
  BY TypeCorrect, OwnershipInvariant, TxItemsInvariant, CleanInvariant, RowHistoryInvariant,
     MemoryBounded, PTL
<1>5. Spec => [](TxOrigin /\ AnswerOk /\ InFlightInv)
  BY <1>1, <1>2, <1>3, <1>4, TxOriginStep, AnswerStep, PTL DEF Spec
<1> QED BY <1>4, <1>5, PTL DEF RefinementInv
-----------------------------------------------------------------------------
(* Every step is a step of MemoryStore, or none.                            *)

\* A refresh that ends with its batch unsettled drops it; one that had none changes nothing.
LEMMA FinishRefines ==
  ASSUME RefinementInv, NEW r \in Requests, NEW outcome \in Ended, Finish(r, outcome),
         UNCHANGED <<messages, items, target>>
  PROVE  Promise!Next \/ UNCHANGED Promise!vars
<1>1. Held' = [Held EXCEPT ![r] = {}]
  BY FinishBatch DEF RefinementInv, InFlightInv
<1>2. CASE Held[r] = {}
  <2>1. Held' = Held
    BY <1>1, <1>2 DEF Held
  <2> QED BY <2>1 DEF Promise!vars
<1>3. CASE Held[r] # {}
  BY <1>1, <1>3 DEF Promise!Next, Promise!Drop, Promise!Settle
<1> QED BY <1>2, <1>3

\* What failed is marked with the error, if it is still there.
LEMMA GiveUpRefines ==
  ASSUME RefinementInv, NEW r \in Requests, GiveUp(r)
  PROVE  Promise!Fail(r, reply[r].error) /\ reply[r].error \in ErrorCodes
<1>1. /\ lock = r /\ pc[r] = "attempted" /\ Finish(r, "failed") /\ reply[r].error # NoError
      /\ messages' = tx.messages /\ items' = tx.items /\ target' = target
  BY DEF GiveUp, Commit, RefinementInv, Ownership, LockOwner, TxSteps, arguments
<1>2. Held' = [Held EXCEPT ![r] = {}]
  BY <1>1, FinishBatch DEF RefinementInv, InFlightInv, Ended
<1>3. Held[r] = selected[r] /\ selected[r] # {}
  BY <1>1 DEF Held, Reading, TxSteps, RefinementInv, InFlightInv, BatchHeld
<1>4. messages' = Tried(r) /\ items' = items
  BY <1>1 DEF RefinementInv, InFlightInv, TxMessages, TxItems
<1>5. messages' = [i \in MsgIds |->
                     IF i \in Promise!Present(Held[r])
                     THEN Promise!Attempted(messages[i], reply[r].error) ELSE messages[i]]
  BY <1>3, <1>4 DEF Tried, Attempted, Promise!Present, Promise!Attempted
<1>6. reply[r].error \in ErrorCodes
  BY <1>1 DEF RefinementInv, TypeOK
<1> QED BY <1>1, <1>2, <1>3, <1>4, <1>5, <1>6 DEF Promise!Fail, Promise!Settle

\* Marking attempted and then processed leaves on a message what the promise says.
LEMMA SettledRow ==
  ASSUME TypeOK, NEW r \in Requests, NEW i \in MsgIds, reply[r].error = NoError
  PROVE  Settled(r)[i] = IF i \in selected[r] /\ messages[i] # NoMessage
                         THEN Promise!Done(messages[i]) ELSE messages[i]
<1>1. messages \in MessageTable /\ reply[r].error \in ErrorCodes \cup {NoError}
  BY DEF TypeOK
<1>2. Tried(r)[i] = NoMessage <=> messages[i] = NoMessage
  BY <1>1, AttemptedRows DEF Tried
<1>3. CASE i \in selected[r] /\ messages[i] # NoMessage
  <2>1. Settled(r)[i] = [Tried(r)[i] EXCEPT !.processed = TRUE, !.error = NoError]
    BY <1>2, <1>3 DEF Settled, Processed
  <2>2. Tried(r)[i] = Promise!Attempted(messages[i], NoError)
    BY <1>3 DEF Tried, Attempted, Promise!Attempted
  <2> QED BY <1>3, <2>1, <2>2 DEF Promise!Done
<1>4. CASE ~(i \in selected[r] /\ messages[i] # NoMessage)
  <2>1. Tried(r)[i] = messages[i]
    BY <1>4 DEF Tried, Attempted
  <2>2. Settled(r)[i] = Tried(r)[i]
    BY <1>2, <1>4 DEF Settled, Processed
  <2> QED BY <1>4, <2>1, <2>2
<1> QED BY <1>3, <1>4

\* What the transaction holds at its commit is what the promise allows to be learned.
LEMMA LearnedAtCommit ==
  ASSUME RefinementInv, NEW r \in Requests, lock = r, pc[r] = "commit", items' = tx.items
  PROVE  Promise!Learned(target[r])
<1> DEFINE u == target[r]
<1>1. /\ items \in SUBSET Item /\ tx.items \in SUBSET Item /\ u \in Users
      /\ clock \in Nat
  BY DEF RefinementInv, TypeOK
<1>2. /\ \A w \in Users \ {u} : Rows(tx.items, w) = Rows(items, w)
      /\ Cardinality(Rows(tx.items, u)) <= MaxItems
  BY DEF RefinementInv, TxItems
<1>3. /\ Distinct(tx.items) /\ Grows(tx.items) /\ DropsTheWorst(tx.items)
      /\ \A x \in items : x.created < clock
  BY DEF RefinementInv, RowHistory, TxRows
<1>4. /\ \A y \in tx.items : RowOrigin(y)
      /\ \A y \in tx.items : y.created = clock \/ \E x \in items : SameRow(x, y)
  BY DEF RefinementInv, TxOrigin, InFlightInv, TxAncestors
<1> HIDE DEF u
<1>5. ASSUME NEW x \in items \cup tx.items, x.user # u PROVE x \in items /\ x \in tx.items
  <2>1. x.user \in Users \ {u}
    BY <1>1, <1>5 DEF Item
  <2> QED BY <1>2, <2>1 DEF Rows
<1>6. ASSUME NEW y \in tx.items
      PROVE  \/ \E x \in items : SameRow(x, y) /\ Grown(x, y)
             \/ \A x \in items : x.created < y.created /\ ~(x.user = y.user /\ x.key = y.key)
  <2>1. CASE \E x \in items : SameRow(x, y)
    BY <1>3, <2>1 DEF Grows
  <2>2. CASE y.created = clock
    <3>1. ~\E x \in items : x.created = y.created
      BY <1>1, <1>3, <2>2 DEF Item
    <3>2. Existing(y.user, y.key) = {}
      BY <1>4, <3>1 DEF RowOrigin
    <3> QED BY <1>3, <2>2, <3>2 DEF Existing, Rows
  <2> QED BY <1>4, <2>1, <2>2
<1>7. \A x, y \in tx.items : SameRow(x, y) => x = y
  BY <1>3 DEF Distinct
<1>8. ASSUME NEW x \in items, x.user = u, \A y \in tx.items : ~SameRow(x, y)
      PROVE  /\ Cardinality(Rows(tx.items, u)) = MaxItems
             /\ \A y \in Rows(tx.items, u) : ~Better(x, y)
  BY <1>3, <1>8 DEF DropsTheWorst
<1>9. ASSUME NEW x \in Item, NEW y \in Item
      PROVE  /\ Promise!SameRow(x, y) <=> SameRow(x, y)
             /\ Promise!Grown(x, y) <=> Grown(x, y)
             /\ Promise!Better(x, y) <=> Better(x, y)
  BY DEF Promise!SameRow, SameRow, Promise!Grown, Grown, Promise!Better, Better
<1>10. \A T : Promise!Rows(T, u) = Rows(T, u)
  BY DEF Promise!Rows, Rows
<1>11. /\ \A x, y \in items' : Promise!SameRow(x, y) => x = y
       /\ \A y \in Rows(items', u) :
            \/ \E x \in items : Promise!SameRow(x, y) /\ Promise!Grown(x, y)
            \/ \A x \in items : x.created < y.created /\ ~(x.user = u /\ x.key = y.key)
       /\ \A x \in Rows(items, u) :
            (\A y \in items' : ~Promise!SameRow(x, y)) =>
              /\ Cardinality(Rows(items', u)) = MaxItems
              /\ \A y \in Rows(items', u) : ~Promise!Better(x, y)
  <2>1. \A x, y \in items' : Promise!SameRow(x, y) => x = y
    BY <1>1, <1>7, <1>9
  <2>2. ASSUME NEW y \in Rows(items', u)
        PROVE  \/ \E x \in items : Promise!SameRow(x, y) /\ Promise!Grown(x, y)
               \/ \A x \in items : x.created < y.created /\ ~(x.user = u /\ x.key = y.key)
    <3>1. y \in tx.items /\ y.user = u
      BY DEF Rows
    <3> QED BY <1>1, <1>6, <1>9, <3>1
  <2>3. ASSUME NEW x \in Rows(items, u), \A y \in items' : ~Promise!SameRow(x, y)
        PROVE  /\ Cardinality(Rows(items', u)) = MaxItems
               /\ \A y \in Rows(items', u) : ~Promise!Better(x, y)
    <3>1. x \in items /\ x.user = u /\ \A y \in tx.items : ~SameRow(x, y)
      BY <1>1, <1>9, <2>3 DEF Rows
    <3>2. \A y \in Rows(tx.items, u) : y \in Item
      BY <1>1 DEF Rows
    <3> QED BY <1>1, <1>8, <1>9, <3>1, <3>2
  <2> QED BY <2>1, <2>2, <2>3
<1>12. \A S : Promise!Cardinality(S) = Cardinality(S)
  BY DEF Promise!Cardinality, Cardinality
<1>13. Promise!Learned(u)
  BY <1>2, <1>5, <1>10, <1>11, <1>12 DEF Promise!Learned
<1> QED BY <1>13 DEF u

LEMMA CommitRefines ==
  ASSUME RefinementInv, NEW r \in Requests, CommitRefresh(r) PROVE Promise!Distil(r)
<1>1. /\ lock = r /\ pc[r] = "commit" /\ pc' = [pc EXCEPT ![r] = "report"]
      /\ selected' = selected /\ target' = target
      /\ messages' = tx.messages /\ items' = tx.items
  BY DEF CommitRefresh, Goto, Commit, RefinementInv, Ownership, LockOwner, TxSteps, arguments
<1>2. Held[r] = selected[r] /\ selected[r] # {}
  BY <1>1 DEF Held, Reading, TxSteps, RefinementInv, InFlightInv, BatchHeld
<1>3. Held' = [Held EXCEPT ![r] = {}]
  BY <1>1 DEF Held, Reading, TxSteps, RefinementInv, TypeOK
<1>4. messages' = Settled(r) /\ reply[r].error = NoError /\ TypeOK
  BY <1>1 DEF RefinementInv, InFlightInv, TxMessages, AnswerOk
<1>5. messages' = [i \in MsgIds |-> Settled(r)[i]]
  BY <1>4 DEF Settled, Processed
<1>6. messages' = [i \in MsgIds |-> IF i \in Promise!Present(Held[r])
                                    THEN Promise!Done(messages[i]) ELSE messages[i]]
  BY <1>2, <1>4, <1>5, SettledRow DEF Promise!Present
<1>7. Promise!Learned(target[r])
  BY <1>1, LearnedAtCommit
<1> QED BY <1>1, <1>2, <1>3, <1>6, <1>7 DEF Promise!Distil, Promise!Settle

\* A refresh reads only what its user has said, and what is there.
LEMMA SelectionReads ==
  ASSUME NEW u, NEW m, NEW i \in Selection(u, m)
  PROVE  i \in MsgIds /\ messages[i] # NoMessage /\ messages[i].user = u /\ messages[i].viewer
BY DEF Selection, Recent, Oldest, Unprocessed, Viewer

LEMMA SelectRefines ==
  ASSUME RefinementInv, NEW r \in Requests, SelectMessages(r)
  PROVE  Promise!Next \/ UNCHANGED Promise!vars
<1> DEFINE ids == Selection(target[r], mode[r])
<1>1. UNCHANGED <<messages, items, target>> /\ pc[r] = "select" /\ TypeOK
  BY DEF SelectMessages, tables, arguments, RefinementInv
<1>2. CASE ids = {}
  BY <1>1, <1>2, FinishRefines DEF SelectMessages, Ended
<1>3. CASE ids # {}
  <2>1. pc' = [pc EXCEPT ![r] = "llm"] /\ selected' = [selected EXCEPT ![r] = ids]
    BY <1>3 DEF SelectMessages, Goto
  <2>2. Held[r] = {} /\ Held' = [Held EXCEPT ![r] = ids]
    BY <1>1, <2>1 DEF Held, Reading, TxSteps, TypeOK
  <2>3. ids \in SUBSET MsgIds
        /\ \A i \in ids : /\ messages[i] # NoMessage
                          /\ messages[i].user = target[r] /\ messages[i].viewer
    BY SelectionReads
  <2> HIDE DEF ids
  <2>4. Promise!Read(r, ids)
    BY <1>1, <2>2, <2>3 DEF Promise!Read
  <2> QED BY <2>3, <2>4 DEF Promise!Next
<1> QED BY <1>2, <1>3

LEMMA StepRefines == RefinementInv /\ [Next]_vars => [Promise!Next]_(Promise!vars)
<1> SUFFICES ASSUME RefinementInv, [Next]_vars PROVE Promise!Next \/ UNCHANGED Promise!vars
  OBVIOUS
<1>0. TypeOK /\ BatchHeld
  BY DEF RefinementInv, InFlightInv
<1>1. ASSUME NEW s \in Streams, NEW u \in Users, NEW v \in BOOLEAN, Ingest(s, u, v)
      PROVE  Promise!Next
  <2>1. NextId \in MsgIds /\ messages[NextId] = NoMessage
    BY <1>1, NextIdIsFree DEF Ingest, RefinementInv
  <2>2. Held' = Held
    BY <1>1 DEF Ingest, Held
  <2>3. Promise!Save(NextId, s, u, v)
    BY <1>1, <2>1, <2>2 DEF Ingest, arguments, Promise!Save
  <2> QED BY <2>1, <2>3 DEF Promise!Next
<1>2. ASSUME NEW s \in Streams, ResetStream(s) PROVE Promise!Next
  <2>1. Held' = Held
    BY <1>2 DEF ResetStream, Held
  <2>2. Promise!Reset(s)
    BY <1>2, <2>1 DEF ResetStream, arguments, Promise!Reset
  <2> QED BY <2>2 DEF Promise!Next
<1>3. ASSUME NEW r \in Requests, StartRefresh(r) PROVE UNCHANGED Promise!vars
  BY <1>0, <1>3, SameBatch
     DEF StartRefresh, Reading, TxSteps, tables, arguments, Promise!vars
<1>4. ASSUME NEW r \in Requests, Receive(r) PROVE UNCHANGED Promise!vars
  <2>1. PICK e, b : ReceiveReply(r, e, b)
    BY <1>4 DEF Receive
  <2> QED BY <1>0, <2>1, SameBatch DEF ReceiveReply, Reading, tables, arguments, Promise!vars
<1>5. ASSUME NEW r \in Requests,
             \/ MarkAttempted(r) \/ BeginMerge(r) \/ EndMerge(r) \/ Trim(r)
             \/ MarkProcessed(r)
      PROVE  UNCHANGED Promise!vars
  <2>1. /\ UNCHANGED <<messages, items, target, selected>> /\ pc[r] \in Reading
        /\ \E label \in Reading : Goto(r, label)
    BY <1>5 DEF MarkAttempted, BeginMerge, EndMerge, Trim, MarkProcessed, Reading, TxSteps,
       tables, arguments
  <2> QED BY <1>0, <2>1, SameBatch DEF Promise!vars
<1>6. ASSUME NEW r \in Requests, MergeCandidate(r) PROVE UNCHANGED Promise!vars
  BY <1>0, <1>6, KeptBatch DEF MergeCandidate, tables, arguments, Promise!vars
<1>7. ASSUME NEW r \in Requests,
             TraceBlocked(r) \/ Report(r) \/ FailToPrepare(r) \/ Fault(r)
      PROVE  Promise!Next \/ UNCHANGED Promise!vars
  <2>1. UNCHANGED <<messages, items, target>>
    BY <1>7 DEF TraceBlocked, Report, FailToPrepare, Fault, Rollback, tables, arguments
  <2>2. \E outcome \in Ended : Finish(r, outcome)
    BY <1>7 DEF TraceBlocked, Report, FailToPrepare, Fault, Ended
  <2> QED BY <2>1, <2>2, FinishRefines
<1>8. ASSUME NEW r \in Requests, GiveUp(r) PROVE Promise!Next
  BY <1>8, GiveUpRefines DEF Promise!Next
<1>9. ASSUME NEW r \in Requests, CommitRefresh(r) PROVE Promise!Next
  BY <1>9, CommitRefines DEF Promise!Next
<1>10. ASSUME Crash PROVE Promise!Next
  <2>1. Held' = [r \in Requests |-> {}]
    BY <1>10 DEF Crash, Held
  <2>2. Promise!Stop
    BY <1>10, <2>1 DEF Crash, Rollback, tables, arguments, Promise!Stop
  <2> QED BY <2>2 DEF Promise!Next
<1>11. ASSUME UNCHANGED vars PROVE UNCHANGED Promise!vars
  BY <1>0, <1>11, KeptBatch DEF vars, Promise!vars
<1> QED BY <1>1, <1>2, <1>3, <1>4, <1>5, <1>6, <1>7, <1>8, <1>9, <1>10, <1>11, SelectRefines
        DEF Next, LoopStep

\* A refresh is atomic for whoever reads the tables: however refreshes, chat messages and
\* resets interleave, fail or are cut off, the batch that was read becomes memory within the
\* limits of the promise, or an error, or nothing, in one step and at most once.
THEOREM RefreshesAreAtomic == Spec => ImplementsMemoryStore
<1>1. Init => Promise!Init
  BY DEF Init, Promise!Init, Held, Reading, TxSteps
<1> QED BY <1>1, StepRefines, RefinementInvariant, PTL
        DEF Spec, ImplementsMemoryStore, Promise!Spec
=============================================================================
