--------------------------- MODULE EventSyncProofs ---------------------------
(***************************************************************************)
(* Proofs about EventSync, for every set of events and handlers and every  *)
(* bound: the type invariant, the inductive invariant IInv, the safety     *)
(* properties it implies, and that EventSync implements EventPromise.      *)
(***************************************************************************)
EXTENDS EventSync, TLAPS

-----------------------------------------------------------------------------
(* What the UPDATEs do to a row, column by column.                         *)
LEMMA ConfirmWrite ==
  ASSUME NEW r \in Row
  PROVE  /\ ConfirmedRow(r) \in Row
         /\ ConfirmedRow(r).status = "confirmed"
         /\ ConfirmedRow(r).external_id = r.external_id
BY DEF ConfirmedRow, Row, Status

(* MarkSynced: the row is typed and carries Google's id.                   *)
LEMMA SyncWrite ==
  ASSUME NEW r \in Row, NEW e \in Events
  PROVE  /\ SyncedRow(r, e) \in Row
         /\ SyncedRow(r, e).status = "synced"
         /\ SyncedRow(r, e).external_id = e
BY DEF SyncedRow, Row, Status

(* _mark_failed: typed, counted, and Google's id stays.                    *)
LEMMA FailWrite ==
  ASSUME NEW r \in Row, NEW c \in Row
  PROVE  /\ FailedRow(r, c) \in Row
         /\ FailedRow(r, c).status = "failed"
         /\ FailedRow(r, c).external_id = r.external_id
         /\ FailedRow(r, c).retry_count >= 1
<1> DEFINE n == c.retry_count + 1
           f == [r EXCEPT !.status = "failed"]
<1>1. n \in Nat /\ n >= 1
  BY DEF Row
<1>2. f \in Row /\ f.status = "failed" /\ f.external_id = r.external_id
  BY DEF Row, Status
<1>3. FailedRow(r, c) = [f EXCEPT !.retry_count = n]
  BY DEF FailedRow
<1> HIDE DEF n, f
<1> QED
  BY <1>1, <1>2, <1>3 DEF Row

(* The failure session's UPDATE of a row that is "failed" already.         *)
LEMMA CountWrite ==
  ASSUME NEW r \in Row, NEW c \in Row
  PROVE  /\ CountedRow(r, c) \in Row
         /\ CountedRow(r, c).status = r.status
         /\ CountedRow(r, c).external_id = r.external_id
         /\ CountedRow(r, c).retry_count >= 1
<1> DEFINE n == c.retry_count + 1
<1>1. n \in Nat /\ n >= 1
  BY DEF Row
<1>2. CountedRow(r, c) = [r EXCEPT !.retry_count = n]
  BY DEF CountedRow
<1> HIDE DEF n
<1> QED
  BY <1>1, <1>2 DEF Row

(* The row CommitPreview inserts is a row.                                 *)
LEMMA NewRowType ==
  ASSUME NEW s \in Status
  PROVE  /\ NewRow(s) \in Row
         /\ NewRow(s).status = s
         /\ NewRow(s).external_id = NONE
BY DEF NewRow, Row

-----------------------------------------------------------------------------
(* Type correctness *)

LEMMA TypeStep == TypeOK /\ [Next]_vars => TypeOK'
<1> SUFFICES ASSUME TypeOK, [Next]_vars PROVE TypeOK'
  OBVIOUS
<1> USE EventAssumption, ProcAssumption, UpdateAssumption, BoundAssumption, NewRowType
    DEF TypeOK, Proc, Status, Reply, Card, SyncPoints, HandlerPoints, JobPoints,
        dbVars, chatVars, procVars, googVars
<1>1. ASSUME NEW e \in Events, EventStep(e) PROVE TypeOK'
  BY <1>1 DEF EventStep, SendPreview, CommitPreview, AbortPreview, DeleteCard, Age, GoogleInsert
<1>2. ASSUME NEW u \in Update, Tap(u) \/ Dismiss(u) PROVE TypeOK'
  BY <1>2 DEF Tap, Dismiss
<1>3. ASSUME NEW h \in Handlers, NEW u \in Update, Deliver(h, u) PROVE TypeOK'
  BY <1>3 DEF Deliver, Goto, Update
<1>4. ASSUME NEW h \in Handlers, ConfirmLoad(h) PROVE TypeOK'
  BY <1>4 DEF ConfirmLoad, Load, View, Goto
<1>5. ASSUME NEW h \in Handlers, ConfirmFlush(h) PROVE TypeOK'
  <2>1. ConfirmedRow(draft[ev[h]]) \in Row
    BY ConfirmWrite
  <2> QED
    BY <1>5, <2>1 DEF ConfirmFlush, Goto, Write
<1>6. ASSUME NEW h \in Handlers, ReplyToUser(h) PROVE TypeOK'
  BY <1>6 DEF ReplyToUser, Goto
<1>7. ASSUME NEW h \in Handlers, HandlerCommit(h) PROVE TypeOK'
  BY <1>7 DEF HandlerCommit, Commit, Unlocked, EndSession, Goto
<1>8. ASSUME NEW h \in Handlers, Ack(h) PROVE TypeOK'
  BY <1>8 DEF Ack, Goto
<1>9. ASSUME NEW h \in Handlers, HandlerRaises(h) PROVE TypeOK'
  BY <1>9 DEF HandlerRaises, Rollback, Unlocked, Goto
<1>10. ASSUME NEW h \in Handlers, Timeout(h) PROVE TypeOK'
  BY <1>10 DEF Timeout
<1>11. ASSUME NEW p \in Proc, SyncLoad(p) PROVE TypeOK'
  BY <1>11 DEF SyncLoad, Load, View, Goto
<1>12. ASSUME NEW p \in Proc, GetToken(p) \/ SendInsert(p) \/ InsertReturns(p) PROVE TypeOK'
  BY <1>12 DEF GetToken, SendInsert, InsertReturns, Goto
<1>13. ASSUME NEW p \in Proc, MarkSynced(p) PROVE TypeOK'
  <2>1. SyncedRow(draft[ev[p]], ev[p]) \in Row
    BY SyncWrite
  <2> QED
    BY <1>13, <2>1 DEF MarkSynced, Write, Goto
<1>14. ASSUME NEW p \in Proc, MarkFailed(p) PROVE TypeOK'
  <2>1. FailedRow(draft[ev[p]], copy[p]) \in Row
    BY FailWrite
  <2> QED
    BY <1>14, <2>1 DEF MarkFailed, Write, Goto
<1>15. CASE JobSelect
  BY <1>15 DEF JobSelect, Goto
<1>16. CASE JobNext
  BY <1>16 DEF JobNext, Goto
<1>17. CASE JobCommit \/ JobFailCommit
  BY <1>17 DEF JobCommit, JobFailCommit, Commit, Unlocked, EndSession, Goto
<1>18. CASE JobRaises \/ JobFailRaises
  BY <1>18 DEF JobRaises, JobFailRaises, Rollback, Unlocked, EndSession, Goto
<1>19. CASE JobFailLoad
  BY <1>19 DEF JobFailLoad, Load, View, Goto
<1>20. CASE JobFailFlush
  <2>1. /\ FailedRow(draft[ev[Job]], draft[ev[Job]]) \in Row
        /\ \A c \in Row : CountedRow(draft[ev[Job]], c) \in Row
    BY FailWrite, CountWrite
  <2> QED
    BY <1>20, <2>1 DEF JobFailFlush, Write, Goto
<1>21. CASE Crash
  BY <1>21 DEF Crash
<1>22. CASE UNCHANGED vars
  BY <1>22 DEF vars
<1> QED
  BY <1>1, <1>2, <1>3, <1>4, <1>5, <1>6, <1>7, <1>8, <1>9, <1>10, <1>11, <1>12,
     <1>13, <1>14, <1>15, <1>16, <1>17, <1>18, <1>19, <1>20, <1>21, <1>22
     DEF Next, HandlerStep, SyncStep, JobStep

(* Only the transaction at work on a row holds its lock, and an unlocked    *)
(* row has no draft of its own.                                            *)
LEMMA LockStep == IInv /\ [Next]_vars => LockInv'
<1> SUFFICES ASSUME IInv, [Next]_vars PROVE LockInv'
  OBVIOUS
<1> USE EventAssumption, ProcAssumption, UpdateAssumption
    DEF IInv, TypeOK, LockInv, Proc, SyncPoints, LockPoints, dbVars, chatVars, procVars, googVars
<1>1. ASSUME NEW e \in Events, EventStep(e) PROVE LockInv'
  BY <1>1 DEF EventStep, SendPreview, CommitPreview, AbortPreview, DeleteCard, Age, GoogleInsert, RowInv
<1>2. ASSUME NEW u \in Update, Tap(u) \/ Dismiss(u) PROVE LockInv'
  BY <1>2 DEF Tap, Dismiss
<1>3. ASSUME NEW h \in Handlers, NEW u \in Update, Deliver(h, u) PROVE LockInv'
  BY <1>3 DEF Deliver, Goto
<1>4. ASSUME NEW h \in Handlers, ConfirmLoad(h) PROVE LockInv'
  BY <1>4 DEF ConfirmLoad, Load, Goto
<1>5. ASSUME NEW h \in Handlers, ConfirmFlush(h) PROVE LockInv'
  BY <1>5 DEF ConfirmFlush, Goto, Write, CanLock
<1>6. ASSUME NEW h \in Handlers, ReplyToUser(h) PROVE LockInv'
  BY <1>6 DEF ReplyToUser, Goto
<1>7. ASSUME NEW h \in Handlers, HandlerCommit(h) PROVE LockInv'
  BY <1>7 DEF HandlerCommit, Commit, Unlocked, EndSession, Goto
<1>8. ASSUME NEW h \in Handlers, Ack(h) PROVE LockInv'
  BY <1>8 DEF Ack, Goto
<1>9. ASSUME NEW h \in Handlers, HandlerRaises(h) PROVE LockInv'
  BY <1>9 DEF HandlerRaises, Rollback, Unlocked, Goto
<1>10. ASSUME NEW h \in Handlers, Timeout(h) PROVE LockInv'
  BY <1>10 DEF Timeout
<1>11. ASSUME NEW p \in Proc, SyncLoad(p) PROVE LockInv'
  BY <1>11 DEF SyncLoad, Load, Goto
<1>12. ASSUME NEW p \in Proc, GetToken(p) \/ SendInsert(p) \/ InsertReturns(p) PROVE LockInv'
  BY <1>12 DEF GetToken, SendInsert, InsertReturns, Goto
<1>13. ASSUME NEW p \in Proc, MarkSynced(p) PROVE LockInv'
  BY <1>13 DEF MarkSynced, Write, CanLock, Goto
<1>14. ASSUME NEW p \in Proc, MarkFailed(p) PROVE LockInv'
  BY <1>14 DEF MarkFailed, Write, CanLock, Goto
<1>15. CASE JobSelect
  BY <1>15 DEF JobSelect, Goto
<1>16. CASE JobNext
  BY <1>16 DEF JobNext, Goto
<1>17. CASE JobCommit \/ JobFailCommit
  BY <1>17 DEF JobCommit, JobFailCommit, Commit, Unlocked, EndSession, Goto
<1>18. CASE JobRaises \/ JobFailRaises
  BY <1>18 DEF JobRaises, JobFailRaises, Rollback, Unlocked, EndSession, Goto
<1>19. CASE JobFailLoad
  BY <1>19 DEF JobFailLoad, Load, Goto
<1>20. CASE JobFailFlush
  BY <1>20 DEF JobFailFlush, Write, CanLock, Goto
<1>21. CASE Crash
  BY <1>21 DEF Crash
<1>22. CASE UNCHANGED vars
  BY <1>22 DEF vars
<1> QED
  BY <1>1, <1>2, <1>3, <1>4, <1>5, <1>6, <1>7, <1>8, <1>9, <1>10, <1>11, <1>12,
     <1>13, <1>14, <1>15, <1>16, <1>17, <1>18, <1>19, <1>20, <1>21, <1>22
     DEF Next, HandlerStep, SyncStep, JobStep

(* Whoever runs sync_event works on a row that has been confirmed.         *)
LEMMA SyncIsConfirmed ==
  ASSUME IInv, NEW p \in Proc, pc[p] \in {"sync_load"} \cup SyncPoints
  PROVE  /\ row[ev[p]].status # "absent"
         /\ ev[p] \in Asked
         /\ View(p).status \in Settled
<1>1. ev[p] \in Events /\ (holder[ev[p]] # NONE => row[ev[p]].status # "absent")
  BY DEF IInv, TypeOK, RowInv
<1>2. CASE p = Job
  <2>1. row[ev[p]].status \in Settled
    BY <1>2 DEF IInv, JobInv, SyncPoints
  <2>2. holder[ev[p]] = p => draft[ev[p]].status \in Settled
    BY <1>1, ProcAssumption DEF IInv, RowInv
  <2> QED
    BY <1>1, <2>1, <2>2 DEF IInv, RowInv, View, Settled
<1>3. CASE p \in Handlers
  <2>1. Confirmed(p)
    BY <1>3 DEF Confirmed
  <2>2. View(p).status \in Settled /\ ev[p] \in Asked
    BY <2>1, <1>3 DEF IInv, HandlerInv, HandlerKnows
  <2> QED
    BY <1>1, <2>2, ProcAssumption DEF View, Settled
<1> QED
  BY <1>2, <1>3 DEF Proc

(* Rows come to be once and leave "pending" for good.                       *)
LEMMA RowStep == IInv /\ [Next]_vars => RowInv'
<1> SUFFICES ASSUME IInv, [Next]_vars PROVE RowInv'
  OBVIOUS
<1> USE EventAssumption, ProcAssumption, NewRowType
    DEF IInv, TypeOK, LockInv, RowInv, Proc, Status, Card, Reply, Settled, Asked, dbVars, chatVars, procVars, googVars
<1>1. ASSUME NEW e \in Events, EventStep(e) PROVE RowInv'
  BY <1>1 DEF EventStep, SendPreview, CommitPreview, AbortPreview, DeleteCard, Age, GoogleInsert
<1>2. ASSUME NEW u \in Update, Tap(u) \/ Dismiss(u) PROVE RowInv'
  BY <1>2 DEF Tap, Dismiss
<1>3. ASSUME NEW h \in Handlers, NEW u \in Update, Deliver(h, u) PROVE RowInv'
  BY <1>3 DEF Deliver, Goto
<1>4. ASSUME NEW h \in Handlers, ConfirmLoad(h) PROVE RowInv'
  BY <1>4 DEF ConfirmLoad, Load, Goto, View
<1>5. ASSUME NEW h \in Handlers, ConfirmFlush(h) PROVE RowInv'
  <2>1. ConfirmedRow(draft[ev[h]]).status \in Settled
    BY ConfirmWrite DEF Settled
  <2>2. row[ev[h]].status # "absent" /\ ev[h] \in Asked
    BY <1>5 DEF ConfirmFlush, HandlerInv, HandlerKnows
  <2> HIDE DEF Settled
  <2> QED
    BY <1>5, <2>1, <2>2 DEF ConfirmFlush, Write, Goto
<1>6. ASSUME NEW h \in Handlers, ReplyToUser(h) PROVE RowInv'
  BY <1>6 DEF ReplyToUser, Goto
<1>7. ASSUME NEW h \in Handlers, HandlerCommit(h) PROVE RowInv'
  BY <1>7 DEF HandlerCommit, Commit, Unlocked, EndSession, Goto
<1>8. ASSUME NEW h \in Handlers, Ack(h) PROVE RowInv'
  BY <1>8 DEF Ack, Goto
<1>9. ASSUME NEW h \in Handlers, HandlerRaises(h) PROVE RowInv'
  BY <1>9 DEF HandlerRaises, Rollback, Unlocked, Goto
<1>10. ASSUME NEW h \in Handlers, Timeout(h) PROVE RowInv'
  BY <1>10 DEF Timeout
<1>11. ASSUME NEW p \in Proc, SyncLoad(p) PROVE RowInv'
  BY <1>11 DEF SyncLoad, Load, Goto, View
<1>12. ASSUME NEW p \in Proc, GetToken(p) \/ SendInsert(p) \/ InsertReturns(p) PROVE RowInv'
  BY <1>12 DEF GetToken, SendInsert, InsertReturns, Goto
<1>13. ASSUME NEW p \in Proc, MarkSynced(p) PROVE RowInv'
  <2>0. draft[ev[p]] \in Row /\ copy[p] \in Row /\ ev[p] \in Events
    OBVIOUS
  <2>1. SyncedRow(draft[ev[p]], ev[p]).status \in Settled
    BY <2>0, SyncWrite DEF Settled
  <2>2. row[ev[p]].status # "absent" /\ ev[p] \in Asked
    BY <1>13, SyncIsConfirmed DEF MarkSynced, SyncPoints
  <2> HIDE DEF Settled
  <2> QED
    BY <1>13, <2>1, <2>2 DEF MarkSynced, Write, Goto
<1>14. ASSUME NEW p \in Proc, MarkFailed(p) PROVE RowInv'
  <2>0. draft[ev[p]] \in Row /\ copy[p] \in Row /\ ev[p] \in Events
    OBVIOUS
  <2>1. FailedRow(draft[ev[p]], copy[p]).status \in Settled
    BY <2>0, FailWrite DEF Settled
  <2>2. row[ev[p]].status # "absent" /\ ev[p] \in Asked
    BY <1>14, SyncIsConfirmed DEF MarkFailed, SyncPoints
  <2> HIDE DEF Settled
  <2> QED
    BY <1>14, <2>1, <2>2 DEF MarkFailed, Write, Goto
<1>15. CASE JobSelect
  BY <1>15 DEF JobSelect, Goto
<1>16. CASE JobNext
  BY <1>16 DEF JobNext, Goto
<1>17. CASE JobCommit \/ JobFailCommit
  BY <1>17 DEF JobCommit, JobFailCommit, Commit, Unlocked, EndSession, Goto
<1>18. CASE JobRaises \/ JobFailRaises
  BY <1>18 DEF JobRaises, JobFailRaises, Rollback, Unlocked, EndSession, Goto
<1>19. CASE JobFailLoad
  BY <1>19 DEF JobFailLoad, Load, Goto
<1>20. CASE JobFailFlush
  <2> DEFINE d == draft[ev[Job]]
  <2>1. row[ev[Job]].status \in Settled
    BY <1>20 DEF JobFailFlush, JobInv
  <2>2. d \in Row /\ d.status \in Settled
    BY <2>1
  <2>3. /\ FailedRow(d, d).status \in Settled
        /\ \A c \in Row : CountedRow(d, c).status \in Settled
    BY <2>2, FailWrite, CountWrite
  <2>4. row[ev[Job]].status # "absent" /\ ev[Job] \in Asked
    BY <2>1
  <2> HIDE DEF Settled
  <2> QED
    BY <1>20, <2>2, <2>3, <2>4 DEF JobFailFlush, Write, Goto
<1>21. CASE Crash
  BY <1>21 DEF Crash
<1>22. CASE UNCHANGED vars
  BY <1>22 DEF vars
<1> QED
  BY <1>1, <1>2, <1>3, <1>4, <1>5, <1>6, <1>7, <1>8, <1>9, <1>10, <1>11, <1>12,
     <1>13, <1>14, <1>15, <1>16, <1>17, <1>18, <1>19, <1>20, <1>21, <1>22
     DEF Next, HandlerStep, SyncStep, JobStep


(* Requests leave for events that were asked for; "mark_synced" is reached  *)
(* only when Google has the event.                                         *)
LEMMA GoogleStep == IInv /\ [Next]_vars => GoogleInv'
<1> SUFFICES ASSUME IInv, [Next]_vars PROVE GoogleInv'
  OBVIOUS
<1> USE EventAssumption, ProcAssumption
    DEF IInv, TypeOK, GoogleInv, Proc, Asked, dbVars, chatVars, procVars, googVars
<1>1. ASSUME NEW e \in Events, EventStep(e) PROVE GoogleInv'
  BY <1>1 DEF EventStep, SendPreview, CommitPreview, AbortPreview, DeleteCard, Age, GoogleInsert
<1>2. ASSUME NEW u \in Update, Tap(u) \/ Dismiss(u) PROVE GoogleInv'
  BY <1>2 DEF Tap, Dismiss
<1>3. ASSUME NEW h \in Handlers, NEW u \in Update, Deliver(h, u) PROVE GoogleInv'
  BY <1>3 DEF Deliver, Goto
<1>4. ASSUME NEW h \in Handlers, ConfirmLoad(h) PROVE GoogleInv'
  BY <1>4 DEF ConfirmLoad, Load, Goto
<1>5. ASSUME NEW h \in Handlers, ConfirmFlush(h) PROVE GoogleInv'
  BY <1>5 DEF ConfirmFlush, Goto, Write, CanLock
<1>6. ASSUME NEW h \in Handlers, ReplyToUser(h) PROVE GoogleInv'
  BY <1>6 DEF ReplyToUser, Goto
<1>7. ASSUME NEW h \in Handlers, HandlerCommit(h) PROVE GoogleInv'
  BY <1>7 DEF HandlerCommit, Commit, Unlocked, EndSession, Goto
<1>8. ASSUME NEW h \in Handlers, Ack(h) PROVE GoogleInv'
  BY <1>8 DEF Ack, Goto
<1>9. ASSUME NEW h \in Handlers, HandlerRaises(h) PROVE GoogleInv'
  BY <1>9 DEF HandlerRaises, Rollback, Unlocked, Goto
<1>10. ASSUME NEW h \in Handlers, Timeout(h) PROVE GoogleInv'
  BY <1>10 DEF Timeout
<1>11. ASSUME NEW p \in Proc, SyncLoad(p) PROVE GoogleInv'
  BY <1>11 DEF SyncLoad, Load, Goto
<1>12. ASSUME NEW p \in Proc, GetToken(p) \/ SendInsert(p) \/ InsertReturns(p) PROVE GoogleInv'
  <2>1. pc[p] \in {"insert", "token", "await_insert"} => ev[p] \in Asked
    BY SyncIsConfirmed DEF SyncPoints
  <2> QED
    BY <1>12, <2>1 DEF GetToken, SendInsert, InsertReturns, InsertOk, Goto
<1>13. ASSUME NEW p \in Proc, MarkSynced(p) PROVE GoogleInv'
  BY <1>13 DEF MarkSynced, Write, CanLock, Goto
<1>14. ASSUME NEW p \in Proc, MarkFailed(p) PROVE GoogleInv'
  BY <1>14 DEF MarkFailed, Write, CanLock, Goto
<1>15. CASE JobSelect
  BY <1>15 DEF JobSelect, Goto
<1>16. CASE JobNext
  BY <1>16 DEF JobNext, Goto
<1>17. CASE JobCommit \/ JobFailCommit
  BY <1>17 DEF JobCommit, JobFailCommit, Commit, Unlocked, EndSession, Goto
<1>18. CASE JobRaises \/ JobFailRaises
  BY <1>18 DEF JobRaises, JobFailRaises, Rollback, Unlocked, EndSession, Goto
<1>19. CASE JobFailLoad
  BY <1>19 DEF JobFailLoad, Load, Goto
<1>20. CASE JobFailFlush
  BY <1>20 DEF JobFailFlush, Write, CanLock, Goto
<1>21. CASE Crash
  BY <1>21 DEF Crash
<1>22. CASE UNCHANGED vars
  BY <1>22 DEF vars
<1> QED
  BY <1>1, <1>2, <1>3, <1>4, <1>5, <1>6, <1>7, <1>8, <1>9, <1>10, <1>11, <1>12,
     <1>13, <1>14, <1>15, <1>16, <1>17, <1>18, <1>19, <1>20, <1>21, <1>22
     DEF Next, HandlerStep, SyncStep, JobStep

(* The retry job only ever works on rows that were confirmed.              *)
LEMMA JobStepInv == IInv /\ [Next]_vars => JobInv'
<1> SUFFICES ASSUME IInv, [Next]_vars PROVE JobInv'
  OBVIOUS
<1> USE EventAssumption, ProcAssumption, UpdateAssumption
    DEF IInv, TypeOK, LockInv, RowInv, JobInv, Proc, Settled, dbVars, chatVars, procVars, googVars
<1>1. ASSUME NEW e \in Events, EventStep(e) PROVE JobInv'
  BY <1>1, NewRowType DEF EventStep, SendPreview, CommitPreview, AbortPreview, DeleteCard, Age, GoogleInsert
<1>2. ASSUME NEW u \in Update, Tap(u) \/ Dismiss(u) PROVE JobInv'
  BY <1>2 DEF Tap, Dismiss
<1>3. ASSUME NEW h \in Handlers, NEW u \in Update, Deliver(h, u) PROVE JobInv'
  BY <1>3 DEF Deliver, Goto
<1>4. ASSUME NEW h \in Handlers, ConfirmLoad(h) PROVE JobInv'
  BY <1>4 DEF ConfirmLoad, Load, Goto
<1>5. ASSUME NEW h \in Handlers, ConfirmFlush(h) PROVE JobInv'
  BY <1>5 DEF ConfirmFlush, Goto, Write, CanLock
<1>6. ASSUME NEW h \in Handlers, ReplyToUser(h) PROVE JobInv'
  BY <1>6 DEF ReplyToUser, Goto
<1>7. ASSUME NEW h \in Handlers, HandlerCommit(h) PROVE JobInv'
  BY <1>7 DEF HandlerCommit, Commit, Unlocked, EndSession, Goto
<1>8. ASSUME NEW h \in Handlers, Ack(h) PROVE JobInv'
  BY <1>8 DEF Ack, Goto
<1>9. ASSUME NEW h \in Handlers, HandlerRaises(h) PROVE JobInv'
  BY <1>9 DEF HandlerRaises, Rollback, Unlocked, Goto
<1>10. ASSUME NEW h \in Handlers, Timeout(h) PROVE JobInv'
  BY <1>10 DEF Timeout
<1>11. ASSUME NEW p \in Proc, SyncLoad(p) PROVE JobInv'
  BY <1>11 DEF SyncLoad, Load, Goto
<1>12. ASSUME NEW p \in Proc, GetToken(p) \/ SendInsert(p) \/ InsertReturns(p) PROVE JobInv'
  BY <1>12 DEF GetToken, SendInsert, InsertReturns, Goto
<1>13. ASSUME NEW p \in Proc, MarkSynced(p) PROVE JobInv'
  BY <1>13 DEF MarkSynced, Write, CanLock, Goto
<1>14. ASSUME NEW p \in Proc, MarkFailed(p) PROVE JobInv'
  BY <1>14 DEF MarkFailed, Write, CanLock, Goto
<1>15. CASE JobSelect
  BY <1>15 DEF JobSelect, Goto, RetryDue
<1>16. CASE JobNext
  BY <1>16 DEF JobNext, Goto
<1>17. CASE JobCommit \/ JobFailCommit
  BY <1>17 DEF JobCommit, JobFailCommit, Commit, Unlocked, EndSession, Goto
<1>18. CASE JobRaises \/ JobFailRaises
  BY <1>18 DEF JobRaises, JobFailRaises, Rollback, Unlocked, EndSession, Goto, SyncPoints
<1>19. CASE JobFailLoad
  BY <1>19 DEF JobFailLoad, Load, Goto
<1>20. CASE JobFailFlush
  BY <1>20 DEF JobFailFlush, Write, CanLock, Goto
<1>21. CASE Crash
  BY <1>21 DEF Crash
<1>22. CASE UNCHANGED vars
  BY <1>22 DEF vars
<1> QED
  BY <1>1, <1>2, <1>3, <1>4, <1>5, <1>6, <1>7, <1>8, <1>9, <1>10, <1>11, <1>12,
     <1>13, <1>14, <1>15, <1>16, <1>17, <1>18, <1>19, <1>20, <1>21, <1>22
     DEF Next, HandlerStep, SyncStep, JobStep

(* No committed row and no draft says what is not so.                      *)
LEMMA DataStep == IInv /\ [Next]_vars => DataInv'
<1> SUFFICES ASSUME IInv, [Next]_vars PROVE DataInv'
  OBVIOUS
<1> USE EventAssumption, ProcAssumption
    DEF IInv, DataInv, Proc, dbVars, chatVars, procVars, googVars
<1>1. ASSUME NEW e \in Events, EventStep(e) PROVE DataInv'
  BY <1>1, NewRowType DEF EventStep, SendPreview, CommitPreview, AbortPreview, DeleteCard, Age, GoogleInsert, HonestRow, TypeOK, RowInv, LockInv, Status
<1>2. ASSUME NEW u \in Update, Tap(u) \/ Dismiss(u) PROVE DataInv'
  BY <1>2 DEF Tap, Dismiss, HonestRow, TypeOK, LockInv
<1>3. ASSUME NEW h \in Handlers, NEW u \in Update, Deliver(h, u) PROVE DataInv'
  BY <1>3 DEF Deliver, Goto, HonestRow, TypeOK, LockInv
<1>4. ASSUME NEW h \in Handlers, ConfirmLoad(h) PROVE DataInv'
  BY <1>4 DEF ConfirmLoad, Load, Goto, HonestRow, TypeOK, LockInv
<1>5. ASSUME NEW h \in Handlers, ConfirmFlush(h) PROVE DataInv'
  <2>1. draft[ev[h]] \in Row /\ ev[h] \in Events
    BY DEF TypeOK
  <2> DEFINE w == ConfirmedRow(draft[ev[h]])
  <2>2. HonestRow(w, ev[h]) /\ (row[ev[h]].external_id # NONE => w.external_id = ev[h])
    BY <2>1, ConfirmWrite DEF HonestRow
  <2> HIDE DEF w
  <2>3. /\ draft' = [draft EXCEPT ![ev[h]] = w] \/ draft' = draft
        /\ UNCHANGED <<row, calendar>>
    BY <1>5 DEF ConfirmFlush, Write, w
  <2> QED
    BY <2>1, <2>2, <2>3 DEF TypeOK, HonestRow
<1>6. ASSUME NEW h \in Handlers, ReplyToUser(h) PROVE DataInv'
  BY <1>6 DEF ReplyToUser, Goto, HonestRow, TypeOK, LockInv
<1>7. ASSUME NEW h \in Handlers, HandlerCommit(h) PROVE DataInv'
  BY <1>7 DEF HandlerCommit, Commit, Unlocked, EndSession, Goto, HonestRow, TypeOK, LockInv
<1>8. ASSUME NEW h \in Handlers, Ack(h) PROVE DataInv'
  BY <1>8 DEF Ack, Goto, HonestRow, TypeOK, LockInv
<1>9. ASSUME NEW h \in Handlers, HandlerRaises(h) PROVE DataInv'
  BY <1>9 DEF HandlerRaises, Rollback, Unlocked, Goto, HonestRow, TypeOK, LockInv
<1>10. ASSUME NEW h \in Handlers, Timeout(h) PROVE DataInv'
  BY <1>10 DEF Timeout, HonestRow, TypeOK, LockInv
<1>11. ASSUME NEW p \in Proc, SyncLoad(p) PROVE DataInv'
  BY <1>11 DEF SyncLoad, Load, Goto, HonestRow, TypeOK, LockInv
<1>12. ASSUME NEW p \in Proc, GetToken(p) \/ SendInsert(p) \/ InsertReturns(p) PROVE DataInv'
  BY <1>12 DEF GetToken, SendInsert, InsertReturns, Goto, HonestRow, TypeOK, LockInv
<1>13. ASSUME NEW p \in Proc, MarkSynced(p) PROVE DataInv'
  <2>1. draft[ev[p]] \in Row /\ copy[p] \in Row /\ ev[p] \in Events
    BY DEF TypeOK
  <2> DEFINE w == SyncedRow(draft[ev[p]], ev[p])
  <2>2. HonestRow(w, ev[p]) /\ (row[ev[p]].external_id # NONE => w.external_id = ev[p])
    BY <1>13, <2>1, SyncWrite DEF MarkSynced, GoogleInv, HonestRow
  <2> HIDE DEF w
  <2>3. /\ draft' = [draft EXCEPT ![ev[p]] = w]
        /\ UNCHANGED <<row, calendar>>
    BY <1>13 DEF MarkSynced, Write, w
  <2> QED
    BY <2>1, <2>2, <2>3 DEF TypeOK, HonestRow
<1>14. ASSUME NEW p \in Proc, MarkFailed(p) PROVE DataInv'
  <2>1. draft[ev[p]] \in Row /\ copy[p] \in Row /\ ev[p] \in Events
    BY DEF TypeOK
  <2> DEFINE w == FailedRow(draft[ev[p]], copy[p])
  <2>2. HonestRow(w, ev[p]) /\ (row[ev[p]].external_id # NONE => w.external_id = ev[p])
    BY <1>14, <2>1, FailWrite DEF MarkFailed, GoogleInv, HonestRow
  <2> HIDE DEF w
  <2>3. /\ draft' = [draft EXCEPT ![ev[p]] = w]
        /\ UNCHANGED <<row, calendar>>
    BY <1>14 DEF MarkFailed, Write, w
  <2> QED
    BY <2>1, <2>2, <2>3 DEF TypeOK, HonestRow
<1>15. CASE JobSelect
  BY <1>15 DEF JobSelect, Goto, HonestRow, TypeOK, LockInv
<1>16. CASE JobNext
  BY <1>16 DEF JobNext, Goto, HonestRow, TypeOK, LockInv
<1>17. CASE JobCommit \/ JobFailCommit
  BY <1>17 DEF JobCommit, JobFailCommit, Commit, Unlocked, EndSession, Goto, HonestRow, TypeOK, LockInv
<1>18. CASE JobRaises \/ JobFailRaises
  BY <1>18 DEF JobRaises, JobFailRaises, Rollback, Unlocked, EndSession, Goto, HonestRow, TypeOK, LockInv
<1>19. CASE JobFailLoad
  BY <1>19 DEF JobFailLoad, Load, Goto, HonestRow, TypeOK, LockInv
<1>20. CASE JobFailFlush
  <2>1. draft[ev[Job]] \in Row /\ copy[Job] \in Row /\ ev[Job] \in Events
    BY DEF TypeOK
  <2> DEFINE Honest(w) == /\ HonestRow(w, ev[Job])
                          /\ row[ev[Job]].external_id # NONE => w.external_id = ev[Job]
  <2>2. /\ Honest(FailedRow(draft[ev[Job]], draft[ev[Job]]))
        /\ \A c \in Row : Honest(CountedRow(draft[ev[Job]], c))
    BY <2>1, FailWrite, CountWrite DEF HonestRow
  <2>3. PICK w : Honest(w) /\ draft' = [draft EXCEPT ![ev[Job]] = w]
    <3> HIDE DEF Honest
    <3> QED
      BY <1>20, <2>1, <2>2 DEF JobFailFlush, Write
  <2>4. UNCHANGED <<row, calendar>>
    BY <1>20 DEF JobFailFlush, Write
  <2> QED
    BY <2>1, <2>3, <2>4 DEF TypeOK, HonestRow
<1>21. CASE Crash
  BY <1>21 DEF Crash, HonestRow, TypeOK, LockInv
<1>22. CASE UNCHANGED vars
  BY <1>22 DEF vars, HonestRow, TypeOK, LockInv
<1> QED
  BY <1>1, <1>2, <1>3, <1>4, <1>5, <1>6, <1>7, <1>8, <1>9, <1>10, <1>11, <1>12,
     <1>13, <1>14, <1>15, <1>16, <1>17, <1>18, <1>19, <1>20, <1>21, <1>22
     DEF Next, HandlerStep, SyncStep, JobStep


(* A handler past confirm_event sees a settled row until it is done.       *)
LEMMA HandlerStepInv == IInv /\ [Next]_vars => HandlerInv'
<1> SUFFICES ASSUME IInv, [Next]_vars PROVE HandlerInv'
  OBVIOUS
<1> USE EventAssumption, ProcAssumption, UpdateAssumption
    DEF Reply, IInv, TypeOK, LockInv, RowInv, HandlerInv, HandlerKnows, Confirmed, View, Proc, Settled, Asked, LockPoints, SyncPoints, dbVars, chatVars, procVars, googVars
<1>1. ASSUME NEW e \in Events, EventStep(e) PROVE HandlerInv'
  BY <1>1 DEF EventStep, SendPreview, CommitPreview, AbortPreview, DeleteCard, Age, GoogleInsert
<1>2. ASSUME NEW u \in Update, Tap(u) \/ Dismiss(u) PROVE HandlerInv'
  BY <1>2 DEF Tap, Dismiss
<1>3. ASSUME NEW h \in Handlers, NEW u \in Update, Deliver(h, u) PROVE HandlerInv'
  <2>1. u.event \in Events /\ u \in tapped
    BY <1>3 DEF Deliver, Update
  <2>2. u.kind = "confirm" => u.event \in Asked
    BY <2>1
  <2>3. pc'[h] \in {"confirm_load", "reply"} /\ upd'[h] = u /\ ev'[h] = u.event
    BY <1>3 DEF Deliver, Goto
  <2>4. IF u.kind = "confirm" THEN pc'[h] = "confirm_load" /\ say'[h] = NONE
                              ELSE pc'[h] = "reply" /\ say'[h] = "cancelled"
    BY <1>3 DEF Deliver, Goto, IsConfirm
  <2>5. \A g \in Handlers \ {h} : /\ pc'[g] = pc[g] /\ ev'[g] = ev[g]
                                  /\ say'[g] = say[g] /\ upd'[g] = upd[g]
    BY <1>3 DEF Deliver, Goto
  <2>6. UNCHANGED <<row, draft, holder, tapped, copy>>
    BY <1>3 DEF Deliver
  <2>7. HandlerKnows(h)'
    <3>1. Asked' = Asked
      BY <2>6
    <3> HIDE DEF Asked
    <3>2. CASE u.kind = "confirm"
      BY <3>1, <3>2, <2>2, <2>3, <2>4
    <3>3. CASE u.kind # "confirm"
      BY <3>3, <2>3, <2>4
    <3> QED
      BY <3>2, <3>3
  <2>8. ASSUME NEW g \in Handlers \ {h} PROVE HandlerKnows(g)'
    BY <2>5, <2>6
  <2> QED
    BY <2>7, <2>8
<1>4. ASSUME NEW h \in Handlers, ConfirmLoad(h) PROVE HandlerInv'
  BY <1>4 DEF ConfirmLoad, Load, Goto
<1>5. ASSUME NEW h \in Handlers, ConfirmFlush(h) PROVE HandlerInv'
  <2>1. draft[ev[h]] \in Row /\ copy[h] \in Row /\ ev[h] \in Events
    OBVIOUS
  <2> DEFINE w == ConfirmedRow(draft[ev[h]])
  <2>2. w.status \in Settled
    BY <2>1, ConfirmWrite
  <2> HIDE DEF w
  <2>3. ev[h] \in Asked
    BY <1>5 DEF ConfirmFlush
  <2> QED
    BY <1>5, <2>1, <2>2, <2>3 DEF ConfirmFlush, Write, CanLock, Goto, w
<1>6. ASSUME NEW h \in Handlers, ReplyToUser(h) PROVE HandlerInv'
  BY <1>6 DEF ReplyToUser, Goto
<1>7. ASSUME NEW h \in Handlers, HandlerCommit(h) PROVE HandlerInv'
  BY <1>7 DEF HandlerCommit, Commit, Unlocked, EndSession, Goto
<1>8. ASSUME NEW h \in Handlers, Ack(h) PROVE HandlerInv'
  BY <1>8 DEF Ack, Goto
<1>9. ASSUME NEW h \in Handlers, HandlerRaises(h) PROVE HandlerInv'
  BY <1>9 DEF HandlerRaises, Rollback, Unlocked, Goto
<1>10. ASSUME NEW h \in Handlers, Timeout(h) PROVE HandlerInv'
  BY <1>10 DEF Timeout
<1>11. ASSUME NEW p \in Proc, SyncLoad(p) PROVE HandlerInv'
  BY <1>11 DEF SyncLoad, Load, Goto
<1>12. ASSUME NEW p \in Proc, GetToken(p) \/ SendInsert(p) \/ InsertReturns(p) PROVE HandlerInv'
  BY <1>12 DEF GetToken, SendInsert, InsertReturns, Goto
<1>13. ASSUME NEW p \in Proc, MarkSynced(p) PROVE HandlerInv'
  <2>1. draft[ev[p]] \in Row /\ copy[p] \in Row /\ ev[p] \in Events
    OBVIOUS
  <2> DEFINE w == SyncedRow(draft[ev[p]], ev[p])
  <2>2. w.status \in Settled
    BY <2>1, SyncWrite
  <2> HIDE DEF w
  <2>3. ev[p] \in Asked
    BY <1>13, SyncIsConfirmed DEF MarkSynced
  <2> QED
    BY <1>13, <2>1, <2>2, <2>3 DEF MarkSynced, Write, CanLock, Goto, w
<1>14. ASSUME NEW p \in Proc, MarkFailed(p) PROVE HandlerInv'
  <2>1. draft[ev[p]] \in Row /\ copy[p] \in Row /\ ev[p] \in Events
    OBVIOUS
  <2> DEFINE w == FailedRow(draft[ev[p]], copy[p])
  <2>2. w.status \in Settled
    BY <2>1, FailWrite
  <2> HIDE DEF w
  <2>3. ev[p] \in Asked
    BY <1>14, SyncIsConfirmed DEF MarkFailed
  <2> QED
    BY <1>14, <2>1, <2>2, <2>3 DEF MarkFailed, Write, CanLock, Goto, w
<1>15. CASE JobSelect
  BY <1>15 DEF JobSelect, Goto
<1>16. CASE JobNext
  BY <1>16 DEF JobNext, Goto
<1>17. CASE JobCommit \/ JobFailCommit
  BY <1>17 DEF JobCommit, JobFailCommit, Commit, Unlocked, EndSession, Goto
<1>18. CASE JobRaises \/ JobFailRaises
  BY <1>18 DEF JobRaises, JobFailRaises, Rollback, Unlocked, EndSession, Goto
<1>19. CASE JobFailLoad
  BY <1>19 DEF JobFailLoad, Load, Goto
<1>20. CASE JobFailFlush
  BY <1>20 DEF JobFailFlush, Write, CanLock, Goto
<1>21. CASE Crash
  BY <1>21 DEF Crash
<1>22. CASE UNCHANGED vars
  BY <1>22 DEF vars
<1> QED
  BY <1>1, <1>2, <1>3, <1>4, <1>5, <1>6, <1>7, <1>8, <1>9, <1>10, <1>11, <1>12,
     <1>13, <1>14, <1>15, <1>16, <1>17, <1>18, <1>19, <1>20, <1>21, <1>22
     DEF Next, HandlerStep, SyncStep, JobStep


-----------------------------------------------------------------------------
(* Theorems *)

(* A program that has just started satisfies the invariant.                *)
LEMMA InitIInv == Init => IInv
<1> SUFFICES ASSUME Init PROVE IInv
  OBVIOUS
<1> USE EventAssumption, ProcAssumption, UpdateAssumption, BoundAssumption, NewRowType
    DEF Init, TypeOK, Status, Proc, Reply, Card, SyncPoints, HandlerPoints, JobPoints
<1>1. TypeOK
  OBVIOUS
<1>2. LockInv /\ GoogleInv /\ JobInv
  BY DEF LockInv, GoogleInv, JobInv
<1>3. RowInv /\ DataInv
  BY DEF RowInv, DataInv, HonestRow, Settled
<1>4. HandlerInv
  BY DEF HandlerInv, HandlerKnows, Confirmed
<1> QED
  BY <1>1, <1>2, <1>3, <1>4 DEF IInv

(* Every variable keeps its type in every behaviour.                       *)
THEOREM TypeCorrect == Spec => []TypeOK
<1>1. Init => TypeOK
  BY InitIInv DEF IInv
<1> QED
  BY <1>1, TypeStep, PTL DEF Spec

(* The inductive invariant holds in every reachable state.                 *)
THEOREM Invariance == Spec => []IInv
<1>1. IInv /\ [Next]_vars => IInv'
  <2> SUFFICES ASSUME IInv, [Next]_vars PROVE IInv'
    OBVIOUS
  <2>1. TypeOK'
    BY TypeStep DEF IInv
  <2> QED
    BY <2>1, LockStep, RowStep, DataStep, HandlerStepInv, JobStepInv, GoogleStep DEF IInv
<1> QED
  BY <1>1, InitIInv, PTL DEF Spec

(* A committed "synced" is true: the event is in the calendar under the id *)
(* the row carries.                                                        *)
THEOREM SyncedIsTrue == Spec => []SyncedIsInCalendar
<1>1. IInv => SyncedIsInCalendar
  BY DEF IInv, DataInv, HonestRow, SyncedIsInCalendar
<1> QED
  BY <1>1, Invariance, PTL

(* Nothing gets into the calendar that the user did not ask for.           *)
THEOREM ConsentIsRespected == Spec => []NoEventWithoutConfirmation
<1>1. IInv => NoEventWithoutConfirmation
  BY DEF IInv, GoogleInv, NoEventWithoutConfirmation
<1> QED
  BY <1>1, Invariance, PTL

(* A committed failure has been counted.                                   *)
THEOREM FailuresAreCounted == Spec => []FailureIsCounted
<1>1. IInv => FailureIsCounted
  BY DEF IInv, DataInv, HonestRow, FailureIsCounted
<1> QED
  BY <1>1, Invariance, PTL

-----------------------------------------------------------------------------
(* How a step changes the committed rows: a preview's row comes to be, or  *)
(* a transaction commits its draft of the one row it has locked.           *)
Created(e) == /\ row[e].status = "absent"
              /\ row' = [row EXCEPT ![e] = NewRow("pending")]
              /\ draft' = [draft EXCEPT ![e] = NewRow("pending")]
              /\ holder' = holder
              /\ tapped' = tapped /\ calendar' = calendar

Committed(p) == /\ row' = [e \in Events |-> IF holder[e] = p THEN draft[e] ELSE row[e]]
                /\ draft' = draft /\ holder' = Unlocked(p)
                /\ tapped' = tapped /\ calendar' = calendar

(* A committed row changes only when its preview is committed or when the  *)
(* process that holds its lock commits.                                    *)
LEMMA RowChange ==
  IInv /\ [Next]_vars => \/ row' = row
                         \/ \E e \in Events : Created(e)
                         \/ \E p \in Proc : Committed(p)
<1> SUFFICES ASSUME IInv, [Next]_vars, row' # row
             PROVE  \/ \E e \in Events : Created(e)
                    \/ \E p \in Proc : Committed(p)
  OBVIOUS
<1> USE DEF Proc, dbVars, chatVars, procVars, googVars
<1>1. ASSUME NEW e \in Events, EventStep(e) PROVE Created(e)
  BY <1>1 DEF EventStep, SendPreview, CommitPreview, AbortPreview, DeleteCard, Age,
              GoogleInsert, Created, IInv, RowInv
<1>2. ASSUME NEW h \in Handlers, HandlerCommit(h) PROVE Committed(h)
  BY <1>2 DEF HandlerCommit, Commit, Committed
<1>3. CASE JobCommit \/ JobFailCommit
  <2>1. Committed(Job)
    BY <1>3 DEF JobCommit, JobFailCommit, Commit, Committed
  <2> QED
    BY <2>1
<1>4. \A u \in Update : ~Tap(u) /\ ~Dismiss(u)
  BY DEF Tap, Dismiss
<1>5. ASSUME NEW h \in Handlers
      PROVE  /\ \A u \in Update : ~Deliver(h, u)
             /\ ~ConfirmLoad(h) /\ ~ConfirmFlush(h) /\ ~ReplyToUser(h)
             /\ ~Ack(h) /\ ~HandlerRaises(h) /\ ~Timeout(h)
  BY DEF Deliver, ConfirmLoad, ConfirmFlush, ReplyToUser, Ack, HandlerRaises,
         Timeout, Rollback, Write
<1>6. ASSUME NEW p \in Proc PROVE ~SyncStep(p)
  BY DEF SyncStep, SyncLoad, GetToken, SendInsert, InsertReturns, MarkSynced,
         MarkFailed, Write
<1>7. /\ ~JobSelect /\ ~JobNext /\ ~JobRaises /\ ~JobFailLoad /\ ~JobFailFlush
      /\ ~JobFailRaises /\ ~Crash /\ ~UNCHANGED vars
  BY DEF JobSelect, JobNext, JobRaises, JobFailLoad, JobFailFlush, JobFailRaises,
         Crash, vars, Rollback, Write
<1> QED
  BY <1>1, <1>2, <1>3, <1>4, <1>5, <1>6, <1>7 DEF Next, HandlerStep, JobStep

(* No commit loses Google's id of an event.                                *)
THEOREM IdsAreKept == Spec => ExternalIdKept
<1>1. IInv /\ [Next]_vars
        => [\A e \in Events : row[e].external_id # NONE
                               => row'[e].external_id = row[e].external_id]_vars
  <2> SUFFICES ASSUME IInv, [Next]_vars, NEW e \in Events, row[e].external_id # NONE
               PROVE  row'[e].external_id = row[e].external_id
    OBVIOUS
  <2>1. row[e].external_id = e /\ draft[e].external_id = e
    BY DEF IInv, DataInv, HonestRow
  <2>2. ASSUME NEW c \in Events, Created(c) PROVE row'[e].external_id = e
    BY <2>1, <2>2, EventAssumption DEF Created, IInv, TypeOK, DataInv, HonestRow
  <2>3. ASSUME NEW p \in Proc, Committed(p) PROVE row'[e].external_id = e
    BY <2>1, <2>3 DEF Committed
  <2> QED
    BY <2>1, <2>2, <2>3, RowChange
<1> QED
  BY <1>1, Invariance, PTL DEF Spec, ExternalIdKept

(* A commit publishes one row and touches neither the rows of other events *)
(* nor the drafts and locks of other transactions.                         *)
THEOREM SessionsAreSeparate == Spec => SessionsAreIsolated
<1>1. IInv /\ [Next]_vars
        => [\A e \in Events : row'[e] # row[e] =>
              \A f \in Events \ {e} : UNCHANGED <<row[f], draft[f], holder[f]>>]_vars
  <2> SUFFICES ASSUME IInv, [Next]_vars, NEW e \in Events, row'[e] # row[e],
                      NEW f \in Events, f # e
               PROVE  row'[f] = row[f] /\ draft'[f] = draft[f] /\ holder'[f] = holder[f]
    OBVIOUS
  <2> USE DEF IInv, TypeOK
  <2>1. ASSUME NEW c \in Events, Created(c)
        PROVE  row'[f] = row[f] /\ draft'[f] = draft[f] /\ holder'[f] = holder[f]
    BY <2>1 DEF Created
  <2>2. ASSUME NEW p \in Proc, Committed(p)
        PROVE  row'[f] = row[f] /\ draft'[f] = draft[f] /\ holder'[f] = holder[f]
    <3>1. holder[e] = p
      BY <2>2 DEF Committed
    <3>2. ev[p] = e /\ holder[f] # p
      BY <3>1 DEF LockInv
    <3> QED
      BY <2>2, <3>2 DEF Committed, Unlocked
  <2> QED
    BY <2>1, <2>2, RowChange
<1> QED
  BY <1>1, Invariance, PTL DEF Spec, SessionsAreIsolated

(* A press of "Create" is acknowledged only when the database has it.      *)
THEOREM AcksAreHonest == Spec => ConfirmIsSavedBeforeAck
<1> DEFINE Saved(u) ==
      \/ card[u.event] = "gone"
      \/ \E h \in Handlers : upd[h] = u /\ say[h] = "notfound"
      \/ row[u.event].status \in {"confirmed", "synced", "failed"}
<1>1. ASSUME IInv, NEW h \in Handlers, Ack(h),
             NEW u \in inbox \ inbox', u.kind = "confirm"
      PROVE  Saved(u)
  <2>1. u = upd[h] /\ upd[h] # NONE /\ u.event = ev[h] /\ pc[h] = "ack"
    BY <1>1, UpdateAssumption DEF Ack, IInv, TypeOK, HandlerInv, HandlerKnows
  <2>2. say[h] \in {"created", "failed", "notfound"}
    BY <1>1, <2>1 DEF IInv, TypeOK, HandlerInv, HandlerKnows, Reply
  <2>3. CASE say[h] = "notfound"
    BY <2>1, <2>3
  <2>4. CASE say[h] \in {"created", "failed"}
    <3>1. View(h).status \in Settled
      BY <1>1, <2>1, <2>4 DEF IInv, HandlerInv, HandlerKnows, Confirmed
    <3>2. holder[ev[h]] # h
      BY <1>1, <2>1 DEF IInv, TypeOK, LockInv, LockPoints, SyncPoints, Proc
    <3> QED
      BY <2>1, <3>1, <3>2 DEF View, Settled
  <2> QED
    BY <2>2, <2>3, <2>4
<1>2. ASSUME NEW v \in Update, Dismiss(v), NEW u \in inbox \ inbox' PROVE Saved(u)
  BY <1>2 DEF Dismiss
<1>3. ASSUME IInv, [Next]_vars, NEW u \in inbox \ inbox', u.kind = "confirm"
      PROVE  Saved(u)
  <2> USE DEF dbVars, chatVars, procVars, googVars
  <2>1. ASSUME NEW e \in Events PROVE ~EventStep(e)
    BY <1>3 DEF EventStep, SendPreview, CommitPreview, AbortPreview, DeleteCard, Age, GoogleInsert
  <2>2. \A v \in Update : ~Tap(v)
    BY <1>3 DEF Tap
  <2>3. ASSUME NEW h \in Handlers
        PROVE  /\ \A v \in Update : ~Deliver(h, v)
               /\ ~ConfirmLoad(h) /\ ~ConfirmFlush(h) /\ ~ReplyToUser(h)
               /\ ~HandlerCommit(h) /\ ~HandlerRaises(h) /\ ~Timeout(h)
    BY <1>3 DEF Deliver, ConfirmLoad, ConfirmFlush, ReplyToUser, HandlerCommit,
                HandlerRaises, Timeout
  <2>4. ASSUME NEW p \in Proc PROVE ~SyncStep(p)
    BY <1>3 DEF SyncStep, SyncLoad, GetToken, SendInsert, InsertReturns, MarkSynced, MarkFailed
  <2>5. ~JobStep /\ ~JobFailRaises /\ ~Crash /\ ~UNCHANGED vars
    <3>1. ~SyncStep(Job)
      BY <2>4 DEF Proc
    <3> QED
      BY <1>3, <3>1 DEF JobStep, JobSelect, JobNext, JobCommit, JobRaises, JobFailLoad,
            JobFailFlush, JobFailCommit, JobFailRaises, Crash, vars
  <2>6. ASSUME NEW h \in Handlers PROVE ~HandlerStep(h) \/ Ack(h)
    BY <2>3, <2>4 DEF HandlerStep, Proc
  <2> HIDE DEF Saved
  <2>7. \/ \E v \in Update : Dismiss(v)
        \/ \E h \in Handlers : Ack(h)
    BY <1>3, <2>1, <2>2, <2>3, <2>5, <2>6 DEF Next
  <2> QED
    BY <1>1, <1>2, <1>3, <2>7
<1>4. IInv /\ [Next]_vars
        => [\A u \in inbox \ inbox' : u.kind = "confirm" => Saved(u)]_vars
  BY <1>3
<1> QED
  BY <1>4, Invariance, PTL DEF Spec, ConfirmIsSavedBeforeAck

-----------------------------------------------------------------------------
(* EventSync implements EventPromise: a press of "Create" is Ask, Google's *)
(* insertion is Add, the preview's commit is Create, and every other       *)
(* commit is a Settle of the one row its transaction holds.                *)
LEMMA WorldChange ==
  [Next]_vars => \/ \E u \in Update : Tap(u)
                 \/ \E e \in Events : GoogleInsert(e)
                 \/ tapped' = tapped /\ calendar' = calendar
<1> SUFFICES ASSUME [Next]_vars,
                    \A u \in Update : ~Tap(u),
                    \A e \in Events : ~GoogleInsert(e)
             PROVE  tapped' = tapped /\ calendar' = calendar
  OBVIOUS
<1> DEFINE Same == tapped' = tapped /\ calendar' = calendar
<1> USE DEF dbVars, chatVars, procVars, googVars
<1>1. ASSUME NEW e \in Events, EventStep(e) PROVE Same
  BY <1>1 DEF EventStep, SendPreview, CommitPreview, AbortPreview, DeleteCard, Age
<1>2. ASSUME NEW u \in Update, Dismiss(u) PROVE Same
  BY <1>2 DEF Dismiss
<1>3. ASSUME NEW p \in Proc, SyncStep(p) PROVE Same
  BY <1>3 DEF SyncStep, SyncLoad, GetToken, SendInsert, InsertReturns, MarkSynced, MarkFailed
<1>4. ASSUME NEW h \in Handlers, NEW u \in Update, Deliver(h, u) PROVE Same
  BY <1>4 DEF Deliver
<1>5. ASSUME NEW h \in Handlers, HandlerStep(h) \/ HandlerRaises(h) \/ Timeout(h) PROVE Same
  BY <1>3, <1>5 DEF HandlerStep, ConfirmLoad, ConfirmFlush, ReplyToUser, HandlerCommit,
     Ack, HandlerRaises, Timeout, Proc
<1>6. CASE JobStep \/ JobFailRaises
  BY <1>3, <1>6 DEF JobStep, JobSelect, JobNext, JobCommit, JobRaises, JobFailLoad,
     JobFailFlush, JobFailCommit, JobFailRaises, Proc
<1>7. CASE Crash \/ UNCHANGED vars
  BY <1>7 DEF Crash, vars
<1> QED
  BY <1>1, <1>2, <1>4, <1>5, <1>6, <1>7 DEF Next

(* A commit of one process is a Settle of the one row it holds, or nothing. *)
LEMMA CommittedSettles ==
  ASSUME IInv, NEW p \in Proc, Committed(p)
  PROVE  [Promise!Next]_Promise!vars
<1>1. Asked' = Asked /\ calendar' = calendar
  BY DEF Committed, Asked
<1>2. CASE \E e \in Events : holder[e] = p
  <2>1. PICK e \in Events : holder[e] = p
    BY <1>2
  <2>2. \A f \in Events \ {e} : holder[f] # p
    BY <2>1 DEF IInv, LockInv
  <2>3. row' = [row EXCEPT ![e] = draft[e]]
    <3>1. row' = [f \in Events |-> IF f = e THEN draft[e] ELSE row[f]]
      BY <2>1, <2>2 DEF Committed
    <3>2. row = [f \in Events |-> row[f]]
      BY DEF IInv, TypeOK
    <3> QED
      BY <3>1, <3>2
  <2>4. /\ row[e].status # "absent"
        /\ draft[e].status \in Settled
        /\ e \in Asked
        /\ draft[e].status = "synced" => e \in calendar
    BY <2>1, ProcAssumption DEF IInv, RowInv, DataInv, HonestRow
  <2>5. PICK s \in {"confirmed", "synced", "failed"} : s = draft[e].status
    BY <2>4 DEF Settled
  <2>6. [f \in Events |-> row[f].status]'
          = [[f \in Events |-> row[f].status] EXCEPT ![e] = s]
    BY <2>3, <2>5 DEF IInv, TypeOK
  <2>7. Promise!Settle(e, s)
    BY <1>1, <2>4, <2>5, <2>6 DEF Promise!Settle
  <2> QED
    BY <2>7 DEF Promise!Next
<1>3. CASE \A e \in Events : holder[e] # p
  <2>1. row' = row
    BY <1>3 DEF Committed, IInv, TypeOK
  <2> QED
    BY <1>1, <2>1 DEF Promise!vars
<1> QED
  BY <1>2, <1>3

(* Every behaviour of the bot is a behaviour of the promise.               *)
THEOREM PromiseIsKept == Spec => PromiseKept
<1>1. Init => Promise!Init
  <2> SUFFICES ASSUME Init PROVE Promise!Init
    OBVIOUS
  <2>1. [e \in Events |-> row[e].status] = [e \in Events |-> "absent"]
    BY DEF Init, NewRow
  <2>2. Asked = {} /\ calendar = {}
    BY DEF Init, Asked
  <2> QED
    BY <2>1, <2>2 DEF Promise!Init
<1>2. IInv /\ [Next]_vars => [Promise!Next]_Promise!vars
  <2> SUFFICES ASSUME IInv, [Next]_vars PROVE [Promise!Next]_Promise!vars
    OBVIOUS
  <2>1. ASSUME NEW u \in Update, Tap(u) PROVE [Promise!Next]_Promise!vars
    <3>1. u.event \in Events /\ row' = row /\ calendar' = calendar /\ tapped' = tapped \cup {u}
      BY <2>1 DEF Tap, Update, dbVars, googVars
    <3>2. CASE u.kind = "confirm"
      <4>1. Asked' = Asked \cup {u.event}
        BY <3>1, <3>2 DEF Asked
      <4>2. Promise!Ask(u.event)
        BY <3>1, <4>1 DEF Promise!Ask
      <4> QED
        BY <3>1, <4>2 DEF Promise!Next
    <3>3. CASE u.kind # "confirm"
      <4>1. Asked' = Asked
        BY <3>1, <3>3 DEF Asked
      <4> QED
        BY <3>1, <4>1 DEF Promise!vars
    <3> QED
      BY <3>2, <3>3
  <2>2. ASSUME NEW e \in Events, GoogleInsert(e) PROVE [Promise!Next]_Promise!vars
    <3>1. row' = row /\ Asked' = Asked /\ calendar' = calendar \cup {e}
      BY <2>2 DEF GoogleInsert, dbVars, chatVars, Asked
    <3>2. e \in Asked
      BY <2>2 DEF GoogleInsert, IInv, GoogleInv
    <3>3. Promise!Add(e)
      BY <3>1, <3>2 DEF Promise!Add
    <3> QED
      BY <3>3 DEF Promise!Next
  <2>3. ASSUME NEW e \in Events, Created(e) PROVE [Promise!Next]_Promise!vars
    <3>1. Asked' = Asked /\ calendar' = calendar
      BY <2>3 DEF Created, Asked
    <3>2. [f \in Events |-> row[f].status]'
            = [[f \in Events |-> row[f].status] EXCEPT ![e] = "pending"]
      BY <2>3 DEF Created, NewRow, IInv, TypeOK
    <3>3. Promise!Create(e)
      BY <2>3, <3>1, <3>2 DEF Promise!Create, Created
    <3> QED
      BY <3>3 DEF Promise!Next
  <2>4. CASE row' = row /\ tapped' = tapped /\ calendar' = calendar
    BY <2>4 DEF Promise!vars, Asked
  <2> QED
    BY <2>1, <2>2, <2>3, <2>4, WorldChange, RowChange, CommittedSettles
<1> QED
  BY <1>1, <1>2, Invariance, PTL DEF Spec, PromiseKept, Promise!Spec
==============================================================================
