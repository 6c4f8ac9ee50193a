-------------------------- MODULE CredentialsProofs --------------------------
(***************************************************************************)
(* Proofs about Credentials, for every set of users and requests and every *)
(* bound on the faults: types, the inductive invariant IInv, and the two   *)
(* action properties on how a credential row goes and stays gone.          *)
(***************************************************************************)
EXTENDS Credentials, TLAPS

-----------------------------------------------------------------------------
(* Type correctness *)

LEMMA TypeStep == TypeOK /\ [Next]_vars => TypeOK'
<1> SUFFICES ASSUME TypeOK, [Next]_vars PROVE TypeOK'
  OBVIOUS
<1> USE TroubledAssumption, ProcAssumption, FaultAssumption
    DEF TypeOK, Proc, Cred, Points, Outcome, dbVars, procVars, Goto, View, Fault
<1>1. ASSUME NEW u \in Users, Age(u) \/ Revoke(u) PROVE TypeOK'
  BY <1>1 DEF Age, Revoke
<1>2. ASSUME NEW p \in Proc, NEW u \in Users, StartSync(p, u) PROVE TypeOK'
  BY <1>2 DEF StartSync
<1>3. ASSUME NEW h \in Requests, NEW u \in Users, Disconnect(h, u) \/ StartCallback(h, u)
      PROVE TypeOK'
  BY <1>3 DEF Disconnect, StartCallback
<1>4. ASSUME NEW p \in Proc, LoadRow(p) \/ StoreLoad(p) \/ DeleteLoad(p) PROVE TypeOK'
  BY <1>4 DEF LoadRow, StoreLoad, DeleteLoad
<1>5. ASSUME NEW p \in Proc, AskGoogle(p) PROVE TypeOK'
  BY <1>5 DEF AskGoogle, Answered, AfterAnswer, Deletes, Due
<1>6. ASSUME NEW p \in Proc, StoreFlush(p) \/ DeleteFlush(p) PROVE TypeOK'
  BY <1>6 DEF StoreFlush, DeleteFlush, Write
<1>7. ASSUME NEW p \in Proc, Commit(p) PROVE row' \in [Users -> Cred]
  BY <1>7 DEF Commit
<1>8. ASSUME NEW h \in Requests, RequestEnds(h) PROVE TypeOK'
  BY <1>7, <1>8 DEF RequestEnds, Commit, Rollback, EndTransaction
<1>9. ASSUME NEW h \in Requests, Exchange(h) \/ Upsert(h) \/ ShowPage(h) PROVE TypeOK'
  BY <1>9 DEF Exchange, Upsert, ShowPage, Write, Rollback, EndTransaction
<1>10. CASE RetryEnds
  BY <1>7, <1>10 DEF RetryEnds, Commit, Rollback, EndTransaction
<1>11. CASE RefreshSelect \/ RefreshNext
  BY <1>11 DEF RefreshSelect, RefreshNext
<1>12. CASE RefreshEnds
  BY <1>7, <1>12 DEF RefreshEnds, Commit, Rollback, EndTransaction, AfterError
<1>13. ASSUME NEW p \in Proc, Abort(p) PROVE TypeOK'
  BY <1>13 DEF Abort, Rollback, EndTransaction
<1>14. CASE Crash
  BY <1>14 DEF Crash
<1>15. CASE UNCHANGED vars
  BY <1>15 DEF vars
<1> QED
  BY <1>1, <1>2, <1>3, <1>4, <1>5, <1>6, <1>8, <1>9, <1>10, <1>11, <1>12, <1>13, <1>14, <1>15
     DEF Next, RequestStep, RetryStep, RefreshStep, TokenStep

-----------------------------------------------------------------------------
(* Sessions *)

(* The steps of get_valid_token that do not ask Google.                    *)
StoredOrDeleted(p) == LoadRow(p) \/ StoreLoad(p) \/ StoreFlush(p)
                        \/ DeleteLoad(p) \/ DeleteFlush(p)

(* Commit, rollback: the transaction of p is gone, the others are as they  *)
(* were.                                                                   *)
LEMMA Ended ==
  ASSUME IInv, NEW p \in Proc, EndTransaction(p)
  PROVE  /\ draft'[p] = NONE
         /\ \A q \in Proc \ {p} : draft'[q] = draft[q]
         /\ \A u \in Users : IF holder[u] = p THEN holder'[u] = NONE ELSE holder'[u] = holder[u]
BY ProcAssumption DEF EndTransaction, IInv, TypeOK, Proc

(* A process between two sessions, or before its write, has no draft.      *)
LEMMA NoDraft ==
  ASSUME IInv, NEW p \in Proc, pc[p] \notin {"page", "got", "nil"}
  PROVE  /\ draft[p] = NONE
         /\ \A u \in Users : holder[u] # p
BY ProcAssumption DEF IInv, DraftInv, LockInv, TypeOK, Proc

(* A transaction that is committed publishes a refresh of a row that still *)
(* exists, or a deletion for a cause; and nobody else holds that row.      *)
LEMMA CommitIsSound ==
  ASSUME IInv, NEW p \in Proc, pc[p] \in Outcome, Commit(p), NEW u \in Users
  PROVE  \/ row'[u] = row[u]
         \/ row[u] # "none" /\ row'[u] # "none"
         \/ row'[u] = "none" /\ Cause(u) /\ holder[u] = p /\ draft'[p] = NONE
BY Ended DEF Commit, IInv, DraftInv, TypeOK, Outcome

-----------------------------------------------------------------------------
(* How the rows change: by time, or by a sound commit.                     *)
LEMMA RowChange ==
  ASSUME IInv, [Next]_vars, NEW u \in Users
  PROVE  \/ row'[u] = row[u]
         \/ row[u] # "none" /\ row'[u] # "none"
         \/ row'[u] = "none" /\ Cause(u) /\ \E p \in Proc : holder[u] = p /\ draft'[p] = NONE
<1> DEFINE Sound == \/ row'[u] = row[u]
                    \/ row[u] # "none" /\ row'[u] # "none"
                    \/ /\ row'[u] = "none"
                       /\ Cause(u)
                       /\ \E p \in Proc : holder[u] = p /\ draft'[p] = NONE
<1> SUFFICES Sound
  OBVIOUS
<1>1. ASSUME NEW p \in Proc, pc[p] \in Outcome, Commit(p) PROVE Sound
  BY <1>1, CommitIsSound
<1>2. ASSUME row' = row PROVE Sound
  BY <1>2
<1> HIDE DEF Sound
<1>3. ASSUME NEW v \in Users, Age(v) PROVE Sound
  BY <1>3 DEF Age, IInv, TypeOK, Sound
<1>4. ASSUME NEW h \in Requests, RequestEnds(h) PROVE Sound
  BY <1>1, <1>2, <1>4 DEF RequestEnds, Rollback, Proc
<1>5. CASE RetryEnds
  BY <1>1, <1>2, <1>5 DEF RetryEnds, Rollback, Proc, Outcome
<1>6. CASE RefreshEnds
  BY <1>1, <1>2, <1>6 DEF RefreshEnds, Rollback, Proc, Outcome
<1>7. ASSUME \/ \E v \in Users : Revoke(v)
             \/ \E p \in Proc, v \in Users : StartSync(p, v)
             \/ \E h \in Requests, v \in Users : Disconnect(h, v) \/ StartCallback(h, v)
             \/ \E h \in Requests : Exchange(h) \/ Upsert(h) \/ ShowPage(h)
             \/ \E p \in Proc : TokenStep(p) \/ Abort(p)
             \/ RefreshSelect \/ RefreshNext \/ Crash
             \/ UNCHANGED vars
      PROVE  row' = row
  BY <1>7 DEF Revoke, StartSync, Disconnect, StartCallback, Exchange, Upsert, ShowPage,
              TokenStep,
              LoadRow, AskGoogle, StoreLoad, StoreFlush, DeleteLoad, DeleteFlush, Abort, Write,
              Rollback, RefreshSelect, RefreshNext, Crash, vars, dbVars
<1> QED
  BY <1>2, <1>3, <1>4, <1>5, <1>6, <1>7
     DEF Next, RequestStep, RetryStep, RefreshStep, Proc

(* A cause stays one: nobody un-sends /disconnect, a refusal is history,   *)
(* a corrupt refresh token is not repaired.                                *)
LEMMA CauseStays ==
  ASSUME IInv, [Next]_vars, NEW u \in Users, Cause(u)
  PROVE  Cause(u)'
<1>1. ASSUME NEW v \in Users, Revoke(v) PROVE Cause(u)'
  BY <1>1 DEF Revoke, Cause, IInv, TypeOK
<1>2. ASSUME NEW h \in Requests, NEW v \in Users, Disconnect(h, v) PROVE Cause(u)'
  BY <1>2 DEF Disconnect, Cause
<1>3. ASSUME NEW p \in Proc, AskGoogle(p) PROVE Cause(u)'
  <2>1. causes \subseteq causes' /\ grant' = grant
    BY <1>3 DEF AskGoogle, Answered
  <2> QED
    BY <2>1 DEF Cause
<1>4. ASSUME UNCHANGED <<causes, grant>> PROVE Cause(u)'
  BY <1>4 DEF Cause
<1>5. ASSUME \/ \E v \in Users : Age(v)
             \/ \E p \in Proc, v \in Users : StartSync(p, v)
             \/ \E h \in Requests, v \in Users : StartCallback(h, v)
             \/ \E h \in Requests : Exchange(h) \/ Upsert(h) \/ ShowPage(h) \/ RequestEnds(h)
             \/ \E p \in Proc : StoredOrDeleted(p) \/ Abort(p)
             \/ RefreshSelect \/ RefreshNext \/ RefreshEnds \/ RetryEnds \/ Crash
             \/ UNCHANGED vars
      PROVE  UNCHANGED <<causes, grant>>
  BY <1>5 DEF Age, StartSync, StartCallback, Exchange, Upsert, ShowPage, StoredOrDeleted,
              RequestEnds, LoadRow, StoreLoad, StoreFlush, DeleteLoad, DeleteFlush, Abort,
              RefreshSelect, RefreshNext, RefreshEnds, RetryEnds, Crash, vars
<1> QED
  BY <1>1, <1>2, <1>3, <1>4, <1>5
     DEF Next, RequestStep, RetryStep, RefreshStep, TokenStep, StoredOrDeleted, Proc

(* A refresh token that decrypts goes on to do so: it can only be refused. *)
LEMMA DecryptedStays ==
  ASSUME IInv, [Next]_vars, NEW u \in Users, Decrypted(u)
  PROVE  Decrypted(u)'
<1>1. ASSUME NEW v \in Users, Revoke(v) PROVE Decrypted(u)'
  BY <1>1 DEF Revoke, Decrypted, IInv, TypeOK
<1>2. ASSUME UNCHANGED grant PROVE Decrypted(u)'
  BY <1>2 DEF Decrypted
<1>3. ASSUME \/ \E v \in Users : Age(v)
             \/ \E p \in Proc, v \in Users : StartSync(p, v)
             \/ \E h \in Requests, v \in Users : Disconnect(h, v) \/ StartCallback(h, v)
             \/ \E h \in Requests : Exchange(h) \/ Upsert(h) \/ ShowPage(h) \/ RequestEnds(h)
             \/ \E p \in Proc : TokenStep(p) \/ Abort(p)
             \/ RefreshSelect \/ RefreshNext \/ RefreshEnds \/ RetryEnds \/ Crash
             \/ UNCHANGED vars
      PROVE  UNCHANGED grant
  BY <1>3 DEF Age, StartSync, Disconnect, StartCallback, Exchange, Upsert, ShowPage, TokenStep,
              RequestEnds, LoadRow, AskGoogle, StoreLoad, StoreFlush, DeleteLoad, DeleteFlush,
              Abort, RefreshSelect, RefreshNext, RefreshEnds, RetryEnds, Crash, vars
<1> QED
  BY <1>1, <1>2, <1>3 DEF Next, RequestStep, RetryStep, RefreshStep, Proc

-----------------------------------------------------------------------------
(* Locks *)

LEMMA LockStep == IInv /\ [Next]_vars => LockInv'
<1> SUFFICES ASSUME IInv, [Next]_vars PROVE LockInv'
  OBVIOUS
<1> USE ProcAssumption DEF LockInv, IInv, TypeOK, Goto, dbVars, procVars
(* the process has no lock and goes to work on a user *)
<1>1. ASSUME NEW p \in Proc, pc[p] \in {"idle", "next"}, UNCHANGED dbVars,
             NEW u \in Users, user' = [user EXCEPT ![p] = u]
      PROVE  LockInv'
  BY <1>1, NoDraft
<1>2. ASSUME UNCHANGED <<dbVars, user>> PROVE LockInv'
  BY <1>2
(* the end of a transaction *)
<1>3. ASSUME NEW p \in Proc, EndTransaction(p), UNCHANGED user PROVE LockInv'
  BY <1>3, Ended DEF Proc
(* an UPDATE or DELETE *)
<1>4. ASSUME NEW p \in Proc, NEW r \in Cred, Write(p, r), UNCHANGED user PROVE LockInv'
  BY <1>4 DEF Write, CanLock
<1>5. ASSUME NEW h \in Requests, Upsert(h) PROVE LockInv'
  <2>1. CASE Write(h, "fresh")
    BY <1>4, <1>5, <2>1 DEF Upsert, Cred, Proc
  <2>2. CASE draft' = [draft EXCEPT ![h] = "fresh"] /\ UNCHANGED <<row, holder>>
    BY <1>5, <2>2 DEF Upsert, Proc, Cred
  <2> QED
    BY <1>5, <2>1, <2>2 DEF Upsert
<1>6. ASSUME NEW p \in Proc, NEW u \in Users, StartSync(p, u) PROVE LockInv'
  BY <1>1, <1>6 DEF StartSync
<1>7. ASSUME NEW h \in Requests, NEW u \in Users, Disconnect(h, u) \/ StartCallback(h, u)
      PROVE LockInv'
  BY <1>1, <1>7 DEF Disconnect, StartCallback, Proc
<1>8. ASSUME NEW p \in Proc, TokenStep(p) PROVE LockInv'
  BY <1>2, <1>4, <1>8 DEF TokenStep, LoadRow, AskGoogle, Answered, StoreLoad, StoreFlush,
                          DeleteLoad, DeleteFlush, Cred
<1>9. ASSUME NEW h \in Requests, RequestEnds(h) \/ ShowPage(h) PROVE LockInv'
  BY <1>3, <1>9 DEF RequestEnds, ShowPage, Commit, Rollback, Proc
<1>10. CASE RetryEnds \/ RefreshEnds
  BY <1>3, <1>10 DEF RetryEnds, RefreshEnds, Commit, Rollback, Proc
<1>11. CASE RefreshNext
  BY <1>1, <1>2, <1>11 DEF RefreshNext, Proc
<1>12. ASSUME NEW p \in Proc, Abort(p) PROVE LockInv'
  BY <1>3, <1>12 DEF Abort, Rollback
<1>13. CASE Crash
  BY <1>13 DEF Crash
<1>14. ASSUME \/ \E u \in Users : Age(u) \/ Revoke(u)
              \/ \E h \in Requests : Exchange(h)
              \/ RefreshSelect \/ UNCHANGED vars
       PROVE  LockInv'
  BY <1>14 DEF Age, Revoke, Exchange, RefreshSelect, vars
<1> QED
  BY <1>5, <1>6, <1>7, <1>8, <1>9, <1>10, <1>11, <1>12, <1>13, <1>14
     DEF Next, RequestStep, RetryStep, RefreshStep, Proc

-----------------------------------------------------------------------------
(* Drafts *)

(* What a session may commit, DraftInv for one process.                    *)
Draft(p) == draft[p] # NONE =>
  \/ pc[p] = "page"
  \/ /\ pc[p] \in {"got", "nil"}
     /\ holder[user[p]] = p
     /\ \/ draft[p] = "fresh" /\ row[user[p]] # "none" /\ Decrypted(user[p])
        \/ draft[p] = "none" /\ Cause(user[p])

(* The others do not disturb it: a row goes only through the process that  *)
(* holds it, and its transaction is over then.                             *)
LEMMA DraftStays ==
  ASSUME IInv, [Next]_vars, NEW p \in Proc,
         draft'[p] = draft[p], pc'[p] = pc[p], user'[p] = user[p],
         holder[user[p]] = p => holder'[user[p]] = p
  PROVE  Draft(p)'
<1>1. user[p] \in Users
  BY DEF IInv, TypeOK
<1>2. Draft(p)
  BY DEF IInv, DraftInv, Draft
<1>3. CASE draft[p] = NONE \/ pc[p] = "page"
  BY <1>3 DEF Draft
<1>4. CASE /\ draft[p] = "fresh"
           /\ holder[user[p]] = p
           /\ row[user[p]] # "none"
           /\ Decrypted(user[p])
  <2>1. row'[user[p]] # "none"
    BY <1>1, <1>4, RowChange, ProcAssumption DEF Cred
  <2>2. Decrypted(user[p])'
    BY <1>1, <1>4, DecryptedStays DEF Decrypted
  <2> QED
    BY <1>1, <1>2, <1>4, <2>1, <2>2 DEF Draft
<1>5. CASE draft[p] = "none" /\ Cause(user[p])
  <2>1. Cause(user[p])'
    BY <1>1, <1>5, CauseStays DEF Cause
  <2> QED
    BY <1>2, <1>5, <2>1 DEF Draft
<1> QED
  BY <1>2, <1>3, <1>4, <1>5 DEF Draft

(* A process that had no draft and wrote nothing still has none.           *)
LEMMA NothingWritten ==
  ASSUME IInv, NEW p \in Proc, pc[p] \notin {"page", "got", "nil"}, draft' = draft
  PROVE  Draft(p)'
BY NoDraft DEF Draft

(* A step of one process leaves the draft of another as sound as it was.   *)
LEMMA OthersStay ==
  ASSUME IInv, [Next]_vars, NEW p \in Proc, NEW q \in Proc \ {p},
         pc'[p] = pc[p], user'[p] = user[p],
         \/ UNCHANGED dbVars
         \/ EndTransaction(q)
         \/ \E r \in Cred : Write(q, r)
         \/ \E r \in Cred : draft' = [draft EXCEPT ![q] = r] /\ UNCHANGED holder
  PROVE  Draft(p)'
<1> USE ProcAssumption DEF IInv, TypeOK
<1>1. CASE UNCHANGED dbVars
  BY <1>1, DraftStays DEF dbVars
<1>2. CASE EndTransaction(q)
  BY <1>2, DraftStays, Ended DEF Proc
<1>3. CASE \E r \in Cred : Write(q, r)
  BY <1>3, DraftStays DEF Write, CanLock, Proc
<1>4. CASE \E r \in Cred : draft' = [draft EXCEPT ![q] = r] /\ UNCHANGED holder
  BY <1>4, DraftStays
<1> QED
  BY <1>1, <1>2, <1>3, <1>4

LEMMA DraftStep == IInv /\ [Next]_vars => DraftInv'
<1> SUFFICES ASSUME IInv, [Next]_vars, NEW p \in Proc PROVE Draft(p)'
  BY DEF DraftInv, Draft
<1> USE ProcAssumption DEF IInv, TypeOK
<1>1. ASSUME UNCHANGED <<dbVars, pc, user>> \/ UNCHANGED <<holder, draft, pc, user>>
      PROVE  Draft(p)'
  BY <1>1, DraftStays DEF dbVars
<1>2. ASSUME NEW q \in Proc, NEW u \in Users, StartSync(q, u) PROVE Draft(p)'
  BY <1>2, NothingWritten, OthersStay DEF StartSync, Goto, dbVars
<1>3. ASSUME NEW h \in Requests, NEW u \in Users, Disconnect(h, u) \/ StartCallback(h, u)
      PROVE  Draft(p)'
  BY <1>3, NothingWritten, OthersStay DEF Disconnect, StartCallback, Goto, dbVars, Proc
<1>4. ASSUME NEW q \in Proc, LoadRow(q) \/ AskGoogle(q) \/ StoreLoad(q) \/ DeleteLoad(q)
      PROVE  Draft(p)'
  BY <1>4, NothingWritten, OthersStay
     DEF LoadRow, AskGoogle, Answered, StoreLoad, DeleteLoad, Goto, dbVars
<1>5. ASSUME NEW q \in Proc, StoreFlush(q) PROVE Draft(p)'
  <2>1. CASE q # p
    BY <1>5, <2>1, OthersStay DEF StoreFlush, Goto, Cred
  <2>2. CASE q = p /\ RowStillThere(q) /\ Write(q, "fresh")
    <3>1. row[user[p]] # "none"
      BY <1>5, <2>2, NoDraft DEF StoreFlush, RowStillThere, View
    <3>2. Decrypted(user[p])
      BY <1>5, <2>2 DEF StoreFlush, DecryptedInv
    <3> QED
      BY <1>5, <2>2, <3>1, <3>2 DEF StoreFlush, Write, Goto, Draft, Decrypted
  <2>3. CASE q = p /\ UNCHANGED dbVars
    BY <1>5, <2>3, NothingWritten DEF StoreFlush, dbVars
  <2> QED
    BY <1>5, <2>1, <2>2, <2>3 DEF StoreFlush
<1>6. ASSUME NEW q \in Proc, DeleteFlush(q) PROVE Draft(p)'
  <2>1. CASE q # p
    BY <1>6, <2>1, OthersStay DEF DeleteFlush, Goto, Cred
  <2>2. CASE q = p
    <3>1. Cause(user[p])
      BY <1>6, <2>2 DEF DeleteFlush, CauseInv
    <3> QED
      BY <1>6, <2>2, <3>1 DEF DeleteFlush, Write, Goto, Draft, Cause
  <2> QED
    BY <2>1, <2>2
<1>7. ASSUME NEW h \in Requests, Upsert(h) PROVE Draft(p)'
  <2>1. CASE h # p
    BY <1>7, <2>1, OthersStay DEF Upsert, Goto, Cred, Proc
  <2>2. CASE h = p
    BY <1>7, <2>2 DEF Upsert, Goto, Draft, Proc
  <2> QED
    BY <2>1, <2>2
<1>8. ASSUME NEW h \in Requests, Exchange(h) PROVE Draft(p)'
  BY <1>8, NothingWritten, OthersStay DEF Exchange, Goto, dbVars, Proc
<1>9. ASSUME NEW q \in Proc, EndTransaction(q), UNCHANGED user,
             \/ pc' = [pc EXCEPT ![q] = "idle"]
             \/ pc' = [pc EXCEPT ![q] = "next"]
      PROVE  Draft(p)'
  <2>1. CASE q # p
    BY <1>9, <2>1, OthersStay
  <2>2. CASE q = p
    BY <1>9, <2>2, Ended DEF Draft
  <2> QED
    BY <2>1, <2>2
<1>10. ASSUME NEW h \in Requests, RequestEnds(h) \/ ShowPage(h) PROVE Draft(p)'
  BY <1>9, <1>10 DEF RequestEnds, ShowPage, Commit, Rollback, Goto, Proc
<1>11. CASE RetryEnds \/ RefreshEnds
  BY <1>9, <1>11 DEF RetryEnds, RefreshEnds, Commit, Rollback, Goto, Proc
<1>12. ASSUME NEW q \in Proc, Abort(q) PROVE Draft(p)'
  BY <1>9, <1>12 DEF Abort, Rollback, Goto
<1>13. CASE RefreshSelect \/ RefreshNext
  <2>1. CASE p # RefreshJob
    BY <1>13, <2>1, OthersStay DEF RefreshSelect, RefreshNext, Goto, dbVars, Proc
  <2>2. CASE p = RefreshJob
    BY <1>13, <2>2, NothingWritten DEF RefreshSelect, RefreshNext, dbVars
  <2> QED
    BY <2>1, <2>2
<1>14. CASE Crash
  BY <1>14 DEF Crash, Draft
<1>15. ASSUME \/ \E u \in Users : Age(u) \/ Revoke(u)
              \/ UNCHANGED vars
       PROVE  Draft(p)'
  BY <1>1, <1>15 DEF Age, Revoke, vars, procVars, dbVars
<1> QED
  BY <1>2, <1>3, <1>4, <1>5, <1>6, <1>7, <1>8, <1>10, <1>11, <1>12, <1>13, <1>14, <1>15
     DEF Next, RequestStep, RetryStep, RefreshStep, TokenStep, Proc

-----------------------------------------------------------------------------
(* get_valid_token and /disconnect delete for a cause.                     *)
LEMMA CauseStep == IInv /\ [Next]_vars => CauseInv'
<1> SUFFICES ASSUME IInv, [Next]_vars, NEW p \in Proc, pc'[p] \in {"delete", "delete_flush"}
             PROVE  Cause(user[p])'
  BY DEF CauseInv, Cause
<1> USE ProcAssumption DEF IInv, TypeOK, Goto
<1>1. ASSUME pc[p] \in {"delete", "delete_flush"}, user'[p] = user[p] PROVE Cause(user[p])'
  <2>1. Cause(user[p])
    BY <1>1 DEF CauseInv
  <2> QED
    BY <1>1, <2>1, CauseStays DEF Cause
<1>2. ASSUME NEW q \in Proc, NEW u \in Users, StartSync(q, u) PROVE Cause(user[p])'
  BY <1>1, <1>2 DEF StartSync
<1>3. ASSUME NEW h \in Requests, NEW u \in Users, Disconnect(h, u) PROVE Cause(user[p])'
  <2>1. CASE h = p
    BY <1>3, <2>1 DEF Disconnect, Cause, Proc
  <2>2. CASE h # p
    BY <1>1, <1>3, <2>2 DEF Disconnect, Proc
  <2> QED
    BY <2>1, <2>2
<1>4. ASSUME NEW h \in Requests, NEW u \in Users, StartCallback(h, u) PROVE Cause(user[p])'
  BY <1>1, <1>4 DEF StartCallback, Proc
<1>5. ASSUME NEW q \in Proc, LoadRow(q) \/ AskGoogle(q) PROVE Cause(user[p])'
  <2>1. CASE q = p
    BY <1>5, <2>1 DEF LoadRow, AskGoogle, Answered, AfterAnswer, Deletes, Cause
  <2>2. CASE q # p
    BY <1>1, <1>5, <2>2 DEF LoadRow, AskGoogle, Answered
  <2> QED
    BY <2>1, <2>2
<1>6. ASSUME NEW q \in Proc, StoreLoad(q) \/ StoreFlush(q) \/ DeleteLoad(q) \/ DeleteFlush(q)
      PROVE  Cause(user[p])'
  BY <1>1, <1>6 DEF StoreLoad, StoreFlush, DeleteLoad, DeleteFlush
<1>7. ASSUME NEW h \in Requests, Exchange(h) \/ Upsert(h) \/ ShowPage(h) \/ RequestEnds(h)
      PROVE  Cause(user[p])'
  BY <1>1, <1>7 DEF Exchange, Upsert, ShowPage, RequestEnds, Proc
<1>8. CASE RetryEnds \/ RefreshEnds \/ RefreshSelect \/ RefreshNext
  BY <1>1, <1>8 DEF RetryEnds, RefreshEnds, RefreshSelect, RefreshNext, procVars, Proc
<1>9. ASSUME NEW q \in Proc, Abort(q) PROVE Cause(user[p])'
  BY <1>1, <1>9 DEF Abort
<1>10. CASE Crash
  BY <1>10 DEF Crash
<1>11. ASSUME \/ \E u \in Users : Age(u) \/ Revoke(u)
              \/ UNCHANGED vars
       PROVE  Cause(user[p])'
  BY <1>1, <1>11 DEF Age, Revoke, vars, procVars
<1> QED
  BY <1>2, <1>3, <1>4, <1>5, <1>6, <1>7, <1>8, <1>9, <1>10, <1>11
     DEF Next, RequestStep, RetryStep, RefreshStep, TokenStep, Proc

(* Google is asked for new tokens, and they are stored, only with a refresh *)
(* token that decrypts.                                                    *)
LEMMA DecryptedStep == IInv /\ [Next]_vars => DecryptedInv'
<1> DEFINE Renewing == {"refresh", "store", "store_flush"}
<1> SUFFICES ASSUME IInv, [Next]_vars, NEW p \in Proc, pc'[p] \in Renewing
             PROVE  Decrypted(user[p])'
  BY DEF DecryptedInv, Decrypted
<1> USE ProcAssumption DEF IInv, TypeOK, Goto
<1>1. ASSUME pc[p] \in Renewing, user'[p] = user[p] PROVE Decrypted(user[p])'
  <2>1. Decrypted(user[p])
    BY <1>1 DEF DecryptedInv
  <2> QED
    BY <1>1, <2>1, DecryptedStays DEF Decrypted
<1>2. ASSUME NEW q \in Proc, NEW u \in Users, StartSync(q, u) PROVE Decrypted(user[p])'
  BY <1>1, <1>2 DEF StartSync
<1>3. ASSUME NEW h \in Requests, NEW u \in Users, Disconnect(h, u) \/ StartCallback(h, u)
      PROVE  Decrypted(user[p])'
  BY <1>1, <1>3 DEF Disconnect, StartCallback, Proc
<1>4. ASSUME NEW q \in Proc, LoadRow(q) PROVE Decrypted(user[p])'
  <2>1. CASE q = p
    BY <1>4, <2>1 DEF LoadRow, Decrypted
  <2>2. CASE q # p
    BY <1>1, <1>4, <2>2 DEF LoadRow
  <2> QED
    BY <2>1, <2>2
<1>5. ASSUME NEW q \in Proc,
             AskGoogle(q) \/ StoreLoad(q) \/ StoreFlush(q) \/ DeleteLoad(q) \/ DeleteFlush(q)
      PROVE  Decrypted(user[p])'
  BY <1>1, <1>5 DEF AskGoogle, Answered, StoreLoad, StoreFlush, DeleteLoad, DeleteFlush
<1>6. ASSUME NEW h \in Requests, Exchange(h) \/ Upsert(h) \/ ShowPage(h) \/ RequestEnds(h)
      PROVE  Decrypted(user[p])'
  BY <1>1, <1>6 DEF Exchange, Upsert, ShowPage, RequestEnds, Proc
<1>7. CASE RetryEnds \/ RefreshEnds \/ RefreshSelect \/ RefreshNext
  BY <1>1, <1>7 DEF RetryEnds, RefreshEnds, RefreshSelect, RefreshNext, procVars, Proc
<1>8. ASSUME NEW q \in Proc, Abort(q) PROVE Decrypted(user[p])'
  BY <1>1, <1>8 DEF Abort
<1>9. CASE Crash
  BY <1>9 DEF Crash
<1>10. ASSUME \/ \E u \in Users : Age(u) \/ Revoke(u)
              \/ UNCHANGED vars
       PROVE  Decrypted(user[p])'
  BY <1>1, <1>10 DEF Age, Revoke, vars, procVars
<1> QED
  BY <1>2, <1>3, <1>4, <1>5, <1>6, <1>7, <1>8, <1>9, <1>10
     DEF Next, RequestStep, RetryStep, RefreshStep, TokenStep, Proc

-----------------------------------------------------------------------------
(* Theorems *)

(* The inductive invariant holds in every reachable state: locks belong to *)
(* processes at work on their row, and whatever a session is about to      *)
(* commit is a refresh of a row that is still there or a deletion for a    *)
(* cause (get_valid_token, /disconnect, and how their callers end).        *)
THEOREM Invariance == Spec => []IInv
<1>1. Init => IInv
  BY ProcAssumption, FaultAssumption
     DEF Init, IInv, TypeOK, LockInv, DraftInv, DecryptedInv, CauseInv, Proc, Cred, Points,
         Outcome
<1>2. IInv /\ [Next]_vars => IInv'
  BY TypeStep, LockStep, DraftStep, DecryptedStep, CauseStep DEF IInv
<1> QED
  BY <1>1, <1>2, PTL DEF Spec

(* Every variable keeps its type; a commit publishes a row, never the      *)
(* absence of a draft.                                                     *)
THEOREM TypeCorrect == Spec => []TypeOK
<1>1. IInv => TypeOK
  BY DEF IInv
<1> QED
  BY <1>1, Invariance, PTL

(* A credential row disappears only after /disconnect, after an error the  *)
(* token endpoint answered to a refresh of that user, or with a refresh    *)
(* token that does not decrypt (auth_service.py 110-131, connect.py); not  *)
(* for any other exception, nor by any overlap of the sessions that        *)
(* refresh and delete it.                                                  *)
THEOREM RowsGoForACause == Spec => CredentialsGoForACause
<1>1. IInv /\ [Next]_vars =>
        [\A u \in Users : row[u] # "none" /\ row'[u] = "none" => Cause(u)]_vars
  BY RowChange
<1> QED
  BY <1>1, Invariance, PTL DEF Spec, CredentialsGoForACause

(* A deleted credential row does not come back from a refresh under way in *)
(* another session (update_tokens).                                        *)
THEOREM NoRowReturns == Spec => NoResurrection
<1>1. IInv /\ [Next]_vars => [\A u \in Users : row[u] = "none" => row'[u] = "none"]_vars
  BY RowChange
<1> QED
  BY <1>1, Invariance, PTL DEF Spec, NoResurrection

-----------------------------------------------------------------------------
(* The promise *)

(* A commit renews or removes the row of the session's user, or nothing.   *)
LEMMA CommitKeepsPromise ==
  ASSUME IInv, NEW p \in Proc, pc[p] \in Outcome, Commit(p), UNCHANGED <<grant, causes>>
  PROVE  [Promise!Next]_Promise!vars
<1>1. user[p] \in Users
  BY DEF IInv, TypeOK
<1>2. CASE draft[p] = NONE
  BY <1>2 DEF Commit, Promise!vars
<1>3. CASE draft[p] = "fresh" /\ draft[p] # NONE
  <2>1. Promise!Renew(user[p])
    BY <1>3 DEF Commit, Promise!Renew, IInv, DraftInv, Decrypted, Outcome
  <2> QED
    BY <1>1, <2>1 DEF Promise!Next
<1>4. CASE draft[p] = "none" /\ draft[p] # NONE
  <2>1. Promise!Remove(user[p])
    BY <1>4 DEF Commit, Promise!Remove, IInv, DraftInv, Cause, Outcome
  <2> QED
    BY <1>1, <2>1 DEF Promise!Next
<1> QED
  BY <1>2, <1>3, <1>4 DEF IInv, DraftInv, Outcome

(* The other steps, but for those of the clock and of the users.           *)
LEMMA NothingPromised ==
  ASSUME \/ \E p \in Proc, u \in Users : StartSync(p, u)
         \/ \E h \in Requests, u \in Users : StartCallback(h, u)
         \/ \E h \in Requests : Exchange(h) \/ Upsert(h) \/ ShowPage(h)
         \/ \E p \in Proc : StoredOrDeleted(p) \/ Abort(p)
         \/ RefreshSelect \/ RefreshNext \/ Crash
         \/ UNCHANGED vars
  PROVE  UNCHANGED Promise!vars
BY DEF StartSync, StartCallback, Exchange, Upsert, ShowPage, StoredOrDeleted, LoadRow,
       StoreLoad, StoreFlush, DeleteLoad, DeleteFlush, Abort, Write, Rollback, RefreshSelect,
       RefreshNext, Crash, vars, dbVars, Promise!vars

(* Every behaviour of the sessions is one of the promise: a row is renewed *)
(* while it exists and by a refresh token that decrypts, it goes for a     *)
(* cause, and for good (get_valid_token, /disconnect, the refresh job).    *)
THEOREM PromiseIsKept == Spec => PromiseKept
<1> DEFINE Kept == [Promise!Next]_Promise!vars
<1>1. Init => Promise!Init
  BY DEF Init, Promise!Init, Cred
<1>2. ASSUME IInv, [Next]_vars PROVE Kept
  <2>1. ASSUME NEW u \in Users, Age(u) PROVE Kept
    <3>1. Promise!Age(u)
      BY <2>1 DEF Age, Promise!Age
    <3> QED
      BY <3>1 DEF Promise!Next
  <2>2. ASSUME NEW u \in Users, Revoke(u) PROVE Kept
    <3>1. Promise!Revoke(u)
      BY <2>2 DEF Revoke, dbVars, Promise!Revoke
    <3> QED
      BY <3>1 DEF Promise!Next
  <2>3. ASSUME NEW h \in Requests, NEW u \in Users, Disconnect(h, u) PROVE Kept
    <3>1. Promise!Leave(u)
      BY <2>3 DEF Disconnect, dbVars, Promise!Leave
    <3> QED
      BY <3>1 DEF Promise!Next
  <2>4. ASSUME NEW p \in Proc, AskGoogle(p) PROVE Kept
    <3>1. user[p] \in Users /\ grant[user[p]] # "corrupt"
      BY <1>2, <2>4 DEF AskGoogle, IInv, TypeOK, DecryptedInv, Decrypted
    <3>2. CASE causes' = causes
      BY <2>4, <3>2 DEF AskGoogle, dbVars, Promise!vars
    <3>3. CASE causes' = causes \cup {<<user[p], "refused">>}
      <4>1. Promise!Refuse(user[p])
        BY <2>4, <3>1, <3>3 DEF AskGoogle, dbVars, Promise!Refuse
      <4> QED
        BY <3>1, <4>1 DEF Promise!Next
    <3> QED
      BY <2>4, <3>2, <3>3 DEF AskGoogle, Answered
  <2>5. ASSUME NEW p \in Proc, pc[p] \in Outcome, Commit(p), UNCHANGED <<grant, causes>>
        PROVE  Kept
    BY <1>2, <2>5, CommitKeepsPromise
  <2>6. ASSUME UNCHANGED <<row, grant, causes>> PROVE Kept
    BY <2>6 DEF Promise!vars
  <2> HIDE DEF Kept
  <2>7. ASSUME NEW h \in Requests, RequestEnds(h) PROVE Kept
    BY <2>5, <2>6, <2>7 DEF RequestEnds, Rollback, Proc
  <2>8. CASE RetryEnds
    BY <2>5, <2>6, <2>8 DEF RetryEnds, Rollback, Proc, Outcome
  <2>9. CASE RefreshEnds
    BY <2>5, <2>6, <2>9 DEF RefreshEnds, Rollback, Proc, Outcome
  <2>10. ASSUME UNCHANGED Promise!vars PROVE Kept
    BY <2>10 DEF Kept
  <2> QED
    BY <1>2, <2>1, <2>2, <2>3, <2>7, <2>8, <2>9, <2>10, <2>4, NothingPromised
       DEF Next, RequestStep, RetryStep, RefreshStep, TokenStep, StoredOrDeleted, Proc
<1> QED
  BY <1>1, <1>2, Invariance, PTL DEF Spec, PromiseKept, Promise!Spec
=============================================================================
