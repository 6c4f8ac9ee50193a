------------------------------ MODULE BotProofs ------------------------------
(***************************************************************************)
(* Proofs about Bot, for every set of events, owners and handlers and any  *)
(* pool: the composition implements both of its parts, so that what is     *)
(* proved of EventSync and of Credentials holds of the whole; row locks of *)
(* either table belong to sessions with a connection; and the deletion of  *)
(* refused credentials and the failed event are committed together.        *)
(***************************************************************************)
EXTENDS Bot, EventSyncProofs, FiniteSetTheorems

-----------------------------------------------------------------------------
(* Every step is a step of EventSync, or leaves its variables alone.       *)
LEMMA EventPart ==
  ASSUME [BotNext]_botVars
  PROVE  [Next]_vars
<1>1. CASE World
  BY <1>1 DEF World, Next
<1>2. CASE Ages \/ UNCHANGED botVars
  BY <1>2 DEF Ages, botVars
<1>3. CASE Dies
  BY <1>3 DEF Dies, Next
<1>4. ASSUME NEW h \in Handlers, HandlerSteps(h) PROVE [Next]_vars
  BY <1>4 DEF HandlerSteps, HandlerWorks, Token, BeginToken, TokenWork, EndToken, Commits,
              Next, HandlerStep, SyncStep, JobStep
<1>5. CASE JobSteps
  BY <1>5 DEF JobSteps, JobWorks, Token, BeginToken, TokenWork, EndToken, Commits,
              Next, HandlerStep, SyncStep, JobStep
<1>6. ASSUME NEW p \in Proc, Raises(p) PROVE [Next]_vars
  BY <1>6 DEF Raises, Next, JobStep
<1> QED
  BY <1>1, <1>2, <1>3, <1>4, <1>5, <1>6 DEF BotNext

(* The composition implements EventSync: the rows of the events, the       *)
(* calendar and the chat behave as that module says, so its theorems hold  *)
(* of the whole (get_valid_token only decides among its three outcomes).   *)
THEOREM EventsAreKept == BotSpec => Spec
<1>1. BotInit => Init
  BY DEF BotInit
<1>2. [BotNext]_botVars => [Next]_vars
  BY EventPart
<1> QED
  BY <1>1, <1>2, PTL DEF BotSpec, Spec

-----------------------------------------------------------------------------
(* The processes of Credentials                                            *)
LEMMA Processes ==
  /\ Proc \subseteq C!Proc
  /\ C!Proc = Proc \cup {RefreshJob}
  /\ RefreshJob \notin Proc
  /\ NONE \notin C!Proc
  /\ "none" # NONE /\ "fresh" # NONE
BY ProcAssumption, RefreshAssumption DEF Proc, C!Proc, C!Cred

(* A session that ends lets go of its credential, and of no other.         *)
LEMMA CredEnds ==
  ASSUME BotInv, NEW p \in Proc, CredCommit(p) \/ CredRollback(p)
  PROVE  /\ CredFunctions'
         /\ cdraft'[p] = NONE /\ cpc'[p] = "idle"
         /\ \A q \in Proc \ {p} : cdraft'[q] = cdraft[q] /\ cpc'[q] = cpc[q]
         /\ \A u \in Users : cholder'[u] = IF cholder[u] = p THEN NONE ELSE cholder[u]
         /\ cuser' = cuser
BY Processes
   DEF CredCommit, CredRollback, C!Commit, C!Rollback, C!EndTransaction, C!Goto,
       BotInv, CredFunctions

(* The steps of get_valid_token.                                           *)
LEMMA TokenMoves ==
  ASSUME BotInv, NEW p \in Proc, C!TokenStep(p)
  PROVE  /\ cpc[p] \in Asking
         /\ \A q \in Proc \ {p} : cpc'[q] = cpc[q]
         /\ cpc' = [cpc EXCEPT ![p] = cpc'[p]]
         /\ cpc'[p] \in Asking \cup C!Outcome
         /\ UNCHANGED <<crow, cuser>>
BY Processes
   DEF C!TokenStep, C!LoadRow, C!AskGoogle, C!Answered, C!AfterAnswer, C!StoreLoad,
       C!StoreFlush, C!DeleteLoad, C!DeleteFlush, C!Write, C!Goto, C!dbVars, BotInv,
       CredFunctions, Asking, C!Outcome

(* What its commit, or rollback, is in EventSync.                          *)
LEMMA EventEnds ==
  ASSUME TypeOK, NEW p \in Proc, Commits(p) \/ Raises(p)
  PROVE  /\ pc'[p] \in {"idle", "next", "ack", "fail_load"}
         /\ p \in Handlers => (say'[p] = NONE \/ (pc'[p] = "ack" /\ say'[p] = say[p]))
         /\ p \in Handlers => pc[p] # "ack" /\ pc'[p] \in {"idle", "ack"}
         /\ Commits(p) => pc[p] = "commit"
         /\ \A q \in Proc \ {p} : pc'[q] = pc[q] /\ say'[q] = say[q]
         /\ \A e \in Events : holder'[e] = IF holder[e] = p THEN NONE ELSE holder[e]
         /\ \A e \in Events : holder[e] # p => draft'[e] = draft[e]
         /\ ev' = ev
         /\ ~Connected(p)'
<1> USE ProcAssumption DEF TypeOK, Proc
<1>1. ASSUME p \in Handlers, HandlerCommit(p) \/ HandlerRaises(p)
      PROVE  /\ pc'[p] \in {"idle", "ack"} /\ pc[p] # "ack"
             /\ (say'[p] = NONE \/ (pc'[p] = "ack" /\ say'[p] = say[p]))
             /\ HandlerCommit(p) => pc[p] = "commit"
             /\ \A q \in Proc \ {p} : pc'[q] = pc[q] /\ say'[q] = say[q]
             /\ \A e \in Events : holder'[e] = IF holder[e] = p THEN NONE ELSE holder[e]
             /\ \A e \in Events : holder[e] # p => draft'[e] = draft[e]
             /\ ev' = ev
  <2>1. CASE HandlerCommit(p)
    BY <1>1, <2>1 DEF HandlerCommit, Commit, Unlocked, EndSession, Goto
  <2>2. CASE HandlerRaises(p)
    <3>1. /\ HandlerCommit(p) => pc[p] = "commit"
          /\ pc'[p] = "idle" /\ pc[p] # "ack" /\ say'[p] = NONE /\ ev' = ev
          /\ \A q \in Proc \ {p} : pc'[q] = pc[q] /\ say'[q] = say[q]
      BY <2>2 DEF HandlerRaises, HandlerCommit, Goto
    <3>2. /\ \A e \in Events : holder'[e] = IF holder[e] = p THEN NONE ELSE holder[e]
          /\ \A e \in Events : holder[e] # p => draft'[e] = draft[e]
      BY <2>2 DEF HandlerRaises, Rollback, Unlocked
    <3> QED
      BY <3>1, <3>2
  <2> QED
    BY <1>1, <2>1, <2>2
<1>2. ASSUME p = Job, JobCommit \/ JobRaises
      PROVE  /\ pc'[p] \in {"next", "fail_load"}
             /\ JobCommit => pc[p] = "commit"
             /\ \A q \in Proc \ {p} : pc'[q] = pc[q] /\ say'[q] = say[q]
             /\ \A e \in Events : holder'[e] = IF holder[e] = p THEN NONE ELSE holder[e]
             /\ \A e \in Events : holder[e] # p => draft'[e] = draft[e]
             /\ ev' = ev
  BY <1>2 DEF JobCommit, JobRaises, Commit, Rollback, Unlocked, EndSession, Goto
<1>3. CASE p \in Handlers
  BY <1>1, <1>3 DEF Commits, Raises, Connected, HandlerCommit, HandlerRaises
<1>4. CASE p = Job
  BY <1>2, <1>4 DEF Commits, Raises, Connected, JobCommit, JobRaises
<1> QED
  BY <1>3, <1>4

-----------------------------------------------------------------------------
(* Sessions and their call of get_valid_token                              *)
LEMMA FunctionsStep ==
  ASSUME TypeOK, BotInv, [BotNext]_botVars
  PROVE  CredFunctions'
<1> USE Processes DEF BotInv, CredFunctions, credVars, botVars
<1>1. CASE World \/ UNCHANGED botVars
  BY <1>1 DEF World
<1>2. CASE Ages
  <2>1. /\ UNCHANGED <<cholder, cdraft, cpc, cuser>>
        /\ crow' = crow \/ \E u \in Users, r \in C!Cred : crow' = [crow EXCEPT ![u] = r]
    BY <1>2 DEF Ages, C!Age, C!Revoke, C!procVars, C!dbVars, C!Cred
  <2> QED
    BY <2>1
<1>3. CASE Dies
  BY <1>3 DEF Dies, C!Crash, C!procVars
<1>4. ASSUME NEW p \in Proc, Token(p) PROVE CredFunctions'
  BY <1>4 DEF TypeOK, Users, Token, BeginToken, TokenWork, EndToken, C!StartSync, C!TokenStep,
              C!LoadRow, C!AskGoogle, C!Answered, C!StoreLoad, C!StoreFlush, C!DeleteLoad,
              C!DeleteFlush, C!Write, C!Goto, C!dbVars
<1>5. ASSUME NEW p \in Proc, Commits(p) \/ Raises(p) PROVE CredFunctions'
  BY <1>5, CredEnds DEF Commits, Raises
<1>6. CASE (\E h \in Handlers : HandlerWorks(h)) \/ JobWorks
  BY <1>6 DEF HandlerWorks, JobWorks
<1> QED
  BY <1>1, <1>2, <1>3, <1>4, <1>5, <1>6
     DEF BotNext, HandlerSteps, JobSteps, Proc

(* What the steps outside get_valid_token do to the place of a session in  *)
(* sync_event; none of them begins where get_valid_token is under way.     *)
LEMMA EventMoves ==
  ASSUME TypeOK, World \/ (\E h \in Handlers : HandlerWorks(h)) \/ JobWorks,
         NEW q \in Proc, pc'[q] # pc[q]
  PROVE  /\ pc[q] # "token"
         /\ pc'[q] \in Before => pc[q] \in Before
         /\ pc'[q] \in {"insert", "await_insert", "mark_synced"}
              => pc[q] \in {"insert", "await_insert"}
         /\ q = Job /\ pc'[q] = "commit" => pc[q] \in {"sync_load", "mark_synced"}
<1> USE ProcAssumption DEF TypeOK, Proc, Before, SyncPoints, HandlerPoints, JobPoints, procVars
<1>1. CASE World
  BY <1>1 DEF World, EventStep, SendPreview, CommitPreview, AbortPreview, DeleteCard, Age,
              GoogleInsert, Tap, Dismiss, Timeout, Deliver, JobFailRaises, EndSession, Goto
<1>2. ASSUME NEW p \in Proc, SyncLoad(p) \/ SendInsert(p) \/ InsertReturns(p)
                               \/ MarkSynced(p) \/ MarkFailed(p)
      PROVE  /\ pc[q] # "token"
             /\ pc'[q] \in Before => pc[q] \in Before
             /\ pc'[q] \in {"insert", "await_insert", "mark_synced"}
                  => pc[q] \in {"insert", "await_insert"}
             /\ q = Job /\ pc'[q] = "commit" => pc[q] \in {"sync_load", "mark_synced"}
  BY <1>2 DEF SyncLoad, SendInsert, InsertReturns, MarkSynced, MarkFailed, Load, Goto
<1>3. ASSUME NEW h \in Handlers, HandlerWorks(h)
      PROVE  /\ pc[q] # "token"
             /\ pc'[q] \in Before => pc[q] \in Before
             /\ pc'[q] \in {"insert", "await_insert", "mark_synced"}
                  => pc[q] \in {"insert", "await_insert"}
             /\ q = Job /\ pc'[q] = "commit" => pc[q] \in {"sync_load", "mark_synced"}
  <2>1. CASE ConfirmLoad(h) \/ ConfirmFlush(h) \/ ReplyToUser(h) \/ Ack(h)
    BY <2>1 DEF ConfirmLoad, ConfirmFlush, ReplyToUser, Ack, Load, Goto
  <2> QED
    BY <1>2, <1>3, <2>1 DEF HandlerWorks
<1>4. CASE JobWorks
  <2>1. CASE JobFailLoad \/ JobSelect \/ JobNext \/ JobFailFlush \/ JobFailCommit
    BY <2>1 DEF JobFailLoad, JobSelect, JobNext, JobFailFlush, JobFailCommit, Load, EndSession,
                Goto
  <2> QED
    BY <1>2, <1>4, <2>1 DEF JobWorks
<1> QED
  BY <1>1, <1>3, <1>4

(* How get_valid_token returns to sync_event.                              *)
LEMMA TokenReturns ==
  ASSUME TypeOK, NEW p \in Proc, EndToken(p)
  PROVE  /\ pc[p] = "token"
         /\ cpc[p] = "got" => pc'[p] = "insert"
         /\ cpc[p] = "nil" => pc'[p] = "mark_failed"
         /\ cpc[p] = "error" => pc'[p] = IF p = Job THEN "undo" ELSE "reply"
         /\ cpc[p] \in C!Outcome
         /\ pc' = [pc EXCEPT ![p] = pc'[p]]
         /\ \A h \in Handlers : say'[h] # say[h] => h = p /\ say'[h] = "failed"
         /\ UNCHANGED <<row, holder, draft, ev, credVars>>
BY ProcAssumption DEF TypeOK, EndToken, GetToken, AfterToken, C!Outcome, Goto, dbVars, Proc

LEMMA TokenStepInv ==
  ASSUME TypeOK, BotInv, [BotNext]_botVars
  PROVE  TokenInv'
<1> USE DEF TokenInv, credVars
<1>0. TokenInv
  BY DEF BotInv
<1>1. CASE World \/ (\E h \in Handlers : HandlerWorks(h)) \/ JobWorks
  <2>1. cpc' = cpc
    BY <1>1 DEF World, HandlerWorks, JobWorks
  <2>2. SUFFICES ASSUME NEW q \in Proc PROVE TokenInv!(q)'
    OBVIOUS
  <2> QED
    BY <1>0, <1>1, <2>1, EventMoves DEF Before
<1>2. CASE Ages \/ UNCHANGED botVars
  <2>1. pc' = pc /\ cpc' = cpc
    BY <1>2 DEF Ages, C!Age, C!Revoke, C!procVars, C!dbVars, botVars, vars, procVars
  <2> QED
    BY <1>0, <2>1
<1>3. CASE Dies
  BY <1>3, Processes DEF Dies, Crash, C!Crash, Before, Asking
<1>4. ASSUME NEW p \in Proc, BeginToken(p) \/ TokenWork(p) PROVE TokenInv'
  <2>1. /\ UNCHANGED pc /\ pc[p] = "token"
        /\ cpc' = [cpc EXCEPT ![p] = cpc'[p]]
        /\ cpc'[p] \in Asking \cup C!Outcome
    BY <1>4, TokenMoves, Processes
       DEF BeginToken, TokenWork, C!StartSync, C!Goto, Asking, vars, procVars, BotInv,
           CredFunctions
  <2>2. SUFFICES ASSUME NEW q \in Proc PROVE TokenInv!(q)'
    OBVIOUS
  <2>3. CASE q = p
    BY <2>1, <2>3, ProcAssumption, Processes DEF Before, BotInv, CredFunctions
  <2>4. CASE q # p
    BY <1>0, <2>1, <2>4, Processes DEF BotInv, CredFunctions
  <2> QED
    BY <2>3, <2>4
<1>5. ASSUME NEW p \in Proc, EndToken(p) PROVE TokenInv'
  BY <1>0, <1>5, TokenReturns, ProcAssumption
     DEF Before, Asking, C!Outcome, TypeOK, Proc
<1>6. ASSUME NEW p \in Proc, Commits(p) \/ Raises(p) PROVE TokenInv'
  BY <1>0, <1>6, CredEnds, EventEnds DEF Before, Commits, Raises, Asking, C!Outcome
<1> QED
  BY <1>1, <1>2, <1>3, <1>4, <1>5, <1>6
     DEF BotNext, HandlerSteps, JobSteps, Token, Proc

-----------------------------------------------------------------------------
(* Locks                                                                   *)
LEMMA CredLockStep ==
  ASSUME TypeOK, BotInv, [BotNext]_botVars
  PROVE  CredLockInv'
<1> USE DEF CredLockInv, credVars
<1>0. CredLockInv /\ CredFunctions
  BY DEF BotInv
<1>1. CASE World \/ (\E h \in Handlers : HandlerWorks(h)) \/ JobWorks
           \/ (\E p \in Proc : EndToken(p)) \/ UNCHANGED botVars
  <2>1. UNCHANGED <<cholder, cdraft, cpc, cuser>>
    BY <1>1 DEF World, HandlerWorks, JobWorks, EndToken, botVars
  <2> QED
    BY <1>0, <2>1
<1>2. CASE Ages
  <2>1. UNCHANGED <<cholder, cdraft, cpc, cuser>>
    BY <1>2 DEF Ages, C!Age, C!Revoke, C!procVars, C!dbVars
  <2> QED
    BY <1>0, <2>1
<1>3. CASE Dies
  BY <1>3, Processes DEF Dies, C!Crash
<1>4. ASSUME NEW p \in Proc, BeginToken(p) PROVE CredLockInv'
  <2>1. cdraft[p] = NONE
    BY <1>0, <1>4 DEF BeginToken, C!StartSync
  <2>2. /\ UNCHANGED <<cholder, cdraft>>
        /\ \A q \in Proc \ {p} : cpc'[q] = cpc[q] /\ cuser'[q] = cuser[q]
    BY <1>0, <1>4, Processes DEF BeginToken, C!StartSync, C!Goto, C!dbVars, CredFunctions
  <2> QED
    BY <1>0, <2>1, <2>2
<1>5. ASSUME NEW p \in Proc, TokenWork(p) PROVE CredLockInv'
  <2>1. /\ cdraft[p] = NONE
        /\ \A q \in Proc \ {p} : cpc'[q] = cpc[q] /\ cuser'[q] = cuser[q]
        /\ cuser' = cuser /\ cuser[p] \in Users
    BY <1>0, <1>5, TokenMoves, Processes DEF TokenWork, Asking, CredFunctions
  <2>2. CASE UNCHANGED <<cholder, cdraft>>
    BY <1>0, <2>1, <2>2
  <2>3. ASSUME NEW r \in {"fresh", "none"}, C!Write(p, r),
               cpc'[p] = IF r = "fresh" THEN "got" ELSE "nil"
        PROVE  CredLockInv'
    <3>1. /\ cholder[cuser[p]] \in {NONE, p}
          /\ \A u \in Users : cholder'[u] = IF u = cuser[p] THEN p ELSE cholder[u]
          /\ \A q \in Proc : cdraft'[q] = IF q = p THEN r ELSE cdraft[q]
      BY <1>0, <2>1, <2>3, Processes DEF C!Write, C!CanLock, CredFunctions
    <3> QED
      BY <1>0, <2>1, <2>3, <3>1, Processes
  <2>4. \/ UNCHANGED <<cholder, cdraft>>
        \/ C!Write(p, "fresh") /\ cpc'[p] = "got"
        \/ C!Write(p, "none") /\ cpc'[p] = "nil"
    BY <1>0, <1>5, Processes
       DEF TokenWork, C!TokenStep, C!LoadRow, C!AskGoogle, C!Answered, C!StoreLoad,
           C!StoreFlush, C!DeleteLoad, C!DeleteFlush, C!Goto, C!dbVars, CredFunctions
  <2> QED
    BY <2>2, <2>3, <2>4
<1>6. ASSUME NEW p \in Proc, Commits(p) \/ Raises(p) PROVE CredLockInv'
  BY <1>0, <1>6, CredEnds, Processes DEF Commits, Raises
<1> QED
  BY <1>1, <1>2, <1>3, <1>4, <1>5, <1>6
     DEF BotNext, HandlerSteps, JobSteps, Token, Proc

(* Row locks of events outside get_valid_token: a handler that has one     *)
(* keeps it, and its draft, and any is got by an UPDATE of one's own.      *)
Updating == {"confirm_flush", "mark_synced", "mark_failed", "fail_flush"}

LEMMA EventLocks ==
  ASSUME IInv, World \/ (\E h \in Handlers : HandlerWorks(h)) \/ JobWorks,
         NEW p \in Proc, NEW e \in Events
  PROVE  /\ p \in Handlers /\ holder[e] = p
              => holder'[e] = p /\ (draft'[e] = draft[e] \/ pc[p] \in Updating)
         /\ holder'[e] = p => holder[e] = p \/ pc[p] \in Updating
<1> DEFINE Kept == /\ p \in Handlers /\ holder[e] = p
                        => holder'[e] = p /\ (draft'[e] = draft[e] \/ pc[p] \in Updating)
                   /\ holder'[e] = p => holder[e] = p \/ pc[p] \in Updating
<1> USE ProcAssumption DEF IInv, TypeOK, Proc, dbVars
<1>1. ASSUME NEW q \in Proc, NEW r, Write(q, r), pc[q] \in Updating PROVE Kept
  BY <1>1 DEF Write, CanLock
<1>2. ASSUME Commit(Job) \/ Rollback(Job) PROVE Kept
  BY <1>2 DEF Commit, Rollback, Unlocked
<1>3. CASE World
  <2>1. ASSUME NEW c \in Events, CommitPreview(c) PROVE Kept
    BY <2>1 DEF CommitPreview, RowInv
  <2>2. CASE JobFailRaises
    BY <1>2, <2>2 DEF JobFailRaises
  <2>3. CASE UNCHANGED dbVars
    BY <2>3
  <2> QED
    BY <1>3, <2>1, <2>2, <2>3
       DEF World, EventStep, SendPreview, AbortPreview, DeleteCard, Age, GoogleInsert,
           Tap, Dismiss, Timeout, Deliver
<1>4. ASSUME NEW q \in Proc, SyncLoad(q) \/ SendInsert(q) \/ InsertReturns(q)
                               \/ MarkSynced(q) \/ MarkFailed(q)
      PROVE  Kept
  <2>1. CASE MarkSynced(q) \/ MarkFailed(q)
    BY <1>1, <2>1 DEF MarkSynced, MarkFailed, Updating
  <2>2. CASE UNCHANGED dbVars
    BY <2>2
  <2> QED
    BY <1>4, <2>1, <2>2 DEF SyncLoad, SendInsert, InsertReturns
<1>5. ASSUME NEW h \in Handlers, HandlerWorks(h) PROVE Kept
  <2>1. CASE UNCHANGED dbVars
    BY <2>1
  <2>2. CASE ConfirmFlush(h)
    BY <1>1, <2>1, <2>2 DEF ConfirmFlush, Updating
  <2> QED
    BY <1>4, <1>5, <2>1, <2>2 DEF HandlerWorks, ConfirmLoad, ReplyToUser, Ack
<1>6. CASE JobWorks
  <2>1. CASE UNCHANGED dbVars
    BY <2>1
  <2>2. CASE JobFailFlush
    BY <1>1, <2>2 DEF JobFailFlush, Updating
  <2>3. CASE JobFailCommit
    BY <1>2, <2>3 DEF JobFailCommit
  <2> QED
    BY <1>4, <1>6, <2>1, <2>2, <2>3 DEF JobWorks, JobFailLoad, JobSelect, JobNext
<1> QED
  BY <1>3, <1>5, <1>6

(* A handler's reply without a token: only _mark_failed leads to it.       *)
LEMMA EventReplies ==
  ASSUME IInv, World \/ (\E h \in Handlers : HandlerWorks(h)) \/ JobWorks,
         NEW h \in Handlers, pc'[h] \in {"reply", "commit"}
  PROVE  \/ pc[h] \in {"reply", "commit"} /\ ev'[h] = ev[h]
         \/ pc[h] \in Before \cup {"mark_synced"}
         \/ /\ pc[h] = "mark_failed"
            /\ ev'[h] = ev[h] /\ holder'[ev[h]] = h /\ draft'[ev[h]].status = "failed"
<1> USE ProcAssumption DEF IInv, TypeOK, Proc, procVars
<1>1. CASE World
  BY <1>1 DEF World, EventStep, SendPreview, CommitPreview, AbortPreview, DeleteCard, Age,
              GoogleInsert, Tap, Dismiss, Timeout, Deliver, JobFailRaises, EndSession, Goto, Before
<1>2. ASSUME NEW p \in Proc, MarkFailed(p)
      PROVE  \/ pc[h] \in {"reply", "commit"} /\ ev'[h] = ev[h]
             \/ /\ pc[h] = "mark_failed"
                /\ ev'[h] = ev[h] /\ holder'[ev[h]] = h /\ draft'[ev[h]].status = "failed"
  <2>1. CASE p = h
    BY <1>2, <2>1, FailWrite DEF MarkFailed, Write
  <2>2. CASE p # h
    BY <1>2, <2>2 DEF MarkFailed, Goto
  <2> QED
    BY <2>1, <2>2
<1>3. ASSUME NEW p \in Proc, SyncLoad(p) \/ SendInsert(p) \/ InsertReturns(p) \/ MarkSynced(p)
      PROVE  \/ pc[h] \in {"reply", "commit"} /\ ev'[h] = ev[h]
             \/ pc[h] \in Before \cup {"mark_synced"}
  BY <1>3 DEF SyncLoad, SendInsert, InsertReturns, MarkSynced, Load, Goto, Before
<1>4. ASSUME NEW g \in Handlers, HandlerWorks(g)
      PROVE  \/ pc[h] \in {"reply", "commit"} /\ ev'[h] = ev[h]
             \/ pc[h] \in Before \cup {"mark_synced"}
             \/ /\ pc[h] = "mark_failed"
                /\ ev'[h] = ev[h] /\ holder'[ev[h]] = h /\ draft'[ev[h]].status = "failed"
  <2>1. CASE ConfirmLoad(g) \/ ConfirmFlush(g) \/ ReplyToUser(g) \/ Ack(g)
    BY <2>1 DEF ConfirmLoad, ConfirmFlush, ReplyToUser, Ack, Load, Goto, Before
  <2> QED
    BY <1>2, <1>3, <1>4, <2>1 DEF HandlerWorks
<1>5. CASE JobWorks
  <2>1. CASE JobFailLoad \/ JobSelect \/ JobNext \/ JobFailFlush \/ JobFailCommit
    BY <2>1 DEF JobFailLoad, JobSelect, JobNext, JobFailFlush, JobFailCommit, Load, EndSession,
                Goto
  <2> QED
    BY <1>2, <1>3, <1>5, <2>1 DEF JobWorks
<1> QED
  BY <1>1, <1>4, <1>5

LEMMA NilStep ==
  ASSUME IInv, BotInv, [BotNext]_botVars
  PROVE  NilInv'
<1> USE ProcAssumption DEF NilInv, Proc
<1>0. TypeOK /\ NilInv /\ TokenInv
  BY DEF BotInv, IInv
<1>1. CASE World \/ (\E h \in Handlers : HandlerWorks(h)) \/ JobWorks
  <2> SUFFICES ASSUME NEW h \in Handlers, cpc'[h] = "nil", pc'[h] \in {"reply", "commit"}
               PROVE  holder'[ev'[h]] = h /\ draft'[ev'[h]].status = "failed"
    OBVIOUS
  <2>1. cpc[h] = "nil"
    BY <1>1 DEF World, HandlerWorks, JobWorks, credVars
  <2>2. CASE pc[h] \in {"reply", "commit"} /\ ev'[h] = ev[h]
    BY <1>0, <1>1, <2>1, <2>2, EventLocks DEF TypeOK, Updating
  <2>3. pc[h] \notin Before \cup {"mark_synced"}
    BY <1>0, <2>1 DEF TokenInv
  <2> QED
    BY <1>1, <2>2, <2>3, EventReplies
<1>2. CASE Ages \/ UNCHANGED botVars
  <2>1. UNCHANGED <<pc, ev, cpc, holder, draft>>
    BY <1>2 DEF Ages, C!Age, C!Revoke, C!procVars, C!dbVars, botVars, credVars, vars, procVars,
                dbVars
  <2> QED
    BY <1>0, <2>1
<1>3. CASE Dies
  BY <1>3 DEF Dies, Crash
<1>4. ASSUME NEW p \in Proc, BeginToken(p) \/ TokenWork(p) PROVE NilInv'
  <2>1. /\ UNCHANGED <<pc, ev, holder, draft>> /\ pc[p] = "token"
        /\ \A q \in Proc \ {p} : cpc'[q] = cpc[q]
    BY <1>4, TokenMoves, Processes
       DEF BeginToken, TokenWork, C!StartSync, C!Goto, vars, procVars, dbVars, BotInv,
           CredFunctions
  <2> QED
    BY <1>0, <2>1
<1>5. ASSUME NEW p \in Proc, EndToken(p) PROVE NilInv'
  BY <1>0, <1>5, TokenReturns DEF credVars, C!Outcome, TypeOK
<1>6. ASSUME NEW p \in Proc, Commits(p) \/ Raises(p) PROVE NilInv'
  <2>1. /\ cpc'[p] = "idle" /\ ev' = ev
        /\ \A q \in Proc \ {p} : cpc'[q] = cpc[q] /\ pc'[q] = pc[q]
        /\ \A e \in Events : holder[e] # p => holder'[e] = holder[e] /\ draft'[e] = draft[e]
    BY <1>0, <1>6, CredEnds, EventEnds DEF Commits, Raises
  <2> QED
    BY <1>0, <2>1 DEF TypeOK
<1> QED
  BY <1>1, <1>2, <1>3, <1>4, <1>5, <1>6
     DEF BotNext, HandlerSteps, JobSteps, Token

(* A handler's "cancelled" comes with its press and goes with its session. *)
LEMMA EventCancels ==
  ASSUME IInv, World \/ (\E h \in Handlers : HandlerWorks(h)) \/ JobWorks,
         NEW h \in Handlers, say'[h] = "cancelled"
  PROVE  \/ pc[h] = "idle" /\ pc'[h] = "reply"
         \/ say[h] = "cancelled" /\ (pc[h] \in {"reply", "commit", "ack"}
                                       => pc'[h] \in {"reply", "commit", "ack"})
<1> USE ProcAssumption, UpdateAssumption DEF IInv, TypeOK, Proc, procVars, Reply
<1>1. CASE World
  BY <1>1 DEF World, EventStep, SendPreview, CommitPreview, AbortPreview, DeleteCard, Age,
              GoogleInsert, Tap, Dismiss, Timeout, Deliver, JobFailRaises, EndSession, Goto
<1> DEFINE Goal == say[h] = "cancelled" /\ (pc[h] \in {"reply", "commit", "ack"}
                                              => pc'[h] \in {"reply", "commit", "ack"})
<1>2. ASSUME NEW p \in Proc, SyncLoad(p) \/ SendInsert(p) \/ InsertReturns(p)
                               \/ MarkSynced(p) \/ MarkFailed(p)
      PROVE  Goal
  BY <1>2 DEF SyncLoad, SendInsert, InsertReturns, MarkSynced, MarkFailed, Load, Goto
<1>3. ASSUME NEW g \in Handlers, HandlerWorks(g) PROVE Goal
  <2>1. CASE ConfirmLoad(g) \/ ConfirmFlush(g) \/ ReplyToUser(g) \/ Ack(g)
    BY <2>1 DEF ConfirmLoad, ConfirmFlush, ReplyToUser, Ack, Load, Goto
  <2> QED
    BY <1>2, <1>3, <2>1 DEF HandlerWorks
<1>4. CASE JobWorks
  <2>1. CASE JobFailLoad \/ JobSelect \/ JobNext \/ JobFailFlush \/ JobFailCommit
    BY <2>1 DEF JobFailLoad, JobSelect, JobNext, JobFailFlush, JobFailCommit, Load, EndSession,
                Goto
  <2> QED
    BY <1>2, <1>4, <2>1 DEF JobWorks
<1> QED
  BY <1>1, <1>3, <1>4

(* The job begins a sync session from its list.                            *)
LEMMA JobBegins ==
  ASSUME IInv, World \/ (\E h \in Handlers : HandlerWorks(h)) \/ JobWorks,
         pc'[Job] = "sync_load"
  PROVE  pc[Job] \in {"next", "sync_load"}
<1> USE ProcAssumption DEF IInv, TypeOK, Proc, procVars
<1>1. CASE World
  BY <1>1 DEF World, EventStep, SendPreview, CommitPreview, AbortPreview, DeleteCard, Age,
              GoogleInsert, Tap, Dismiss, Timeout, Deliver, JobFailRaises, EndSession, Goto
<1>2. ASSUME NEW p \in Proc, SyncLoad(p) \/ SendInsert(p) \/ InsertReturns(p)
                               \/ MarkSynced(p) \/ MarkFailed(p)
      PROVE  pc[Job] = "sync_load"
  BY <1>2 DEF SyncLoad, SendInsert, InsertReturns, MarkSynced, MarkFailed, Load, Goto
<1>3. ASSUME NEW g \in Handlers, HandlerWorks(g) PROVE pc[Job] = "sync_load"
  <2>1. CASE ConfirmLoad(g) \/ ConfirmFlush(g) \/ ReplyToUser(g) \/ Ack(g)
    BY <2>1 DEF ConfirmLoad, ConfirmFlush, ReplyToUser, Ack, Load, Goto
  <2> QED
    BY <1>2, <1>3, <2>1 DEF HandlerWorks
<1>4. CASE JobWorks
  <2>1. CASE JobFailLoad \/ JobSelect \/ JobNext \/ JobFailFlush \/ JobFailCommit
    BY <2>1 DEF JobFailLoad, JobSelect, JobNext, JobFailFlush, JobFailCommit, Load, EndSession,
                Goto
  <2> QED
    BY <1>2, <1>4, <2>1 DEF JobWorks
<1> QED
  BY <1>1, <1>3, <1>4

LEMMA UntouchedStep ==
  ASSUME IInv, BotInv, [BotNext]_botVars
  PROVE  UntouchedInv'
<1> USE ProcAssumption DEF UntouchedInv, Proc
<1>0. TypeOK /\ LockInv /\ UntouchedInv /\ TokenInv /\ NONE # "cancelled"
  BY UpdateAssumption DEF BotInv, IInv, Reply
<1>1. CASE World \/ (\E h \in Handlers : HandlerWorks(h)) \/ JobWorks
  <2>1. cpc' = cpc
    BY <1>1 DEF World, HandlerWorks, JobWorks, credVars
  <2>2. ASSUME NEW h \in Handlers, say'[h] = "cancelled"
        PROVE  /\ pc'[h] \in {"reply", "commit", "ack"}
               /\ cpc[h] = "idle"
               /\ \A e \in Events : holder[e] # h /\ pc[h] \notin Updating
    <3>1. CASE pc[h] = "idle" /\ pc'[h] = "reply"
      BY <1>0, <3>1 DEF TokenInv, Before, LockInv, LockPoints, SyncPoints, Updating
    <3>2. CASE say[h] = "cancelled" /\ (pc[h] \in {"reply", "commit", "ack"}
                                         => pc'[h] \in {"reply", "commit", "ack"})
      BY <1>0, <3>2 DEF Updating
    <3> QED
      BY <1>1, <2>2, <3>1, <3>2, EventCancels
  <2>3. ASSUME pc'[Job] = "sync_load", NEW e \in Events PROVE holder'[e] # Job
    <3>1. CASE pc[Job] = "next"
      BY <1>0, <1>1, <3>1, EventLocks DEF LockInv, LockPoints, SyncPoints, Updating
    <3>2. CASE pc[Job] = "sync_load"
      BY <1>0, <1>1, <3>2, EventLocks DEF Updating
    <3> QED
      BY <1>1, <2>3, <3>1, <3>2, JobBegins
  <2> QED
    BY <1>1, <2>1, <2>2, <2>3, EventLocks
<1>2. CASE Ages \/ UNCHANGED botVars
  <2>1. UNCHANGED <<pc, say, cpc, holder>>
    BY <1>2 DEF Ages, C!Age, C!Revoke, C!procVars, C!dbVars, botVars, credVars, vars, procVars,
                dbVars
  <2> QED
    BY <1>0, <2>1
<1>3. CASE Dies
  BY <1>0, <1>3 DEF Dies, Crash
<1>4. ASSUME NEW p \in Proc, BeginToken(p) \/ TokenWork(p) PROVE UntouchedInv'
  <2>1. UNCHANGED <<pc, say, holder>> /\ pc[p] = "token"
    BY <1>4 DEF BeginToken, TokenWork, vars, procVars, dbVars
  <2>2. \A q \in Proc \ {p} : cpc'[q] = cpc[q]
    <3>1. CASE BeginToken(p)
      BY <3>1, Processes DEF BeginToken, C!StartSync, C!Goto, BotInv, CredFunctions
    <3>2. CASE TokenWork(p)
      BY <3>2, TokenMoves DEF TokenWork
    <3> QED
      BY <1>4, <3>1, <3>2
  <2> QED
    BY <1>0, <2>1, <2>2
<1>5. ASSUME NEW p \in Proc, EndToken(p) PROVE UntouchedInv'
  <2>1. /\ UNCHANGED <<cpc, holder>> /\ pc[p] = "token" /\ pc'[p] # "sync_load"
        /\ \A h \in Handlers : say'[h] # say[h] => h = p /\ say'[h] = "failed"
    BY <1>0, <1>5, TokenReturns DEF credVars, C!Outcome
  <2>2. \A q \in Proc \ {p} : pc'[q] = pc[q]
    BY <1>0, <1>5, TokenReturns DEF TypeOK
  <2> QED
    BY <1>0, <2>1, <2>2
<1>6. ASSUME NEW p \in Proc, Commits(p) \/ Raises(p) PROVE UntouchedInv'
  <2>1. /\ cpc'[p] = "idle" /\ pc'[p] # "sync_load"
        /\ p \in Handlers => say'[p] = NONE \/ pc'[p] = "ack"
        /\ \A q \in Proc \ {p} : cpc'[q] = cpc[q] /\ pc'[q] = pc[q] /\ say'[q] = say[q]
        /\ \A e \in Events : holder'[e] = IF holder[e] = p THEN NONE ELSE holder[e]
    BY <1>0, <1>6, CredEnds, EventEnds DEF Commits, Raises
  <2>2. \A e \in Events, q \in Proc : holder'[e] = q => q # p /\ holder[e] = q
    BY <2>1
  <2> QED
    BY <1>0, <2>1, <2>2 DEF Reply
<1> QED
  BY <1>1, <1>2, <1>3, <1>4, <1>5, <1>6
     DEF BotNext, HandlerSteps, JobSteps, Token

-----------------------------------------------------------------------------
(* A session takes up an event before it asks for a token.                 *)
LEMMA EventHolds ==
  ASSUME TypeOK, World \/ (\E h \in Handlers : HandlerWorks(h)) \/ JobWorks,
         NEW q \in Proc, ev'[q] # ev[q]
  PROVE  pc[q] \in {"idle", "next"}
<1> USE ProcAssumption DEF TypeOK, Proc, procVars
<1>1. CASE World
  BY <1>1 DEF World, EventStep, SendPreview, CommitPreview, AbortPreview, DeleteCard, Age,
              GoogleInsert, Tap, Dismiss, Timeout, Deliver, JobFailRaises, EndSession
<1>2. ASSUME NEW p \in Proc, SyncLoad(p) \/ SendInsert(p) \/ InsertReturns(p)
                               \/ MarkSynced(p) \/ MarkFailed(p)
      PROVE  pc[q] \in {"idle", "next"}
  BY <1>2 DEF SyncLoad, SendInsert, InsertReturns, MarkSynced, MarkFailed, Load
<1>3. ASSUME NEW h \in Handlers, HandlerWorks(h) PROVE pc[q] \in {"idle", "next"}
  BY <1>2, <1>3 DEF HandlerWorks, ConfirmLoad, ConfirmFlush, ReplyToUser, Ack, Load
<1>4. CASE JobWorks
  BY <1>2, <1>4 DEF JobWorks, JobFailLoad, JobSelect, JobNext, JobFailFlush, JobFailCommit,
                    Load, EndSession
<1> QED
  BY <1>1, <1>3, <1>4

LEMMA OwnerStep ==
  ASSUME TypeOK, BotInv, [BotNext]_botVars
  PROVE  OwnerInv'
<1> USE DEF OwnerInv
<1>0. OwnerInv /\ TokenInv /\ CredFunctions
  BY DEF BotInv
<1>1. CASE World \/ (\E h \in Handlers : HandlerWorks(h)) \/ JobWorks
  <2>1. cpc' = cpc /\ cuser' = cuser
    BY <1>1 DEF World, HandlerWorks, JobWorks, credVars
  <2> QED
    BY <1>0, <1>1, <2>1, EventHolds DEF TokenInv, Before
<1>2. CASE Ages \/ UNCHANGED botVars
  <2>1. ev' = ev /\ cpc' = cpc /\ cuser' = cuser
    BY <1>2 DEF Ages, C!Age, C!Revoke, C!procVars, botVars, credVars, vars, procVars
  <2> QED
    BY <1>0, <2>1
<1>3. CASE Dies
  BY <1>3, Processes DEF Dies, C!Crash
<1>4. ASSUME NEW p \in Proc, BeginToken(p) \/ TokenWork(p) PROVE OwnerInv'
  <2>1. CASE BeginToken(p)
    BY <1>0, <2>1, Processes
       DEF BeginToken, C!StartSync, C!Goto, vars, procVars, CredFunctions
  <2>2. CASE TokenWork(p)
    <3>1. ev' = ev /\ cuser' = cuser /\ cpc[p] # "idle"
          /\ \A q \in Proc \ {p} : cpc'[q] = cpc[q]
      BY <2>2, TokenMoves DEF TokenWork, vars, procVars, Asking
    <3> QED
      BY <1>0, <3>1
  <2> QED
    BY <1>4, <2>1, <2>2
<1>5. ASSUME NEW p \in Proc, EndToken(p) PROVE OwnerInv'
  <2>1. ev' = ev /\ cpc' = cpc /\ cuser' = cuser
    BY <1>5, TokenReturns DEF credVars
  <2> QED
    BY <1>0, <2>1
<1>6. ASSUME NEW p \in Proc, Commits(p) \/ Raises(p) PROVE OwnerInv'
  <2>1. ev' = ev /\ cuser' = cuser /\ cpc'[p] = "idle"
        /\ \A q \in Proc \ {p} : cpc'[q] = cpc[q]
    BY <1>6, CredEnds, EventEnds DEF Commits, Raises
  <2> QED
    BY <1>0, <2>1
<1> QED
  BY <1>1, <1>2, <1>3, <1>4, <1>5, <1>6
     DEF BotNext, HandlerSteps, JobSteps, Token, Proc

(* The invariant of the composition holds in every reachable state, beside *)
(* the one of EventSync.                                                   *)
THEOREM BotInvariance == BotSpec => [](IInv /\ BotInv)
<1>1. BotInit => BotInv
  <2> SUFFICES ASSUME BotInit PROVE BotInv
    OBVIOUS
  <2>1. CredFunctions
    BY DEF BotInit, C!Init, CredFunctions
  <2>2. TokenInv /\ NilInv /\ UntouchedInv
    BY Processes, ProcAssumption, UpdateAssumption
       DEF BotInit, C!Init, Init, TokenInv, NilInv, UntouchedInv, Asking, Proc, Reply
  <2>3. CredLockInv /\ OwnerInv
    BY Processes DEF BotInit, C!Init, CredLockInv, OwnerInv
  <2> QED
    BY <2>1, <2>2, <2>3 DEF BotInv
<1>2. IInv /\ BotInv /\ [BotNext]_botVars => BotInv'
  <2> SUFFICES ASSUME IInv, BotInv, [BotNext]_botVars PROVE BotInv'
    OBVIOUS
  <2>1. TypeOK
    BY DEF IInv
  <2> QED
    BY <2>1, FunctionsStep, TokenStepInv, NilStep, CredLockStep, OwnerStep, UntouchedStep
       DEF BotInv
<1> QED
  BY <1>1, <1>2, EventsAreKept, Invariance, PTL DEF BotSpec

(* A row lock of either table belongs to a session with a connection, so   *)
(* what waits for the pool keeps nobody waiting for a lock.                *)
THEOREM LockersAreConnected == BotSpec => []LocksHaveSessions
<1>1. IInv /\ BotInv => LocksHaveSessions
  <2> SUFFICES ASSUME IInv, BotInv PROVE LocksHaveSessions
    OBVIOUS
  <2> USE ProcAssumption DEF Proc, Connected
  <2>1. ASSUME NEW e \in Events, holder[e] # NONE PROVE Connected(holder[e])
    <3>1. holder[e] \in Proc /\ pc[holder[e]] \in LockPoints
      BY <2>1 DEF IInv, TypeOK, LockInv
    <3>2. CASE holder[e] \in Handlers
      BY <3>1, <3>2 DEF LockPoints, SyncPoints, BotInv, UntouchedInv
    <3>3. CASE holder[e] = Job
      BY <3>1, <3>3 DEF LockPoints, SyncPoints, BotInv, UntouchedInv
    <3> QED
      BY <3>1, <3>2, <3>3
  <2>2. ASSUME NEW u \in Users, cholder[u] # NONE PROVE Connected(cholder[u])
    <3>1. cholder[u] \in Proc /\ cpc[cholder[u]] \in {"got", "nil"}
      BY <2>2 DEF BotInv, CredLockInv
    <3>2. pc[cholder[u]] \notin Before
      BY <3>1 DEF BotInv, TokenInv
    <3>3. cholder[u] \in Handlers => say[cholder[u]] # "cancelled"
      BY <3>1 DEF BotInv, UntouchedInv
    <3> QED
      BY <3>1, <3>2, <3>3 DEF Before
  <2> QED
    BY <2>1, <2>2 DEF LocksHaveSessions
<1> QED
  BY <1>1, BotInvariance, PTL

(* Whose lock a session waits for: an event is locked by a session on that *)
(* event, a credential by a session that has its token.                    *)
LEMMA Blockers ==
  ASSUME IInv, BotInv, NEW p \in Proc, Waits(p)
  PROVE  \E q \in Proc :
           /\ WaitsFor(p, q)
           /\ pc[p] # "token" => ev[q] = ev[p] /\ holder[ev[q]] = q
           /\ pc[p] = "token" => /\ cholder[cuser[q]] = q /\ cuser[q] = cuser[p]
                                 /\ cpc[q] \in {"got", "nil"}
<1>1. CASE pc[p] = "token"
  <2>1. cuser[p] \in Users /\ cholder[cuser[p]] # NONE
    BY <1>1, Processes DEF Waits, C!CanLock, BotInv, CredFunctions
  <2> QED
    BY <1>1, <2>1 DEF WaitsFor, BotInv, CredLockInv
<1>2. CASE pc[p] # "token"
  <2>1. ev[p] \in Events /\ holder[ev[p]] # NONE
    BY <1>2 DEF Waits, CanLock, IInv, TypeOK
  <2>2. holder[ev[p]] \in Proc /\ ev[holder[ev[p]]] = ev[p]
    BY <2>1 DEF IInv, TypeOK, LockInv
  <2> QED
    BY <1>2, <2>2 DEF WaitsFor
<1> QED
  BY <1>1, <1>2

(* A session that has locked its event waits for nobody but for a          *)
(* credential, one that has locked a credential for nobody but an event.   *)
LEMMA LockersWait ==
  ASSUME IInv, BotInv, NEW q \in Proc, Waits(q)
  PROVE  /\ holder[ev[q]] = q => pc[q] = "token"
         /\ cpc[q] \in {"got", "nil"} => pc[q] # "token"
BY DEF Waits, CanLock

(* Whoever waits for a row waits, through three sessions at most, for one  *)
(* that goes on or for a pair that PostgreSQL breaks: along a chain events *)
(* and credentials take turns, and a session that has the event which one  *)
(* with a credential wants can itself only want that very credential, for  *)
(* an event has one owner.                                                 *)
THEOREM WaitsAreShort == BotSpec => []WaitsEnd
<1>1. IInv /\ BotInv /\ LocksHaveSessions => WaitsEnd
  <2> SUFFICES ASSUME IInv, BotInv, LocksHaveSessions, NEW p \in Proc, Waits(p)
               PROVE  WaitsEnd!(p)!2
    BY DEF WaitsEnd
  <2>0. ASSUME NEW a \in Proc, NEW b \in Proc, WaitsFor(a, b) PROVE Connected(b)
    <3>1. cuser[a] \in Users /\ ev[a] \in Events
      BY Processes DEF BotInv, CredFunctions, IInv, TypeOK
    <3> QED
      BY <2>0, <3>1, Processes DEF WaitsFor, LocksHaveSessions, Proc
  (* The one that a session with a credential waits for goes on, or waits  *)
  (* for that session.                                                     *)
  <2>1. ASSUME NEW b \in Proc, Waits(b), cpc[b] \in {"got", "nil"}, cholder[cuser[b]] = b
        PROVE  \E c \in Proc : WaitsFor(b, c) /\ (~Waits(c) \/ WaitsFor(c, b))
    <3>1. pc[b] # "token"
      BY <2>1, LockersWait
    <3>2. PICK c \in Proc : WaitsFor(b, c) /\ ev[c] = ev[b] /\ holder[ev[c]] = c
      BY <2>1, <3>1, Blockers
    <3>3. ASSUME Waits(c) PROVE WaitsFor(c, b)
      <4>1. pc[c] = "token" /\ cpc[c] # "idle"
        BY <3>2, <3>3, LockersWait DEF Waits
      <4>2. cuser[c] = Owner[ev[c]] /\ cuser[b] = Owner[ev[b]]
        BY <2>1, <4>1 DEF BotInv, OwnerInv
      <4> QED
        BY <2>1, <3>2, <3>3, <4>1, <4>2 DEF WaitsFor
    <3> QED
      BY <3>2, <3>3
  <2>2. ASSUME NEW b \in Proc, NEW c \in Proc, WaitsFor(b, c), ~Waits(c) \/ WaitsFor(c, b)
        PROVE  Ends(c)
    BY <2>0, <2>2 DEF Ends, Deadlocked
  <2>3. PICK q \in Proc :
          /\ WaitsFor(p, q)
          /\ pc[p] # "token" => ev[q] = ev[p] /\ holder[ev[q]] = q
          /\ pc[p] = "token" => /\ cholder[cuser[q]] = q /\ cuser[q] = cuser[p]
                                /\ cpc[q] \in {"got", "nil"}
    BY Blockers
  <2>4. CASE ~Waits(q)
    BY <2>0, <2>3, <2>4 DEF Ends
  <2>5. CASE Waits(q) /\ pc[p] = "token"
    BY <2>1, <2>2, <2>3, <2>5
  <2>6. CASE Waits(q) /\ pc[p] # "token"
    <3>1. pc[q] = "token"
      BY <2>3, <2>6, LockersWait
    <3>2. PICK r \in Proc : WaitsFor(q, r) /\ cholder[cuser[r]] = r /\ cpc[r] \in {"got", "nil"}
      BY <2>6, <3>1, Blockers
    <3>3. CASE ~Waits(r)
      BY <2>0, <2>3, <3>2, <3>3 DEF Ends
    <3>4. CASE Waits(r)
      BY <2>1, <2>2, <2>3, <3>2, <3>4
    <3> QED
      BY <3>3, <3>4
  <2> QED
    BY <2>4, <2>5, <2>6
<1> QED
  BY <1>1, BotInvariance, LockersAreConnected, PTL

(* However few connections there are, some session that has one goes on    *)
(* when all are taken.                                                     *)
THEOREM ThePoolMoves == BotSpec => []FullPoolMoves
<1>1. WaitsEnd => FullPoolMoves
  <2> SUFFICES ASSUME WaitsEnd, ~HasRoom PROVE \E p \in Proc : Ends(p)
    BY DEF FullPoolMoves
  <2>1. {p \in Proc : Connected(p)} # {}
    BY FS_EmptySet, PoolAssumption DEF HasRoom
  <2>2. PICK p \in Proc : Connected(p)
    BY <2>1
  <2>3. CASE Waits(p)
    BY <2>3 DEF WaitsEnd
  <2>4. CASE ~Waits(p)
    BY <2>2, <2>4 DEF Ends
  <2> QED
    BY <2>3, <2>4
<1> QED
  BY <1>1, WaitsAreShort, PTL

-----------------------------------------------------------------------------
(* A commit publishes the credential the session has changed, if any; a    *)
(* session that never called get_valid_token ends without a trace there.   *)
LEMMA SessionEnds ==
  ASSUME BotInv, NEW p \in Proc, CredCommit(p) \/ CredRollback(p), cpc[p] = "idle"
  PROVE  UNCHANGED credVars
<1>1. cdraft[p] = NONE /\ \A u \in Users : cholder[u] # p
  BY Processes DEF BotInv, CredLockInv
<1>2. cdraft' = cdraft /\ cholder' = cholder /\ cpc' = cpc /\ crow' = crow
  BY <1>1, Processes
     DEF CredCommit, CredRollback, C!Commit, C!Rollback, C!EndTransaction, C!Goto,
         BotInv, CredFunctions
<1> QED
  BY <1>2 DEF CredCommit, CredRollback, credVars

(* The composition implements Credentials: its requests are the handlers,  *)
(* its retry job is the job, and no path of sync_event ends their sessions *)
(* in a way of its own, so its theorems hold of the whole.                 *)
THEOREM CredentialsAreKept == BotSpec => CredentialsKept
<1>1. BotInit => C!Init
  BY DEF BotInit
<1>2. IInv /\ BotInv /\ [BotNext]_botVars => [C!Next]_C!vars
  <2> SUFFICES ASSUME IInv, BotInv, [BotNext]_botVars PROVE [C!Next]_C!vars
    OBVIOUS
  <2> USE Processes, ProcAssumption DEF Proc
  <2>0. UNCHANGED credVars => UNCHANGED C!vars
    BY DEF credVars, C!vars, C!dbVars, C!procVars
  <2>1. CASE World \/ (\E h \in Handlers : HandlerWorks(h)) \/ JobWorks \/ UNCHANGED botVars
    BY <2>0, <2>1 DEF World, HandlerWorks, JobWorks, botVars
  <2>2. CASE Ages
    BY <2>2 DEF Ages, C!Next
  <2>3. CASE Dies
    BY <2>3 DEF Dies, C!Next
  <2>4. ASSUME NEW p \in Proc, BeginToken(p) PROVE C!Next
    <3>1. Owner[ev[p]] \in Users
      BY DEF Users, IInv, TypeOK
    <3> QED
      BY <2>4, <3>1 DEF BeginToken, C!Next
  <2>5. ASSUME NEW p \in Proc, TokenWork(p) PROVE C!Next
    BY <2>5 DEF TokenWork, C!Next, C!RequestStep, C!RetryStep
  <2>6. ASSUME NEW p \in Proc, EndToken(p) PROVE [C!Next]_C!vars
    BY <2>0, <2>6 DEF EndToken
  <2>7. ASSUME NEW p \in Proc, Commits(p) PROVE [C!Next]_C!vars
    <3>1. CASE cpc[p] = "idle"
      BY <2>0, <2>7, <3>1, SessionEnds DEF Commits
    <3>2. CASE cpc[p] # "idle"
      <4>1. pc[p] = "commit" /\ cpc[p] \in C!Outcome /\ (p = Job => cpc[p] = "got")
        BY <2>7, <3>2, EventEnds DEF IInv, BotInv, TokenInv, Asking, C!Outcome
      <4> QED
        BY <2>7, <4>1 DEF Commits, CredCommit, C!Next, C!RequestStep, C!RequestEnds,
                          C!RetryStep, C!RetryEnds
    <3> QED
      BY <3>1, <3>2
  <2>8. ASSUME NEW p \in Proc, Raises(p) PROVE [C!Next]_C!vars
    <3>1. CASE cpc[p] = "idle"
      BY <2>0, <2>8, <3>1, SessionEnds DEF Raises
    <3>2. CASE cpc[p] # "idle"
      BY <2>8, <3>2 DEF Raises, CredRollback, C!Abort, C!Next
    <3> QED
      BY <3>1, <3>2
  <2> QED
    BY <2>1, <2>2, <2>3, <2>4, <2>5, <2>6, <2>7, <2>8
       DEF BotNext, HandlerSteps, JobSteps, Token
<1> QED
  BY <1>1, <1>2, BotInvariance, PTL DEF BotSpec, CredentialsKept, C!Spec

(* Committed credentials change when time passes and when sessions commit. *)
LEMMA CredChange ==
  ASSUME BotInv, [BotNext]_botVars, NEW u \in Users, crow[u] # "none", crow'[u] = "none"
  PROVE  \E p \in Proc : /\ Commits(p)
                         /\ cuser[p] = u /\ cdraft[p] = "none"
<1> USE DEF BotInv, CredFunctions
<1>1. CASE World \/ (\E h \in Handlers : HandlerWorks(h)) \/ JobWorks \/ UNCHANGED botVars
  BY <1>1 DEF World, HandlerWorks, JobWorks, botVars, credVars
<1>2. CASE Ages
  BY <1>2 DEF Ages, C!Age, C!Revoke, C!dbVars
<1>3. CASE Dies
  BY <1>3 DEF Dies, C!Crash
<1>4. ASSUME NEW p \in Proc, Token(p) PROVE crow' = crow
  BY <1>4, TokenMoves DEF Token, BeginToken, TokenWork, EndToken, C!StartSync, C!dbVars,
                          credVars
<1>5. ASSUME NEW p \in Proc, Raises(p) PROVE crow' = crow
  BY <1>5 DEF Raises, CredRollback, C!Rollback
<1>6. ASSUME NEW p \in Proc, Commits(p) PROVE cuser[p] = u /\ cdraft[p] = "none"
  BY <1>6, Processes DEF Commits, CredCommit, C!Commit
<1> QED
  BY <1>1, <1>2, <1>3, <1>4, <1>5, <1>6
     DEF BotNext, HandlerSteps, JobSteps, Proc

(* The commit that publishes the deletion of refused credentials publishes *)
(* the failure of the event its handler was syncing.                       *)
THEOREM RefusalsFail == BotSpec => RefusalFailsTheEvent
<1>1. IInv /\ BotInv /\ [BotNext]_botVars
        => [\A h \in Handlers :
              \A u \in Users : crow[u] # "none" /\ crow'[u] = "none" /\ cholder[u] = h
                                => row'[ev[h]].status = "failed"]_botVars
  <2> SUFFICES ASSUME IInv, BotInv, [BotNext]_botVars, NEW h \in Handlers, NEW u \in Users,
                      crow[u] # "none", crow'[u] = "none", cholder[u] = h
               PROVE  row'[ev[h]].status = "failed"
    OBVIOUS
  <2>1. PICK p \in Proc : Commits(p) /\ cuser[p] = u /\ cdraft[p] = "none"
    BY CredChange
  <2>2. cholder[u] = p /\ cpc[p] = "nil"
    BY <2>1, Processes DEF BotInv, CredLockInv
  <2>3. p = h /\ HandlerCommit(h) /\ pc[h] = "commit"
    BY <2>1, <2>2, ProcAssumption DEF Commits, HandlerCommit, Proc
  <2>4. holder[ev[h]] = h /\ draft[ev[h]].status = "failed" /\ ev[h] \in Events
    BY <2>2, <2>3 DEF BotInv, NilInv, IInv, TypeOK, Proc
  <2> QED
    BY <2>3, <2>4 DEF HandlerCommit, Commit
<1> QED
  BY <1>1, BotInvariance, PTL DEF BotSpec, RefusalFailsTheEvent

-----------------------------------------------------------------------------
(* What is proved of the parts holds of the whole.  CP is C together with  *)
(* the theorems about it; that both are one specification is seen when all *)
(* definitions are expanded.                                               *)
CP == INSTANCE CredentialsProofs
       WITH Requests <- Handlers, RetryJob <- Job, Troubled <- {},
            row <- crow, holder <- cholder, draft <- cdraft,
            pc <- cpc, user <- cuser, batch <- cbatch, faults <- cfaults

LEMMA SameSpec == C!Spec <=> CP!Spec
<1>1. C!Init <=> CP!Init
  BY DEF C!Init, CP!Init, C!Proc, CP!Proc, C!Cred, CP!Cred
<1>2. [C!Next]_C!vars <=> [CP!Next]_CP!vars
  BY DEF
       C!Proc, C!Cred, C!dbVars, C!procVars, C!vars, C!Outcome, C!View,
       C!CanLock, C!Write, C!EndTransaction, C!Commit, C!Rollback, C!Goto,
       C!Fault, C!StillValid, C!LoadRow, C!Due, C!Deletes, C!AfterAnswer,
       C!Answered, C!AskGoogle,
       C!StoreLoad, C!RowStillThere, C!StoreFlush, C!DeleteLoad, C!DeleteFlush,
       C!TokenStep, C!StartSync, C!Disconnect, C!RequestEnds, C!Abort,
       C!StartCallback, C!Exchange, C!Upsert, C!ShowPage, C!RetryEnds,
       C!ExpiringSoon, C!RefreshSelect, C!RefreshNext, C!AfterError,
       C!RefreshEnds, C!Age, C!Revoke, C!Crash, C!RequestStep, C!RetryStep,
       C!RefreshStep, C!Next,
       CP!Proc, CP!Cred, CP!dbVars, CP!procVars, CP!vars, CP!Outcome, CP!View,
       CP!CanLock, CP!Write, CP!EndTransaction, CP!Commit, CP!Rollback, CP!Goto,
       CP!Fault, CP!StillValid, CP!LoadRow, CP!Due, CP!Deletes,
       CP!AfterAnswer, CP!Answered, CP!AskGoogle,
       CP!StoreLoad, CP!RowStillThere, CP!StoreFlush, CP!DeleteLoad,
       CP!DeleteFlush, CP!TokenStep, CP!StartSync, CP!Disconnect,
       CP!RequestEnds, CP!Abort, CP!StartCallback, CP!Exchange, CP!Upsert,
       CP!ShowPage, CP!RetryEnds, CP!ExpiringSoon, CP!RefreshSelect,
       CP!RefreshNext, CP!AfterError, CP!RefreshEnds, CP!Age, CP!Revoke,
       CP!Crash, CP!RequestStep, CP!RetryStep, CP!RefreshStep, CP!Next
<1> QED
  BY <1>1, <1>2, PTL DEF C!Spec, CP!Spec

(* In the composition, too, a credential is deleted for a cause only and   *)
(* stays deleted, and is renewed only while it exists: whatever sync_event does around get_valid_token, whose   *)
(* session the button handlers and the retry job end together with the     *)
(* event's.                                                                *)
THEOREM CredentialsOfTheWhole ==
  BotSpec => C!CredentialsGoForACause /\ C!NoResurrection /\ C!PromiseKept
<1>1. CP!TroubledAssumption /\ CP!ProcAssumption /\ CP!FaultAssumption
  BY ProcAssumption, RefreshAssumption, BoundAssumption
     DEF CP!TroubledAssumption, CP!ProcAssumption, CP!FaultAssumption, CP!Proc, CP!Cred,
         C!Cred, Proc
<1>2. CP!Spec => CP!CredentialsGoForACause /\ CP!NoResurrection /\ CP!PromiseKept
  BY <1>1, CP!RowsGoForACause, CP!NoRowReturns, CP!PromiseIsKept
<1>3. CP!CredentialsGoForACause => C!CredentialsGoForACause
  BY PTL DEF C!CredentialsGoForACause, CP!CredentialsGoForACause, C!Cause, CP!Cause,
             C!vars, CP!vars, C!dbVars, CP!dbVars, C!procVars, CP!procVars
<1>4. CP!NoResurrection => C!NoResurrection
  BY PTL DEF C!NoResurrection, CP!NoResurrection,
             C!vars, CP!vars, C!dbVars, CP!dbVars, C!procVars, CP!procVars
<1>5. CP!PromiseKept => C!PromiseKept
  BY PTL DEF C!PromiseKept, CP!PromiseKept, C!Promise!Spec, CP!Promise!Spec,
             C!Promise!Init, CP!Promise!Init, C!Promise!Next, CP!Promise!Next,
             C!Promise!Age, CP!Promise!Age, C!Promise!Revoke, CP!Promise!Revoke,
             C!Promise!Leave, CP!Promise!Leave, C!Promise!Refuse, CP!Promise!Refuse,
             C!Promise!Renew, CP!Promise!Renew,
             C!Promise!Remove, CP!Promise!Remove, C!Promise!vars, CP!Promise!vars
<1> QED
  BY <1>2, <1>3, <1>4, <1>5, SameSpec, CredentialsAreKept DEF CredentialsKept

(* The rows of events, too, keep their promises in the composition.        *)
THEOREM EventsOfTheWhole ==
  BotSpec => /\ [](SyncedIsInCalendar /\ NoEventWithoutConfirmation /\ FailureIsCounted)
             /\ ConfirmIsSavedBeforeAck /\ ExternalIdKept /\ PromiseKept
<1>1. Spec => [](SyncedIsInCalendar /\ NoEventWithoutConfirmation /\ FailureIsCounted)
  BY SyncedIsTrue, ConsentIsRespected, FailuresAreCounted, PTL
<1> QED
  BY <1>1, EventsAreKept, AcksAreHonest, IdsAreKept, PromiseIsKept
=============================================================================
