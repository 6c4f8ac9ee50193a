----------------------------- MODULE Credentials -----------------------------
(***************************************************************************)
(* The oauth_credentials rows: who reads, refreshes and deletes them.      *)
(* AuthService.get_valid_token runs inside the session of a button handler *)
(* (sync_event), of the retry job or of the refresh job, and each of these *)
(* ends its session in a way of its own; /disconnect deletes the row; the  *)
(* OAuth callback upserts it.  Google's token endpoint answers between two *)
(* database steps, so every one of them may meet a row that has changed.   *)
(***************************************************************************)
EXTENDS Naturals

CONSTANTS
  Users,       \* ids of users; a user has at most one credential row
  Requests,    \* concurrent webhook and OAuth callback requests
  RetryJob,    \* retry_pending_events
  RefreshJob,  \* refresh_expiring_tokens
  Troubled,    \* users of whom Google is never asked with success: it raises
  NONE,
  MaxFaults    \* bound: failures of the network or of the database

Proc == Requests \cup {RetryJob, RefreshJob}

(* A row as far as it matters: does it exist, and how long does its access *)
(* token last: more than 5 minutes, less, or not at all.                   *)
Cred == {"none", "fresh", "expiring", "expired"}

ASSUME TroubledAssumption == Troubled \subseteq Users
ASSUME ProcAssumption == /\ RetryJob # RefreshJob
                         /\ {RetryJob, RefreshJob} \cap Requests = {}
                         /\ NONE \notin Proc \cup Cred
ASSUME FaultAssumption == MaxFaults \in Nat

VARIABLES
  row,       \* committed rows
  holder,    \* the process whose transaction has updated or deleted the row
  draft,     \* what the open transaction of a process made of it, or NONE
  grant,     \* the refresh token as Google, or the decryption, sees it
  causes,    \* who has sent /disconnect, whom the token endpoint refused
  pc, user,  \* where each process is, and for which user
  batch,     \* rows the refresh job has still to visit
  faults

dbVars   == <<row, holder, draft>>
procVars == <<pc, user>>
vars == <<dbVars, grant, causes, procVars, batch, faults>>

(* "got": a token was obtained; "nil": get_valid_token returned None;      *)
(* "error": an exception is on its way to the caller.                      *)
Outcome == {"got", "nil", "error"}
Points  == {"idle", "load", "refresh", "store", "store_flush", "delete", "delete_flush",
            "exchange", "upsert", "page", "next"} \cup Outcome

-----------------------------------------------------------------------------
(* Transactions: READ COMMITTED, one row per user *)

View(p) == IF draft[p] # NONE THEN draft[p] ELSE row[user[p]]

CanLock(p) == holder[user[p]] \in {NONE, p}

Write(p, r) == /\ CanLock(p)
               /\ holder' = [holder EXCEPT ![user[p]] = p]
               /\ draft' = [draft EXCEPT ![p] = r]
               /\ UNCHANGED row

EndTransaction(p) ==
  /\ draft' = [draft EXCEPT ![p] = NONE]
  /\ holder' = [u \in Users |-> IF holder[u] = p THEN NONE ELSE holder[u]]

(* Commit_blind and the other names with a suffix are mistakes one could   *)
(* make here; no action uses them, the runs are shown to notice each.      *)
Commit_blind(p) == /\ row' = [row EXCEPT ![user[p]] = draft[p]]
                   /\ EndTransaction(p)

Commit(p) == /\ row' = IF draft[p] = NONE THEN row
                                          ELSE [row EXCEPT ![user[p]] = draft[p]]
             /\ EndTransaction(p)

Rollback(p) == EndTransaction(p) /\ UNCHANGED row

Goto(p, point) == pc' = [pc EXCEPT ![p] = point]

Fault == faults < MaxFaults /\ faults' = faults + 1

-----------------------------------------------------------------------------
(* AuthService.get_valid_token *)

(* The row decides: none, not expired (an expiring token is as good as a   *)
(* fresh one), or expired, and then the refresh token must decrypt.  An    *)
(* access token that does not decrypt raises (for the others see Abort).   *)
StillValid_always(r) == r # "none"
StillValid(r) == r \in {"fresh", "expiring"}

LoadRow(p) ==
  /\ pc[p] = "load"
  /\ \/ View(p) = "none" /\ Goto(p, "nil")
     \/ StillValid(View(p)) /\ Goto(p, "got")
     \/ /\ p = RefreshJob
        /\ StillValid(View(p)) /\ grant[user[p]] = "corrupt"
        /\ Goto(p, "error")
     \/ /\ View(p) = "expired"
        /\ Goto(p, IF grant[user[p]] = "corrupt" THEN "delete" ELSE "refresh")
  /\ UNCHANGED <<dbVars, grant, causes, user, batch, faults>>

(* creds.refresh in a thread.  An error that the token endpoint answers is *)
(* a RefreshError: for a revoked grant, and, once google-auth has spent    *)
(* its retries, for a 429 or a 5xx.  A broken connection, say, is another  *)
(* exception; "incomplete" is a reply without token or expiry.             *)
Due(p) == IF user[p] \in Troubled THEN "exception"
          ELSE IF grant[user[p]] = "good" THEN "tokens" ELSE "refusal"

Deletes_anyError(answer) == answer \in {"refusal", "exception"}
Deletes(answer) == answer = "refusal"             \* except RefreshError

AfterAnswer(answer) == CASE Deletes(answer)       -> "delete"
                         [] answer = "tokens"     -> "store"
                         [] answer = "incomplete" -> "nil"
                         [] OTHER                 -> "error"

Answered(p, answer) ==
  /\ Goto(p, AfterAnswer(answer))
  /\ causes' = IF answer = "refusal" THEN causes \cup {<<user[p], "refused">>} ELSE causes

AskGoogle(p) ==
  /\ pc[p] = "refresh"
  /\ \/ Answered(p, Due(p)) /\ UNCHANGED faults
     \/ Fault /\ \E answer \in {"refusal", "incomplete", "exception"} : Answered(p, answer)
  /\ UNCHANGED <<dbVars, grant, user, batch>>

(* update_tokens: without a row there is nothing to update, and the token  *)
(* is returned all the same ...                                            *)
StoreLoad(p) ==
  /\ pc[p] = "store"
  /\ Goto(p, IF View(p) = "none" THEN "got" ELSE "store_flush")
  /\ UNCHANGED <<dbVars, grant, causes, user, batch, faults>>

(* ... and an UPDATE that finds the row deleted meanwhile is an error.     *)
RowStillThere_upserts(p) == TRUE
RowStillThere(p) == View(p) # "none"

StoreFlush(p) ==
  /\ pc[p] = "store_flush"
  /\ CanLock(p)
  /\ \/ RowStillThere(p) /\ Write(p, "fresh") /\ Goto(p, "got")
     \/ ~RowStillThere(p) /\ UNCHANGED dbVars /\ Goto(p, "error")
  /\ UNCHANGED <<grant, causes, user, batch, faults>>

(* delete_by_user_id, for a refused or corrupt refresh token and for       *)
(* /disconnect; a row that is gone already is no error.                    *)
DeleteLoad(p) ==
  /\ pc[p] = "delete"
  /\ Goto(p, IF View(p) = "none" THEN "nil" ELSE "delete_flush")
  /\ UNCHANGED <<dbVars, grant, causes, user, batch, faults>>

DeleteFlush(p) ==
  /\ pc[p] = "delete_flush"
  /\ Write(p, "none")
  /\ Goto(p, "nil")
  /\ UNCHANGED <<grant, causes, user, batch, faults>>

TokenStep(p) == LoadRow(p) \/ AskGoogle(p) \/ StoreLoad(p) \/ StoreFlush(p)
                  \/ DeleteLoad(p) \/ DeleteFlush(p)

-----------------------------------------------------------------------------
(* Webhook requests: a button press (sync_event) and /disconnect.  The     *)
(* middleware commits, whatever get_valid_token did, unless the handler    *)
(* raises later on.                                                        *)
StartSync(p, u) ==
  /\ p # RefreshJob
  /\ pc[p] = "idle"
  /\ Goto(p, "load")
  /\ user' = [user EXCEPT ![p] = u]
  /\ UNCHANGED <<dbVars, grant, causes, batch, faults>>

Disconnect(h, u) ==
  /\ pc[h] = "idle"
  /\ Goto(h, "delete")
  /\ user' = [user EXCEPT ![h] = u]
  /\ causes' = causes \cup {<<u, "disconnected">>}
  /\ UNCHANGED <<dbVars, grant, batch, faults>>

RequestEnds(h) ==
  /\ pc[h] \in Outcome
  /\ Commit(h) \/ Rollback(h)
  /\ Goto(h, "idle")
  /\ UNCHANGED <<grant, causes, user, batch, faults>>

(* Any await of a request or of the retry job raises something that its    *)
(* session does not survive.                                               *)
Abort(p) ==
  /\ p # RefreshJob
  /\ pc[p] # "idle"
  /\ Rollback(p)
  /\ Goto(p, "idle")
  /\ UNCHANGED <<grant, causes, user, batch, faults>>

(* The OAuth callback: exchange the code, upsert, show the success page.   *)
StartCallback(h, u) ==
  /\ pc[h] = "idle"
  /\ Goto(h, "exchange")
  /\ user' = [user EXCEPT ![h] = u]
  /\ UNCHANGED <<dbVars, grant, causes, batch, faults>>

Exchange(h) ==
  /\ pc[h] = "exchange"
  /\ Goto(h, "upsert") \/ Goto(h, "idle")
  /\ UNCHANGED <<dbVars, grant, causes, user, batch, faults>>

(* upsert inserts a row, without a lock, or updates the existing one.      *)
Upsert(h) ==
  /\ pc[h] = "upsert"
  /\ \/ /\ View(h) = "none"
        /\ draft' = [draft EXCEPT ![h] = "fresh"]
        /\ UNCHANGED <<row, holder>>
     \/ View(h) # "none" /\ Write(h, "fresh")
  /\ Goto(h, "page")
  /\ UNCHANGED <<grant, causes, user, batch, faults>>

(* get_session closes the session without a commit, which rolls it back.   *)
ShowPage(h) ==
  /\ pc[h] = "page"
  /\ Rollback(h)
  /\ Goto(h, "idle")
  /\ UNCHANGED <<grant, causes, user, batch, faults>>

-----------------------------------------------------------------------------
(* The jobs.  The retry job commits a sync that succeeded and rolls back   *)
(* any other; the refresh job commits unless an exception was raised.      *)
RetryEnds ==
  /\ pc[RetryJob] \in Outcome
  /\ \/ pc[RetryJob] = "got" /\ Commit(RetryJob)
     \/ Rollback(RetryJob)
  /\ Goto(RetryJob, "idle")
  /\ UNCHANGED <<grant, causes, user, batch, faults>>

ExpiringSoon(u) == row[u] \in {"expiring", "expired"}

RefreshSelect ==
  /\ pc[RefreshJob] = "idle"
  /\ \E u \in Users : ExpiringSoon(u)
  /\ batch' = {u \in Users : ExpiringSoon(u)}
  /\ Goto(RefreshJob, "next")
  /\ UNCHANGED <<dbVars, grant, causes, user, faults>>

RefreshNext ==
  /\ pc[RefreshJob] = "next"
  /\ \/ \E u \in batch : /\ batch' = batch \ {u}
                         /\ user' = [user EXCEPT ![RefreshJob] = u]
                         /\ Goto(RefreshJob, "load")
     \/ batch = {} /\ Goto(RefreshJob, "idle") /\ UNCHANGED <<batch, user>>
  /\ UNCHANGED <<dbVars, grant, causes, faults>>

(* What is left of the list when one credential has failed: the exception  *)
(* is caught inside the loop.                                              *)
AfterError_aborts(b) == {}
AfterError(b) == b

RefreshEnds ==
  /\ \/ /\ pc[RefreshJob] \in {"got", "nil"}
        /\ Commit(RefreshJob)
        /\ UNCHANGED <<batch, faults>>
     \/ /\ pc[RefreshJob] = "error"
        /\ Rollback(RefreshJob)
        /\ batch' = AfterError(batch)
        /\ UNCHANGED faults
     \/ /\ pc[RefreshJob] \in {"got", "nil"}
        /\ Fault                                   \* the commit raises
        /\ Rollback(RefreshJob)
        /\ batch' = AfterError(batch)
  /\ Goto(RefreshJob, "next")
  /\ UNCHANGED <<grant, causes, user>>

-----------------------------------------------------------------------------
(* Time passes; the user withdraws the grant in the Google account.        *)
Age(u) ==
  /\ row[u] \in {"fresh", "expiring"}
  /\ row' = [row EXCEPT ![u] = IF row[u] = "fresh" THEN "expiring" ELSE "expired"]
  /\ UNCHANGED <<holder, draft, grant, causes, procVars, batch, faults>>

Revoke(u) ==
  /\ grant[u] = "good"
  /\ grant' = [grant EXCEPT ![u] = "revoked"]
  /\ UNCHANGED <<dbVars, causes, procVars, batch, faults>>

(* The process dies, every open transaction rolls back. *)
Crash ==
  /\ Fault
  /\ draft' = [p \in Proc |-> NONE]
  /\ holder' = [u \in Users |-> NONE]
  /\ pc' = [p \in Proc |-> "idle"]
  /\ batch' = {}
  /\ UNCHANGED <<row, grant, causes, user>>

(* No path of the program commits a new row, so those that exist are from  *)
(* the start.                                                              *)
Init ==
  /\ row \in [Users -> Cred]
  /\ holder = [u \in Users |-> NONE]
  /\ draft = [p \in Proc |-> NONE]
  /\ grant \in [Users -> {"good", "corrupt"}]
  /\ causes = {}
  /\ pc = [p \in Proc |-> "idle"]
  /\ user \in {[p \in Proc |-> u] : u \in Users}
  /\ batch = {}
  /\ faults = 0

RequestStep(h) == TokenStep(h) \/ RequestEnds(h) \/ Exchange(h) \/ Upsert(h) \/ ShowPage(h)
RetryStep      == TokenStep(RetryJob) \/ RetryEnds
RefreshStep    == TokenStep(RefreshJob) \/ RefreshSelect \/ RefreshNext \/ RefreshEnds

Next == \/ \E u \in Users : Age(u) \/ Revoke(u)
        \/ \E p \in Proc, u \in Users : StartSync(p, u)
        \/ \E h \in Requests, u \in Users : Disconnect(h, u) \/ StartCallback(h, u)
        \/ \E h \in Requests : RequestStep(h)
        \/ RetryStep
        \/ RefreshStep
        \/ \E p \in Proc : Abort(p)
        \/ Crash

Spec == Init /\ [][Next]_vars

(* The event loop, the threads and the database go on; the jobs are        *)
(* scheduled for ever; waiters of a row lock are served in turn.           *)
Fairness ==
  /\ \A h \in Requests : /\ WF_vars(RequestStep(h))
                         /\ SF_vars(StoreFlush(h) \/ DeleteFlush(h) \/ Upsert(h))
  /\ WF_vars(RetryStep) /\ SF_vars(StoreFlush(RetryJob) \/ DeleteFlush(RetryJob))
  /\ WF_vars(RefreshStep) /\ SF_vars(StoreFlush(RefreshJob) \/ DeleteFlush(RefreshJob))

FairSpec == Spec /\ Fairness

-----------------------------------------------------------------------------
(* Properties *)

TypeOK ==
  /\ row \in [Users -> Cred]
  /\ holder \in [Users -> Proc \cup {NONE}]
  /\ draft \in [Proc -> Cred \cup {NONE}]
  /\ grant \in [Users -> {"good", "revoked", "corrupt"}]
  /\ causes \subseteq Users \X {"disconnected", "refused"}
  /\ pc \in [Proc -> Points]
  /\ user \in [Proc -> Users]
  /\ batch \subseteq Users
  /\ faults \in 0..MaxFaults

Cause(u) == \/ <<u, "disconnected">> \in causes
            \/ <<u, "refused">> \in causes
            \/ grant[u] = "corrupt"

(* Credentials vanish only for a cause: the user sent /disconnect, the     *)
(* token endpoint answered a refresh of theirs with an error, or the       *)
(* refresh token does not decrypt.  No broken connection, failed commit or *)
(* overlap of sessions loses them.                                         *)
CredentialsGoForACause ==
  [][\A u \in Users : row[u] # "none" /\ row'[u] = "none" => Cause(u)]_vars

(* Deleted credentials stay deleted: a refresh that was under way when     *)
(* they went does not write them back.                                     *)
NoResurrection ==
  [][\A u \in Users : row[u] = "none" => row'[u] = "none"]_vars

(* The rows keep the promise of CredentialPromise: renewed only while they *)
(* exist, and only by a refresh token that decrypts.                       *)
Promise == INSTANCE CredentialPromise
PromiseKept == Promise!Spec

(* One bad credential does not block the rest: an expired access token     *)
(* with a good grant is refreshed, whatever becomes of the others.         *)
ExpiredIsRefreshed ==
  \A u \in Users \ Troubled :
    row[u] = "expired" /\ grant[u] = "good"
      ~> row[u] \in {"fresh", "none"} \/ grant[u] # "good"

(* Credentials with a refused or corrupt refresh token are cleaned up once *)
(* their access token has expired.                                         *)
RefusedAreDeleted ==
  \A u \in Users \ Troubled :
    row[u] = "expired" /\ grant[u] # "good" ~> row[u] # "expired"

-----------------------------------------------------------------------------
(* The inductive invariant behind the safety properties                    *)

(* A lock belongs to a process that works on that row and has changed it.  *)
LockInv == \A u \in Users : holder[u] # NONE =>
             user[holder[u]] = u /\ draft[holder[u]] # NONE

Decrypted(u) == grant[u] # "corrupt"

(* What a session is about to commit: a refresh of a row that still exists *)
(* or a deletion for a cause, the row being locked; the callback's upsert  *)
(* alone may have no lock, and is never committed.                         *)
DraftInv == \A p \in Proc : draft[p] # NONE =>
  \/ pc[p] = "page"
  \/ /\ pc[p] \in {"got", "nil"}
     /\ holder[user[p]] = p
     /\ \/ draft[p] = "fresh" /\ row[user[p]] # "none" /\ Decrypted(user[p])
        \/ draft[p] = "none" /\ Cause(user[p])

(* Google is asked, and its token stored, for what decrypts.               *)
DecryptedInv ==
  \A p \in Proc : pc[p] \in {"refresh", "store", "store_flush"} => Decrypted(user[p])

CauseInv == \A p \in Proc : pc[p] \in {"delete", "delete_flush"} => Cause(user[p])

IInv == TypeOK /\ LockInv /\ DraftInv /\ DecryptedInv /\ CauseInv

-----------------------------------------------------------------------------
(* Claims of comments that the code does not keep (violation runs)         *)

(* auth_service.py 96-98: credentials are deleted when the refresh token   *)
(* is invalid.  They are on any error the token endpoint answers.          *)
GoodGrantsAreKept ==
  [][\A u \in Users :
       row[u] # "none" /\ row'[u] = "none"
         => <<u, "disconnected">> \in causes \/ grant[u] # "good"]_vars

(* oauth_callback.py 34: "persist the user's tokens".                      *)
CallbackPersists ==
  [][\A h \in Requests : ShowPage(h) => row'[user[h]] # "none"]_vars
=============================================================================
