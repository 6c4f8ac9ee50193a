--------------------------------- MODULE Bot ---------------------------------
(***************************************************************************)
(* EventSync and Credentials in one process and over one database.         *)
(* sync_event's call of get_valid_token runs step by step in the session   *)
(* of its caller, so a session may hold two row locks, the event's and the *)
(* credential's, taken in either order; it keeps a connection of the pool  *)
(* from its first statement to its end, the calls to Google included; and  *)
(* it commits or rolls back both tables at once.                           *)
(***************************************************************************)
EXTENDS EventSync, FiniteSets

CONSTANTS
  Owner,       \* function: the user an event belongs to
  RefreshJob,  \* refresh_expiring_tokens, which Credentials knows of
  PoolSize     \* pool_size=5, max_overflow=10

Users == {Owner[e] : e \in Events}

ASSUME PoolAssumption == PoolSize \in Nat \ {0}

VARIABLES crow, cholder, cdraft, grant, causes, cpc, cuser, cbatch, cfaults

credVars == <<crow, cholder, cdraft, grant, causes, cpc, cuser, cbatch, cfaults>>

C == INSTANCE Credentials
       WITH Requests <- Handlers, RetryJob <- Job, Troubled <- {},
            row <- crow, holder <- cholder, draft <- cdraft,
            pc <- cpc, user <- cuser, batch <- cbatch, faults <- cfaults

botVars == <<vars, credVars>>

ASSUME RefreshAssumption == /\ RefreshJob \notin Proc \cup {NONE}
                            /\ NONE \notin C!Cred

-----------------------------------------------------------------------------
(* Connections *)

(* A session has a connection from its first statement until its commit or *)
(* rollback; "Cancel" executes no statement.                               *)
Connected(p) ==
  \/ p \in Handlers /\ pc[p] \notin {"idle", "confirm_load", "ack"} /\ say[p] # "cancelled"
  \/ p = Job /\ pc[p] \notin {"idle", "next", "sync_load", "fail_load"}

HasRoom == Cardinality({p \in Proc : Connected(p)}) < PoolSize

-----------------------------------------------------------------------------
(* get_valid_token in the session of sync_event's caller *)

BeginToken(p) == /\ pc[p] = "token"
                 /\ C!StartSync(p, Owner[ev[p]])
                 /\ UNCHANGED vars

TokenWork(p) == /\ pc[p] = "token"
                /\ C!TokenStep(p)
                /\ UNCHANGED vars

(* What sync_event does with the token, None or GoogleApiError.            *)
(* Names with a suffix are mistakes one could make here; no action uses    *)
(* them, the runs are shown to notice each of them.                        *)
AfterToken_noneIsError(p) ==
  CASE cpc[p] = "got" -> "insert"
    [] OTHER          -> IF p = Job THEN "undo" ELSE "reply"
AfterToken(p) ==
  CASE cpc[p] = "got"   -> "insert"
    [] cpc[p] = "nil"   -> "mark_failed"
    [] cpc[p] = "error" -> IF p = Job THEN "undo" ELSE "reply"

EndToken(p) == /\ cpc[p] \in C!Outcome
               /\ GetToken(p)
               /\ pc'[p] = AfterToken(p)
               /\ UNCHANGED credVars

Token(p) == BeginToken(p) \/ TokenWork(p) \/ EndToken(p)

-----------------------------------------------------------------------------
(* Sessions end for both tables *)

CredCommit(p) == /\ C!Commit(p)
                 /\ C!Goto(p, "idle")
                 /\ UNCHANGED <<grant, causes, cuser, cbatch, cfaults>>

CredRollback_commits(p) == CredCommit(p)
CredRollback_forgets(p) == /\ C!Goto(p, "idle")
                           /\ cdraft' = [cdraft EXCEPT ![p] = NONE]
                           /\ UNCHANGED <<crow, cholder, grant, causes, cuser, cbatch, cfaults>>
CredRollback(p) == /\ C!Rollback(p)
                   /\ C!Goto(p, "idle")
                   /\ UNCHANGED <<grant, causes, cuser, cbatch, cfaults>>

Commits(p) == /\ CredCommit(p)
              /\ \/ p \in Handlers /\ HandlerCommit(p)
                 \/ p = Job /\ JobCommit

Raises(p) == /\ CredRollback(p)
             /\ \/ p \in Handlers /\ HandlerRaises(p)
                \/ p = Job /\ JobRaises

Dies == Crash /\ C!Crash

-----------------------------------------------------------------------------
(* The steps that concern one of the two parts *)

(* First statements wait for a connection, the others have it. *)
HandlerWorks(h) ==
  /\ \/ ConfirmLoad(h) /\ HasRoom
     \/ ConfirmFlush(h) \/ SyncLoad(h) \/ SendInsert(h) \/ InsertReturns(h)
     \/ MarkSynced(h) \/ MarkFailed(h) \/ ReplyToUser(h) \/ Ack(h)
  /\ UNCHANGED credVars

JobWorks ==
  /\ \/ (SyncLoad(Job) \/ JobFailLoad) /\ HasRoom
     \/ JobSelect /\ HasRoom
     \/ JobNext \/ SendInsert(Job) \/ InsertReturns(Job)
     \/ MarkSynced(Job) \/ MarkFailed(Job)
     \/ JobFailFlush \/ JobFailCommit
  /\ UNCHANGED credVars

World ==
  /\ \/ \E e \in Events : EventStep(e)
     \/ \E u \in Update : Tap(u) \/ Dismiss(u)
     \/ \E h \in Handlers : Timeout(h) \/ \E u \in Update : Deliver(h, u)
     \/ JobFailRaises
  /\ UNCHANGED credVars

(* Access tokens expire, users withdraw their grants. *)
Ages == UNCHANGED vars /\ \E u \in Users : C!Age(u) \/ C!Revoke(u)

HandlerSteps(h) == HandlerWorks(h) \/ Token(h) \/ Commits(h)
JobSteps        == JobWorks \/ Token(Job) \/ Commits(Job)

-----------------------------------------------------------------------------
(* Row locks across the two tables *)

Waits(p) ==
  \/ /\ \/ pc[p] = "confirm_flush" /\ copy[p].status # "confirmed"
        \/ pc[p] \in {"mark_synced", "mark_failed", "fail_flush"}
     /\ ~CanLock(p)
  \/ pc[p] = "token" /\ cpc[p] \in {"store_flush", "delete_flush"} /\ ~C!CanLock(p)

WaitsFor(p, q) ==
  /\ Waits(p)
  /\ q = IF pc[p] = "token" THEN cholder[cuser[p]] ELSE holder[ev[p]]

(* PostgreSQL ends a circle of waiting sessions by an error in one of them. *)
Deadlocked(p) == \E q \in Proc : WaitsFor(p, q) /\ WaitsFor(q, p)

BotInit == Init /\ C!Init

BotNext == \/ World \/ Ages \/ Dies
           \/ \E h \in Handlers : HandlerSteps(h)
           \/ JobSteps
           \/ \E p \in Proc : Raises(p)

BotSpec == BotInit /\ [][BotNext]_botVars

(* An exception is certain when Telegram refuses to edit a message that is *)
(* gone or says the same, when the job's sync has failed, in a deadlock.   *)
MustRaise(p) ==
  \/ /\ pc[p] = "reply"
     /\ \/ card[ev[p]] = "gone"
        \/ card[ev[p]] = say[p] /\ say[p] # "failed"
  \/ pc[p] = "undo"
  \/ Deadlocked(p)

Goes(p) == \/ p \in Handlers /\ HandlerSteps(p)
           \/ p = Job /\ JobSteps
           \/ MustRaise(p) /\ Raises(p)

(* Every process goes on when it can; those that wait for a row lock or    *)
(* for a connection queue for it, hence strong fairness.                   *)
BotFairness == \A p \in Proc : SF_botVars(Goes(p))

FairBot == BotSpec /\ BotFairness

-----------------------------------------------------------------------------
(* Properties *)

(* A row lock of either table belongs to a session that has a connection   *)
(* and will end: what waits for the pool holds no lock, so a full pool     *)
(* cannot stop those that have a connection.                               *)
LocksHaveSessions ==
  /\ \A e \in Events : holder[e] # NONE => Connected(holder[e])
  /\ \A u \in Users : cholder[u] # NONE => Connected(cholder[u])

(* Nobody waits for a row in vain: among the next three along the chain of *)
(* waits from a session is one that goes on, or one of a pair that waits   *)
(* for each other, which PostgreSQL breaks.  A circle of more than two     *)
(* cannot come about, although two tables are locked in either order.      *)
Ends(p) == Connected(p) /\ (~Waits(p) \/ Deadlocked(p))

WaitsEnd ==
  \A p \in Proc : Waits(p) =>
    \E q \in Proc :
      /\ WaitsFor(p, q)
      /\ \/ Ends(q)
         \/ \E r \in Proc : /\ WaitsFor(q, r)
                           /\ \/ Ends(r)
                              \/ \E s \in Proc : WaitsFor(r, s) /\ Ends(s)

(* When every connection is taken, one of those that have them goes on:    *)
(* they do not all wait for rows of each other while the rest wait for the *)
(* pool.                                                                   *)
FullPoolMoves == ~HasRoom => \E p \in Proc : Ends(p)

(* What the parts do together is what Credentials assumes of its callers:  *)
(* no path of sync_event commits, or rolls back, otherwise.                *)
CredentialsKept == C!Spec

(* A handler whose refresh is refused commits both consequences           *)
(* at once: the credentials are gone and the event is 'failed'.            *)
RefusalFailsTheEvent ==
  [][\A h \in Handlers :
       \A u \in Users : crow[u] # "none" /\ crow'[u] = "none" /\ cholder[u] = h
                         => row'[ev[h]].status = "failed"]_botVars

(* Every run of the retry job comes to an end, or APScheduler would start  *)
(* no other (max_instances=1): it waits for a connection while handlers    *)
(* wait for Google, and may wait for a handler's row while that handler    *)
(* waits for a row of the job's.                                           *)
JobEnds == pc[Job] # "idle" ~> pc[Job] = "idle"

-----------------------------------------------------------------------------
(* The inductive invariant behind the safety properties, beside EventSync's *)

CredFunctions ==
  /\ crow = [u \in Users |-> crow[u]]
  /\ cholder = [u \in Users |-> cholder[u]]
  /\ cdraft = [p \in C!Proc |-> cdraft[p]]
  /\ cpc = [p \in C!Proc |-> cpc[p]]
  /\ cuser \in [C!Proc -> Users]

(* Where a session is in sync_event, and where in get_valid_token: it has  *)
(* called it, is in it, or has its outcome until the session ends.         *)
Before == {"idle", "next", "confirm_load", "confirm_flush", "sync_load",
           "fail_load", "fail_flush", "fail_commit", "ack"}
Asking == {"load", "refresh", "store", "store_flush", "delete", "delete_flush"}

TokenInv ==
  \A p \in Proc :
    /\ cpc[p] \in {"idle"} \cup Asking \cup C!Outcome
    /\ cpc[p] \in Asking => pc[p] = "token"
    /\ pc[p] \in Before => cpc[p] = "idle"
    /\ pc[p] \in {"insert", "await_insert", "mark_synced"} => cpc[p] = "got"
    /\ p = Job /\ pc[p] = "commit" => cpc[p] \in {"idle", "got"}

(* Without a token and without an exception the event has been failed.     *)
NilInv ==
  \A h \in Handlers :
    cpc[h] = "nil" /\ pc[h] \in {"reply", "commit"}
      => holder[ev[h]] = h /\ draft[ev[h]].status = "failed"

(* Credentials are locked by the sessions that have changed them, and they *)
(* by these sessions only.                                                 *)
CredLockInv ==
  /\ \A u \in Users : cholder[u] # NONE =>
       cholder[u] \in Proc /\ cuser[cholder[u]] = u /\ cdraft[cholder[u]] # NONE
  /\ \A p \in Proc : cdraft[p] # NONE =>
       /\ cpc[p] \in {"got", "nil"}
       /\ cuser[p] \in Users
       /\ cholder[cuser[p]] = p
       /\ cdraft[p] = "none" => cpc[p] = "nil"

(* get_valid_token was called for the owner of the session's event.        *)
OwnerInv == \A p \in Proc : cpc[p] # "idle" => cuser[p] = Owner[ev[p]]

(* "Cancel" touches no row, and the retry job has none when it begins.     *)
UntouchedInv ==
  /\ \A h \in Handlers : say[h] = "cancelled" =>
       /\ pc[h] \in {"reply", "commit", "ack"}
       /\ cpc[h] = "idle"
       /\ \A e \in Events : holder[e] # h
  /\ pc[Job] = "sync_load" => \A e \in Events : holder[e] # Job

BotInv == CredFunctions /\ TokenInv /\ NilInv /\ CredLockInv /\ OwnerInv /\ UntouchedInv
=============================================================================
