----------------------------- MODULE EventSync ------------------------------
(***************************************************************************)
(* The life of an event: the preview sent by handle_text, the "Create" and *)
(* "Cancel" buttons (on_confirm_event, on_cancel_event), the two           *)
(* EventService steps behind them (confirm_event, sync_event), the retry   *)
(* job (retry_pending_events) and the transactions they run in.            *)
(*                                                                         *)
(* Concurrency.  Every webhook request runs DbSessionMiddleware with a     *)
(* session of its own; the retry job runs in the same event loop.  They    *)
(* meet only in the database (READ COMMITTED) and at Google, so one action *)
(* stands for the code between two awaits that touch either.  An UPDATE    *)
(* takes the row's lock until commit or rollback; a SELECT takes none and  *)
(* sees the newest committed row, or the transaction's own draft of it.    *)
(***************************************************************************)
EXTENDS Naturals

CONSTANTS
  Events,      \* ids of rows of the events table
  Handlers,    \* concurrent webhook requests
  Job,         \* the retry job: max_instances=1, so there is one
  NONE,        \* Python's None
  MaxTaps,     \* bound: button presses per preview card
  MaxFaults    \* bound: crashes, HTTP timeouts and failure sessions that fail

Proc == Handlers \cup {Job}

Status == {"absent", "pending", "confirmed", "synced", "failed"}

Row == [status      : Status,
        external_id : Events \cup {NONE},
        retry_count : Nat]

(* A button press as Telegram delivers it (again and again until a 200).   *)
Update == [kind : {"confirm", "cancel"}, event : Events, tap : 1..MaxTaps]

(* What a preview card shows: nothing yet, the two buttons, one of the     *)
(* texts the handlers edit in, or a message the user deleted.              *)
Reply == {"created", "failed", "notfound", "cancelled"}
Card  == {"unsent", "offered", "gone"} \cup Reply

(* A row is locked by process p only at these points of p.                 *)
SyncPoints    == {"token", "insert", "await_insert", "mark_synced", "mark_failed"}
HandlerPoints == {"idle", "confirm_load", "confirm_flush", "sync_load",
                  "reply", "commit", "ack"} \cup SyncPoints
JobPoints     == {"idle", "next", "sync_load", "commit", "undo",
                  "fail_load", "fail_flush", "fail_commit"} \cup SyncPoints

ASSUME EventAssumption  == NONE \notin Events
ASSUME ProcAssumption   == Job \notin Handlers /\ NONE \notin Proc
ASSUME UpdateAssumption == NONE \notin Update \cup Reply
ASSUME BoundAssumption  == MaxTaps \in Nat \ {0} /\ MaxFaults \in Nat

VARIABLES
  row,         \* committed rows of the events table
  holder,      \* the process whose open transaction has updated the row
  draft,       \* the row as that transaction sees it; the row when unlocked
  due,         \* events created more than 60 s ago
  creating,    \* handle_text between its message.answer and the commit
  card,        \* what Telegram shows for each event
  tapped,      \* every button press so far
  inbox,       \* presses Telegram has not had a 200 for
  pc,          \* where each process is
  ev,          \* the event it works on
  copy,        \* the ORM instance: the row as the process loaded it
  say,         \* the text a handler is about to edit into the card
  upd,         \* the press whose HTTP request still waits for a handler
  batch,       \* events the retry job has selected and not yet visited
  inflight,    \* events for which an insert request has left for Google
  calendar,    \* events in Google Calendar
  faults       \* faults so far

dbVars   == <<row, holder, draft>>
chatVars == <<card, tapped, inbox>>
procVars == <<pc, ev, copy, say, upd>>
googVars == <<inflight, calendar>>
vars == <<dbVars, due, creating, chatVars, procVars, batch, googVars, faults>>

-----------------------------------------------------------------------------
(* Rows and transactions *)

NewRow(s) == [status |-> s, external_id |-> NONE, retry_count |-> 0]

(* Mistakes one could make here (NAME_mistake); no action uses them, the   *)
(* runs are shown to notice each of them.                                  *)
FailedRow_countsDown(r, c) == [r EXCEPT !.status = "failed",
                                        !.retry_count = c.retry_count - 1]
FailedRow_notCounted(r, c) == [r EXCEPT !.status = "failed"]
FailedRow_allColumns(r, c) == [c EXCEPT !.status = "failed",
                                        !.retry_count = c.retry_count + 1]

(* The columns each UPDATE writes.  SQLAlchemy writes only the attributes  *)
(* that changed on the loaded instance, so the other columns keep the      *)
(* newest value, and retry_count is computed from the loaded copy.         *)
ConfirmedRow(r)     == [r EXCEPT !.status = "confirmed"]
SyncedRow(r, e)     == [r EXCEPT !.status = "synced", !.external_id = e]
FailedRow(r, c)     == [r EXCEPT !.status = "failed",
                                 !.retry_count = c.retry_count + 1]
CountedRow(r, c)    == [r EXCEPT !.retry_count = c.retry_count + 1]

View(p) == IF holder[ev[p]] = p THEN draft[ev[p]] ELSE row[ev[p]]

(* UPDATE ... WHERE id = ev[p]: waits for the row lock. *)
CanLock(p) == holder[ev[p]] \in {NONE, p}

Write(p, r) == /\ CanLock(p)
               /\ holder' = [holder EXCEPT ![ev[p]] = p]
               /\ draft' = [draft EXCEPT ![ev[p]] = r]
               /\ UNCHANGED row

Unlocked(p) == [e \in Events |-> IF holder[e] = p THEN NONE ELSE holder[e]]

Commit_forgotten(p) ==
  /\ draft' = [e \in Events |-> IF holder[e] = p THEN row[e] ELSE draft[e]]
  /\ holder' = Unlocked(p)
  /\ UNCHANGED row

Commit(p) == /\ row' = [e \in Events |-> IF holder[e] = p THEN draft[e] ELSE row[e]]
             /\ holder' = Unlocked(p)
             /\ UNCHANGED draft

Rollback_keepsDraft(p) == holder' = Unlocked(p) /\ UNCHANGED <<row, draft>>
Rollback_sessionLeft(p) == UNCHANGED dbVars

Rollback(p) == /\ draft' = [e \in Events |-> IF holder[e] = p THEN row[e] ELSE draft[e]]
               /\ holder' = Unlocked(p)
               /\ UNCHANGED row

Goto(p, point) == pc' = [pc EXCEPT ![p] = point]

Load(p, point) == /\ copy' = [copy EXCEPT ![p] = View(p)]
                  /\ Goto(p, point)
                  /\ UNCHANGED <<ev, say, upd>>

(* A process that finishes a session forgets its instance. *)
EndSession(p, point) == /\ Goto(p, point)
                        /\ copy' = [copy EXCEPT ![p] = NewRow("absent")]
                        /\ UNCHANGED <<ev, say>>

-----------------------------------------------------------------------------
(* The preview (events.py handle_text) and the user *)

(* The preview is sent before the row is committed (events.py 91-99)... *)
SendPreview(e) == /\ card[e] = "unsent"
                  /\ card' = [card EXCEPT ![e] = "offered"]
                  /\ creating' = creating \cup {e}
                  /\ UNCHANGED <<dbVars, due, tapped, inbox, procVars, batch, googVars, faults>>

(* ... by the middleware, after the handler has returned ...              *)
CommitPreview(e) == /\ e \in creating
                    /\ creating' = creating \ {e}
                    /\ row' = [row EXCEPT ![e] = NewRow("pending")]
                    /\ draft' = [draft EXCEPT ![e] = NewRow("pending")]
                    /\ UNCHANGED <<holder, due, chatVars, procVars, batch, googVars, faults>>

(* ... or never, when message.answer or the commit raises: the redelivered *)
(* text then makes another event with a card of its own.                   *)
AbortPreview(e) == /\ e \in creating
                   /\ creating' = creating \ {e}
                   /\ UNCHANGED <<dbVars, due, chatVars, procVars, batch, googVars, faults>>

Tap(u) == /\ card[u.event] = "offered"
          /\ u.tap = 1 \/ \E v \in tapped : v.event = u.event /\ v.tap = u.tap - 1
          /\ \A v \in tapped : v.event = u.event => v.tap < u.tap
          /\ tapped' = tapped \cup {u}
          /\ inbox' = inbox \cup {u}
          /\ UNCHANGED <<dbVars, due, creating, card, procVars, batch, googVars, faults>>

DeleteCard(e) == /\ card[e] \notin {"unsent", "gone"}
                 /\ card' = [card EXCEPT ![e] = "gone"]
                 /\ UNCHANGED <<dbVars, due, creating, tapped, inbox, procVars, batch, googVars, faults>>

(* created_at falls behind get_pending_for_retry's cutoff. *)
Age(e) == /\ row[e].status # "absent"
          /\ e \notin due
          /\ due' = due \cup {e}
          /\ UNCHANGED <<dbVars, creating, chatVars, procVars, batch, googVars, faults>>

-----------------------------------------------------------------------------
(* The callback handlers, each in a webhook request and a session.  Update *)
(* u is delivered when no request of Telegram's is waiting for it.         *)

IsConfirm_always(u) == TRUE
IsConfirm(u) == u.kind = "confirm"

(* on_confirm_event goes on to confirm_event; on_cancel_event only edits.  *)
Deliver(h, u) ==
  /\ pc[h] = "idle"
  /\ u \in inbox
  /\ \A g \in Handlers : upd[g] # u
  /\ Goto(h, IF IsConfirm(u) THEN "confirm_load" ELSE "reply")
  /\ ev' = [ev EXCEPT ![h] = u.event]
  /\ say' = [say EXCEPT ![h] = IF IsConfirm(u) THEN NONE ELSE "cancelled"]
  /\ upd' = [upd EXCEPT ![h] = u]
  /\ UNCHANGED <<dbVars, due, creating, chatVars, copy, batch, googVars, faults>>

(* The message the button belongs to is inaccessible: the handler returns  *)
(* at once and the update is acknowledged.                                 *)
Dismiss(u) == /\ u \in inbox
              /\ \A g \in Handlers : upd[g] # u
              /\ card[u.event] = "gone"
              /\ inbox' = inbox \ {u}
              /\ UNCHANGED <<dbVars, due, creating, card, tapped, procVars, batch, googVars, faults>>

(* confirm_event: update_status loads the row ... *)
ConfirmLoad(h) ==
  /\ pc[h] = "confirm_load"
  /\ \/ /\ View(h).status = "absent"
        /\ Goto(h, "reply")
        /\ say' = [say EXCEPT ![h] = "notfound"]
        /\ UNCHANGED <<ev, copy, upd>>
     \/ /\ View(h).status # "absent"
        /\ Load(h, "confirm_flush")
  /\ UNCHANGED <<dbVars, due, creating, chatVars, batch, googVars, faults>>

(* ... and flushes it, which is no UPDATE at all, and takes no lock, when  *)
(* the loaded status is "confirmed" already.                               *)
ConfirmFlush(h) ==
  /\ pc[h] = "confirm_flush"
  /\ Goto(h, "sync_load")
  /\ IF copy[h].status = "confirmed" THEN UNCHANGED dbVars
                                     ELSE Write(h, ConfirmedRow(draft[ev[h]]))
  /\ UNCHANGED <<due, creating, chatVars, ev, copy, say, upd, batch, googVars, faults>>

(* The handler's edit_text.  Telegram rejects it when the message is gone  *)
(* or already shows that text; the handler then raises (HandlerRaises).    *)
ReplyToUser(h) ==
  /\ pc[h] = "reply"
  /\ card[ev[h]] # "gone"
  /\ card[ev[h]] = say[h] => say[h] = "failed"      \* two different texts
  /\ card' = [card EXCEPT ![ev[h]] = say[h]]
  /\ Goto(h, "commit")
  /\ UNCHANGED <<dbVars, due, creating, tapped, inbox, ev, copy, say, upd, batch, googVars, faults>>

(* DbSessionMiddleware commits after the handler has returned ... *)
HandlerCommit(h) ==
  /\ pc[h] = "commit"
  /\ Commit(h)
  /\ EndSession(h, "ack")
  /\ UNCHANGED <<due, creating, chatVars, upd, batch, googVars, faults>>

(* ... and the webhook answers 200. *)
Ack(h) == /\ pc[h] = "ack"
          /\ inbox' = inbox \ {upd[h]}
          /\ Goto(h, "idle")
          /\ upd' = [upd EXCEPT ![h] = NONE]
          /\ say' = [say EXCEPT ![h] = NONE]
          /\ UNCHANGED <<dbVars, due, creating, card, tapped, ev, copy, batch, googVars, faults>>

(* Any await of the handler raises something it does not catch: the        *)
(* session rolls back, the webhook answers 500, Telegram will redeliver.   *)
HandlerRaises(h) ==
  /\ pc[h] \notin {"idle", "ack"}
  /\ Rollback(h)
  /\ Goto(h, "idle")
  /\ copy' = [copy EXCEPT ![h] = NewRow("absent")]
  /\ say' = [say EXCEPT ![h] = NONE]
  /\ upd' = [upd EXCEPT ![h] = NONE]
  /\ UNCHANGED <<due, creating, chatVars, ev, batch, googVars, faults>>

(* The HTTP request times out: Telegram will redeliver, the handler runs on. *)
Timeout(h) == /\ upd[h] # NONE
              /\ faults < MaxFaults
              /\ faults' = faults + 1
              /\ upd' = [upd EXCEPT ![h] = NONE]
              /\ UNCHANGED <<dbVars, due, creating, chatVars, pc, ev, copy, say, batch, googVars>>

-----------------------------------------------------------------------------
(* EventService.sync_event, called by a handler or by the retry job *)

Syncable(r) == r.status = "confirmed"

(* The event is loaded anew; one that is not confirmed is skipped, which   *)
(* the callers cannot tell from a success.                                 *)
SyncLoad(p) ==
  /\ pc[p] = "sync_load"
  /\ \/ /\ Syncable(View(p))
        /\ Load(p, "token")
     \/ /\ ~Syncable(View(p))
        /\ Goto(p, IF p = Job THEN "commit" ELSE "reply")
        /\ say' = [say EXCEPT ![p] = IF p = Job THEN NONE ELSE "created"]
        /\ UNCHANGED <<ev, copy, upd>>
  /\ UNCHANGED <<dbVars, due, creating, chatVars, batch, googVars, faults>>

(* get_valid_token: a token, None, or a GoogleApiError, which this call is *)
(* not guarded against: no failure is recorded on that path.               *)
GetToken(p) ==
  /\ pc[p] = "token"
  /\ \/ Goto(p, "insert") /\ UNCHANGED say
     \/ /\ Goto(p, "mark_failed")
        /\ say' = [say EXCEPT ![p] = IF p = Job THEN NONE ELSE "failed"]
     \/ /\ Goto(p, IF p = Job THEN "undo" ELSE "reply")
        /\ say' = [say EXCEPT ![p] = IF p = Job THEN NONE ELSE "failed"]
  /\ UNCHANGED <<dbVars, due, creating, chatVars, ev, copy, upd, batch, googVars, faults>>

(* create_event sends the insert (three times at most, one id: CalendarClient) ... *)
SendInsert(p) ==
  /\ pc[p] = "insert"
  /\ inflight' = inflight \cup {ev[p]}
  /\ Goto(p, "await_insert")
  /\ UNCHANGED <<dbVars, due, creating, chatVars, ev, copy, say, upd, batch, calendar, faults>>

(* ... Google applies it, perhaps after the caller has given up ... *)
GoogleInsert(e) == /\ e \in inflight \ calendar
                   /\ calendar' = calendar \cup {e}
                   /\ UNCHANGED <<dbVars, due, creating, chatVars, procVars, batch, inflight, faults>>

(* ... and the call returns the event's id or raises GoogleApiError.  Any  *)
(* other exception is HandlerRaises or JobRaises.                          *)
InsertOk_unasked(e) == TRUE
InsertOk(e) == e \in calendar

InsertReturns(p) ==
  /\ pc[p] = "await_insert"
  /\ \/ /\ InsertOk(ev[p])
        /\ Goto(p, "mark_synced")
        /\ UNCHANGED say
     \/ /\ Goto(p, "mark_failed")
        /\ say' = [say EXCEPT ![p] = IF p = Job THEN NONE ELSE "failed"]
  /\ UNCHANGED <<dbVars, due, creating, chatVars, ev, copy, upd, batch, googVars, faults>>

MarkSynced(p) ==
  /\ pc[p] = "mark_synced"
  /\ Write(p, SyncedRow(draft[ev[p]], ev[p]))
  /\ Goto(p, IF p = Job THEN "commit" ELSE "reply")
  /\ say' = [say EXCEPT ![p] = IF p = Job THEN NONE ELSE "created"]
  /\ UNCHANGED <<due, creating, chatVars, ev, copy, upd, batch, googVars, faults>>

(* _mark_failed flushes, then the exception goes on to the caller: a       *)
(* handler replies and its middleware commits, the job's session undoes.   *)
MarkFailed(p) ==
  /\ pc[p] = "mark_failed"
  /\ Write(p, FailedRow(draft[ev[p]], copy[p]))
  /\ Goto(p, IF p = Job THEN "undo" ELSE "reply")
  /\ UNCHANGED <<due, creating, chatVars, ev, copy, say, upd, batch, googVars, faults>>

-----------------------------------------------------------------------------
(* The retry job *)

RetryDue_young(e)      == row[e].status = "confirmed" /\ e \notin due
RetryDue_unconfirmed(e) == row[e].status \in {"pending", "confirmed"} /\ e \in due
RetryDue(e) == row[e].status = "confirmed" /\ e \in due

JobSelect ==
  /\ pc[Job] = "idle"
  /\ \E e \in Events : RetryDue(e)
  /\ batch' = {e \in Events : RetryDue(e)}
  /\ Goto(Job, "next")
  /\ UNCHANGED <<dbVars, due, creating, chatVars, ev, copy, say, upd, googVars, faults>>

JobNext ==
  /\ pc[Job] = "next"
  /\ \/ \E e \in batch : /\ batch' = batch \ {e}
                         /\ ev' = [ev EXCEPT ![Job] = e]
                         /\ Goto(Job, "sync_load")
     \/ /\ batch = {}
        /\ Goto(Job, "idle")
        /\ UNCHANGED <<batch, ev>>
  /\ UNCHANGED <<dbVars, due, creating, chatVars, copy, say, upd, googVars, faults>>

JobCommit ==
  /\ pc[Job] = "commit"
  /\ Commit(Job)
  /\ EndSession(Job, "next")
  /\ UNCHANGED <<due, creating, chatVars, upd, batch, googVars, faults>>

(* Any exception in the sync session, those of sync_event included.        *)
JobRaises ==
  /\ pc[Job] \in {"sync_load", "commit", "undo"} \cup SyncPoints
  /\ Rollback(Job)
  /\ EndSession(Job, "fail_load")
  /\ UNCHANGED <<due, creating, chatVars, upd, batch, googVars, faults>>

(* The failure session: update_status(..., "failed") and increment_retry.  *)
JobFailLoad ==
  /\ pc[Job] = "fail_load"
  /\ Load(Job, "fail_flush")
  /\ UNCHANGED <<dbVars, due, creating, chatVars, batch, googVars, faults>>

(* The first UPDATE locks the row, so the instance that increment_retry    *)
(* loads next has the newest count.  For a row loaded as "failed" that     *)
(* UPDATE writes no status: only last_error when the error is another, and *)
(* when it is the same there is none, and the count that is written is     *)
(* that of the unlocked load.                                              *)
JobFailFlush ==
  /\ pc[Job] = "fail_flush"
  /\ LET r == draft[ev[Job]]
     IN \/ copy[Job].status # "failed" /\ Write(Job, FailedRow(r, r))
        \/ /\ copy[Job].status = "failed"
           /\ \E c \in {r, copy[Job]} : Write(Job, CountedRow(r, c))
  /\ Goto(Job, "fail_commit")
  /\ UNCHANGED <<due, creating, chatVars, ev, copy, say, upd, batch, googVars, faults>>

JobFailCommit ==
  /\ pc[Job] = "fail_commit"
  /\ Commit(Job)
  /\ EndSession(Job, "next")
  /\ UNCHANGED <<due, creating, chatVars, upd, batch, googVars, faults>>

(* The failure session raises: logged, on to the next event. *)
JobFailRaises ==
  /\ pc[Job] \in {"fail_load", "fail_flush", "fail_commit"}
  /\ faults < MaxFaults
  /\ faults' = faults + 1
  /\ Rollback(Job)
  /\ EndSession(Job, "next")
  /\ UNCHANGED <<due, creating, chatVars, upd, batch, googVars>>

-----------------------------------------------------------------------------
(* The process dies: open transactions roll back, every request and the    *)
(* job are lost, Telegram will redeliver; requests to Google are on their  *)
(* way.  A restart has nothing to recover but the rows.                    *)
Crash ==
  /\ faults < MaxFaults
  /\ faults' = faults + 1
  /\ draft' = row
  /\ holder' = [e \in Events |-> NONE]
  /\ creating' = {}
  /\ pc' = [p \in Proc |-> "idle"]
  /\ copy' = [p \in Proc |-> NewRow("absent")]
  /\ say' = [p \in Proc |-> NONE]
  /\ upd' = [p \in Proc |-> NONE]
  /\ batch' = {}
  /\ UNCHANGED <<row, due, chatVars, ev, googVars>>

Init ==
  /\ row = [e \in Events |-> NewRow("absent")]
  /\ draft = row
  /\ holder = [e \in Events |-> NONE]
  /\ due = {}
  /\ creating = {}
  /\ card = [e \in Events |-> "unsent"]
  /\ tapped = {}
  /\ inbox = {}
  /\ pc = [p \in Proc |-> "idle"]
  /\ ev \in {[p \in Proc |-> e] : e \in Events}
  /\ copy = [p \in Proc |-> NewRow("absent")]
  /\ say = [p \in Proc |-> NONE]
  /\ upd = [p \in Proc |-> NONE]
  /\ batch = {}
  /\ inflight = {}
  /\ calendar = {}
  /\ faults = 0

EventStep(e) == SendPreview(e) \/ CommitPreview(e) \/ AbortPreview(e)
                  \/ DeleteCard(e) \/ Age(e) \/ GoogleInsert(e)

SyncStep(p) == SyncLoad(p) \/ GetToken(p) \/ SendInsert(p) \/ InsertReturns(p)
                  \/ MarkSynced(p) \/ MarkFailed(p)

HandlerStep(h) == ConfirmLoad(h) \/ ConfirmFlush(h) \/ SyncStep(h)
                    \/ ReplyToUser(h) \/ HandlerCommit(h) \/ Ack(h)

JobStep == JobSelect \/ JobNext \/ SyncStep(Job) \/ JobCommit \/ JobRaises
             \/ JobFailLoad \/ JobFailFlush \/ JobFailCommit

Next == \/ \E e \in Events : EventStep(e)
        \/ \E u \in Update : Tap(u) \/ Dismiss(u)
        \/ \E h \in Handlers :
             \/ \E u \in Update : Deliver(h, u)
             \/ HandlerStep(h)
             \/ HandlerRaises(h)
             \/ Timeout(h)
        \/ JobStep
        \/ JobFailRaises
        \/ Crash

Spec == Init /\ [][Next]_vars

(* The event loop runs every ready coroutine, Google is answered or timed  *)
(* out, the scheduler fires, time passes; PostgreSQL queues the waiters of *)
(* a row lock, hence strong fairness for the steps that take one.          *)
Fairness ==
  /\ \A e \in Events : WF_vars(Age(e))
  /\ \A h \in Handlers : /\ WF_vars(HandlerStep(h) \/ HandlerRaises(h))
                         /\ SF_vars(ConfirmFlush(h) \/ MarkSynced(h) \/ MarkFailed(h))
  /\ WF_vars(JobStep)
  /\ SF_vars(MarkSynced(Job) \/ MarkFailed(Job) \/ JobFailFlush)

FairSpec == Spec /\ Fairness

-----------------------------------------------------------------------------
(* Properties *)

TypeOK ==
  /\ row \in [Events -> Row]
  /\ draft \in [Events -> Row]
  /\ holder \in [Events -> Proc \cup {NONE}]
  /\ due \subseteq Events
  /\ creating \subseteq Events
  /\ card \in [Events -> Card]
  /\ tapped \subseteq Update
  /\ inbox \subseteq tapped
  /\ pc \in [Proc -> HandlerPoints \cup JobPoints]
  /\ pc[Job] \in JobPoints
  /\ \A h \in Handlers : pc[h] \in HandlerPoints
  /\ ev \in [Proc -> Events]
  /\ copy \in [Proc -> Row]
  /\ say \in [Proc -> Reply \cup {NONE}]
  /\ \A h \in Handlers :
       pc[h] \in {"mark_failed", "reply", "commit", "ack"} => say[h] \in Reply
  /\ upd \in [Proc -> Update \cup {NONE}]
  /\ batch \subseteq Events
  /\ inflight \subseteq Events
  /\ calendar \subseteq Events
  /\ faults \in 0..MaxFaults

Asked == {e \in Events : \E u \in tapped : u.event = e /\ u.kind = "confirm"}

(* A committed row says "synced", and carries Google's id, only when the   *)
(* event is in the calendar: late answers, stale instances and rolled-back *)
(* sessions never leave a row that /list would show for nothing.           *)
SyncedIsInCalendar ==
  \A e \in Events : row[e].status = "synced" => e \in calendar /\ row[e].external_id = e

(* Nothing is added to the calendar unless the user pressed "Create" for   *)
(* it, neither by a handler, nor by the retry job, nor by a late request.  *)
NoEventWithoutConfirmation == calendar \subseteq Asked

(* A failure that is on record was counted: the job undoes _mark_failed    *)
(* with its session, and the failure session must write both again.        *)
FailureIsCounted ==
  \A e \in Events : row[e].status = "failed" => row[e].retry_count >= 1

(* A press of "Create" is acknowledged (Telegram will not repeat it) only  *)
(* when it has left its mark in the database, unless its message is gone   *)
(* or its handler found no row: no crash, rollback, timeout or press being *)
(* handled at the same time makes the bot forget it.                       *)
ConfirmIsSavedBeforeAck ==
  [][\A u \in inbox \ inbox' :
       u.kind = "confirm" =>
         \/ card[u.event] = "gone"
         \/ \E h \in Handlers : upd[h] = u /\ say[h] = "notfound"
         \/ row[u.event].status \in {"confirmed", "synced", "failed"}]_vars

(* No commit ever loses Google's id of an event, although sessions with a  *)
(* stale instance of the row overwrite its status.                         *)
ExternalIdKept ==
  [][\A e \in Events : row[e].external_id # NONE
                         => row'[e].external_id = row[e].external_id]_vars

(* Sessions are isolated: a commit publishes one row, and neither the rows *)
(* of other events nor the drafts of other transactions move with it.      *)
SessionsAreIsolated ==
  [][\A e \in Events :
       row'[e] # row[e] =>
         \A f \in Events \ {e} : UNCHANGED <<row[f], draft[f], holder[f]>>]_vars

(* The rows keep the promise of EventPromise. *)
Promise == INSTANCE EventPromise
             WITH status <- [e \in Events |-> row[e].status], asked <- Asked
PromiseKept == Promise!Spec

(* A committed "confirmed" is picked up and settled by the retry job, if   *)
(* faults stop: the event is never stuck as 'confirmed' indefinitely.      *)
ConfirmedIsResolved ==
  \A e \in Events :
    row[e].status = "confirmed" ~> row[e].status \in {"synced", "failed"}

(* No open transaction keeps a row locked for ever, whatever its handler   *)
(* or job meets on the way.                                                *)
RowsAreReleased == \A e \in Events : []<>(holder[e] = NONE)

-----------------------------------------------------------------------------
(* Claims of the comments that the code does not keep (violation runs)     *)

(* README.md 476 and confirm_event's docstring: a status only advances, so *)
(* "synced" is final.  confirm_event sets "confirmed" from any status.     *)
SyncedIsFinal ==
  [][\A e \in Events : row[e].status = "synced" => row'[e].status = "synced"]_vars

(* The last step of a handler whose sync_event has failed: it commits what *)
(* a GoogleApiError left behind, create_event has raised another exception *)
(* through it, or reporting the failure raises in its turn.                *)
FailedSyncEnds(h) ==
  \/ HandlerCommit(h) /\ say[h] = "failed"
  \/ HandlerRaises(h) /\ pc[h] = "await_insert"
  \/ HandlerRaises(h) /\ pc[h] = "reply" /\ View(h).status = "failed"

(* event_service.py 11-15: any failure of sync_event is flushed as         *)
(* 'failed' and persisted by the caller's commit.  Not when get_valid_token *)
(* raises the GoogleApiError (nothing was flushed), not when create_event  *)
(* raises anything else (nothing is caught), and not when the edit_text    *)
(* that reports the failure raises (callbacks.py 39-41).                   *)
FailureIsRecorded ==
  [][\A h \in Handlers : FailedSyncEnds(h) => row'[ev[h]].status = "failed"]_vars

(* event_service.py 17-19: a crash between confirm and sync leaves the     *)
(* event 'confirmed' for the retry scheduler.  Both steps share one        *)
(* transaction, so the crash takes the confirmation away.                  *)
CrashLeavesConfirmed ==
  [][\A h \in Handlers :
       Crash /\ pc[h] \in SyncPoints => row'[ev[h]].status # "pending"]_vars

-----------------------------------------------------------------------------
(* The inductive invariant behind the safety properties (EventSyncProofs)  *)

Settled    == {"confirmed", "synced", "failed"}
LockPoints == {"sync_load", "reply", "commit", "undo", "fail_commit"} \cup SyncPoints

(* A handler that has confirmed its event and is not done with it.         *)
Confirmed(h) == \/ pc[h] \in {"sync_load"} \cup SyncPoints
                \/ pc[h] \in {"reply", "commit", "ack"} /\ say[h] \in {"created", "failed"}

(* A lock belongs to a transaction on that row.                            *)
LockInv == \A e \in Events :
  /\ holder[e] = NONE => draft[e] = row[e]
  /\ \A p \in Proc : holder[e] = p => ev[p] = e /\ pc[p] \in LockPoints

(* Rows come to be once, before anybody locks them, and leave "pending"    *)
(* for good.                                                               *)
RowInv == \A e \in Events :
  /\ e \in creating => row[e].status = "absent" /\ card[e] # "unsent"
  /\ card[e] = "unsent" => row[e].status = "absent"
  /\ holder[e] # NONE => row[e].status # "absent" /\ draft[e].status \in Settled
  /\ row[e].status \in Settled => e \in Asked
  /\ holder[e] # NONE => e \in Asked

(* Neither a row nor a draft claims what did not happen.                   *)
HonestRow(r, e) ==
  /\ r.status = "synced" => e \in calendar /\ r.external_id = e
  /\ r.status = "failed" => r.retry_count >= 1
  /\ r.external_id \in {NONE, e}
  /\ r.status \in {"absent", "pending"} => r.external_id = NONE

DataInv == \A e \in Events :
  /\ HonestRow(row[e], e)
  /\ HonestRow(draft[e], e)
  /\ row[e].external_id # NONE => draft[e].external_id = e

(* What the processes know.                                                *)
HandlerKnows(h) ==
  /\ pc[h] \in {"confirm_load", "confirm_flush"} => ev[h] \in Asked
  /\ pc[h] = "confirm_flush" =>
       /\ row[ev[h]].status # "absent"
       /\ copy[h].status = "confirmed" => row[ev[h]].status \in Settled
  /\ Confirmed(h) => View(h).status \in Settled /\ ev[h] \in Asked
  /\ upd[h] # NONE =>
       /\ pc[h] # "idle"
       /\ upd[h].event = ev[h]
       /\ upd[h].kind = "confirm" => say[h] # "cancelled"

HandlerInv == \A h \in Handlers : HandlerKnows(h)

JobInv ==
  /\ \A e \in batch : row[e].status \in Settled
  /\ pc[Job] \notin {"idle", "next"} => row[ev[Job]].status \in Settled
  /\ upd[Job] = NONE

GoogleInv == /\ calendar \subseteq inflight
             /\ inflight \subseteq Asked
             /\ \A p \in Proc : pc[p] = "mark_synced" => ev[p] \in calendar

IInv == TypeOK /\ LockInv /\ RowInv /\ DataInv /\ HandlerInv /\ JobInv /\ GoogleInv
=============================================================================
