# Verification of the Telegram → Google Calendar bot

TLA+ models of the bot under `src/`, the TLC runs that check them on small
instances, and theorems about them that TLAPS proves for instances of any size.
`PROJECT.json` maps every definition to the lines it stands for.

## 1. The system

A user writes a message in free text. The bot parses it, stores a *pending* event
and sends a preview with two buttons. "Create" confirms the event and inserts it
into the user's Google Calendar. Two scheduled jobs clean up behind: one retries
events that stayed *confirmed*, one refreshes OAuth tokens. Everything runs in one
process and one event loop, over PostgreSQL; Telegram calls a webhook, and repeats
each call until it gets a 200.

| Component | State | Operations | Talks to |
|---|---|---|---|
| Event life cycle (`event_service`, `event_repo`) | rows of `events`: status, external_id, retry_count, created_at, idempotency_key | create_pending_event, confirm_event, sync_event, _mark_failed, get_pending_events_for_retry | credentials, calendar client, database |
| Button handlers (`callbacks`) | none of their own: the session of the request, the card in the chat | on_confirm_event, on_cancel_event | event life cycle, Telegram |
| Webhook, middleware, session (`webhook`, `middlewares`, `session`, `main`) | one session and transaction per request | deliver, commit, roll back, answer 200 or 500 | Telegram, handlers |
| Retry job (`retry_pending`, `scheduler`) | the batch it has selected | select, sync session, failure session | event life cycle |
| Credentials (`auth_service`, `oauth_credential_repo`, `oauth_callback`) | rows of `oauth_credentials` | get_valid_token, handle_callback, upsert, delete | Google's token endpoint |
| Refresh job (`refresh_tokens`) | the batch it has selected | select, refresh in one session each | credentials |
| Calendar client (`calendar_service`) | none; a thread per call | create_event with tenacity (list, delete and conflict check have no caller) | Google Calendar |
| Rate limiter (`middlewares`) | timestamps per user, in memory | judge a message | handlers |
| Text handler, users, parser (`events`, `user_service`, `parser_service`) | rows of `users`, the pending row | handle_text, get_or_create, parse_message, /list, /timezone | event life cycle, Telegram |
| /connect, /disconnect (`connect`) | – | link, delete credentials | users, credentials |
| /start, /help, health, webhook secret, encryption, configuration, logging, migrations, deployment | nothing that changes while the bot runs | – | – |

### What is hard

* **Interleavings.** Requests and jobs run at the same time, each in a session of
  its own. Between loading a row and writing it a session waits for Google for
  seconds, and PostgreSQL's READ COMMITTED lets any other session commit meanwhile.
* **One transaction around two services.** A handler confirms, calls Google and
  records the result in one transaction that commits after its reply was shown. Any
  exception or crash before takes the database part back, never Google's.
* **Redelivery.** A press is delivered again after a 500 or a timeout, in the latter
  case while the first handler still runs.
* **Late effects.** A request to Google whose answer is lost may be applied at any
  later time; the client-chosen id is all that prevents duplicates.
* **First contact.** Two messages of a new user overlap, and both find no row.
* **Clocks.** The parser mixes the clock of UTC with the user's time zone.
* **Failures that repeat.** A title or a zone's name with a "<" makes Telegram reject the
  reply, in HTML, at every delivery; the message comes again, beside all others.
* **Two tables, one session.** A session may lock an event and a credential, in
  either order, and keeps one of 15 connections while it waits for Google.
* **Jobs beside handlers.** The retry job rolls back what sync_event flushed and
  writes the failure again; the refresh job must survive one bad credential.

### What makes each component correct

| Component | Correct when |
|---|---|
| Event life cycle, handlers, retry job | the calendar only gets what the user asked for; "synced" is true; failures are counted; Google's id is never lost; an acknowledged press is on record; "confirmed" is settled in the end; no lock stays |
| Credentials, refresh job | a row goes only after /disconnect, an error answer of the token endpoint or with a corrupt token, and does not come back; an expired token with a good grant gets refreshed, one with a bad grant deleted, whatever happens to others (a good grant is not safe from deletion: section 4) |
| Calendar client | one entry per row however often it is sent; every call ends; "ok" only when the entry is there |
| Rate limiter | no window has more than the limit; no message is refused below it |
| Text handler, users, /timezone, /connect | one row per user whoever wins; a message with a 200 has had its effect or an answer that says why not; every message that can be answered gets its 200; a text becomes two events only by a fault; a zone is set by its user only |
| Parser | a text becomes an event exactly when its writer means one, at the instant the writer means (which the code keeps in part: section 4) |
| All in one process | whoever holds a lock has a connection; both tables are committed together or not at all; circles of locks and a full pool do not stop the retry job |

The hazards of `PROJECT.json` list where each of these could go wrong, with the
properties that watch the place.

## 2. Modules

| Module | Models | Used by |
|---|---|---|
| `EventPromise` | abstract: what the bot promises about an event | refined by `EventSync` |
| `EventSync` | preview, handlers, confirm/sync, retry job, transactions, Telegram's redelivery, Google's calendar, crashes | `MC_EventSync`, `EventSyncProofs` |
| `EventSyncProofs` | the theorems about `EventSync` | |
| `InsertPromise` | abstract: the insert call as `EventSync` uses it | refined by `CalendarClient` |
| `CalendarClient` | create_event: attempts, lost requests and answers, the event id | `MC_CalendarClient`, `CalendarClientProofs` |
| `CalendarClientProofs` | the theorems about `CalendarClient` | |
| `CredentialPromise` | abstract: what the bot promises about a user's credentials | refined by `Credentials` |
| `Credentials` | credential rows under requests, retry job, refresh job and callback | `MC_Credentials`, `Bot` |
| `CredentialsProofs` | the theorems about `Credentials` | |
| `RateLimit` | the sliding window | `Intake` |
| `RateLimitProofs` | the lemmas about `RateLimit`: what eviction, recording and a restart preserve | `IntakeProofs` |
| `Parser` | parse_message: operators, no state | `Intake` |
| `MessagePromise` | abstract: what the bot promises about a message | refined by `Intake` |
| `Intake` | a message from Telegram's delivery to its 200, on top of `RateLimit` and `Parser` | `MC_Intake` |
| `IntakeProofs` | the theorems about `Intake`, `RateLimit` and `Parser` | |
| `Bot` | `EventSync` and `Credentials` in one process, over one session and one pool | `MC_Bot` |
| `BotProofs` | the theorems about `Bot`, which lift those of its parts | |

### EventSync

*State.* `row` is the committed table. A transaction that has updated a row appears
in `holder` (the row lock) and `draft` (the row as it sees it); `Commit` publishes
the drafts a process holds, `Rollback` drops them. `pc`, `ev`, `copy` are each
process's position, event and loaded ORM instance; `say` is the text a handler is
about to show; `upd` the press whose HTTP request still waits; `inbox` the presses
Telegram has not had a 200 for; `card` what the chat shows; `batch` the retry job's
list; `inflight` and `calendar` are Google's side.

*Steps.* One action is the code between two awaits that touch the database, Google
or Telegram. `Deliver … Ack` follow a request through `telegram_webhook`,
`DbSessionMiddleware`, `on_confirm_event`, `confirm_event` (`ConfirmLoad`,
`ConfirmFlush`) and `sync_event` (`SyncLoad`, `GetToken`, `SendInsert`,
`InsertReturns`, `MarkSynced` or `MarkFailed`), the reply and the commit.
`HandlerRaises` is an exception at any await. The job runs the same sync actions
between `JobSelect`/`JobNext` and `JobCommit`, or `JobRaises` and the failure
session `JobFailLoad`, `JobFailFlush`, `JobFailCommit`, `JobFailRaises`.

*Three facts of the libraries the model depends on.*
SQLAlchemy writes only the attributes that changed on the instance: hence
`ConfirmedRow`, `SyncedRow`, `FailedRow` change single columns of the newest row,
and confirm_event on a row loaded as 'confirmed' is no UPDATE and takes no lock.
The identity map holds its instances weakly: `on_confirm_event` and the failure
session drop the result of the first call, so the next call loads the row anew,
whereas `sync_event` holds its instance over the call to Google, so `_mark_failed`
counts from the old one (`copy`). READ COMMITTED: a SELECT sees the newest commit
and waits for nobody, an UPDATE waits for the row's lock and then works on the
newest row.

*Abstractions.* Title, times, error texts and the token are left out. Get-token is
its three results (the credential rows have a module of their own), the insert is
one request and one answer (`InsertPromise`, which `CalendarClient` implements).
Which event a text becomes is decided by whoever sends it: each event has one
preview card. A press on a card whose text has been edited is impossible, because
editing without a markup removes the buttons.

### Credentials

A row is `none`, `fresh`, `expiring` (within 5 minutes) or `expired`; the grant is
`good`, `revoked` or `corrupt` (does not decrypt). Each process (a request, the
retry job, the refresh job) runs get_valid_token in its own session:
`LoadRow`, `AskGoogle`, then `StoreLoad`/`StoreFlush` or `DeleteLoad`/`DeleteFlush`.
The sessions end as their callers end them: a request commits, or raises later on
and rolls back (`RequestEnds`); the retry job commits only what succeeded
(`RetryEnds`); the refresh job commits unless an exception was raised
(`RefreshEnds`). An UPDATE whose row is gone raises, a DELETE of a missing row does
not. google-auth raises a RefreshError for every error that the token endpoint answers: for
a grant that is refused and, after its retries, for a 429 or a 5xx. `AskGoogle` gives a
good grant such an answer as one of the bounded faults, and the code deletes (`Deletes`)
in either case. `causes` remembers who sent /disconnect and whom the endpoint answered
with an error. Other exceptions, a broken connection say, end in "error", as does an
access token that does not decrypt: for the refresh job in `LoadRow`, for requests and
the retry job in `Abort`. As the OAuth callback never commits, no path makes a new committed row, so `Init` starts with any
rows there may be. `Abort` is an exception anywhere in a session, `Crash` the end of
the process: the drafts and locks go, the rows stay.

### CalendarClient

Each call runs in its own thread. A request may be applied or lost at any time after
it is sent, its answer may come or not, and a late request of an earlier attempt may
still land. An error after the last attempt is a GoogleApiError (`error`) or another
exception (`raised`). What Google answers to an id that is in use is left open: with
a 2xx the call succeeds, with a 409 (`Permanent`) it fails; the docstring assumes
the former. The id is unique per calendar; a user who reconnects another Google
account between two attempts is not modelled.

### RateLimit and Parser

The middleware has no await before its decision, so a message is judged in one step.
A list of timestamps is a set of stamps, a time and a number that tells apart messages
of the same time: the code counts and filters its lists, and nothing depends on their
order. `handled` and `restarts` remember what the code forgets: the properties compare
the evicted list with the whole history.

`Parser` has the decisions of parse_message in their order and its arithmetic.
Instants, wall clocks and UTC offsets are numbers of hours. dateparser is external: a
text *is* what `search_dates` and `parse` make of it, a list of date fragments, an
expression for the fragments joined, and whether a title is left. What the code
decides is which expression counts, from which clock it is read (`RelativeBase`), in
which zone (`Aware`) and what is refused. `Meant` is the reference: the instant a
writer has in mind who looks at a clock of their own, on a day without an hour the default
one (`DefaultHour`, 09:00 in the repository's README).

### Intake

*State.* `users` is the committed table (the number of rows a user has, so that a
second one would show, and the zone); `holder` and `mine` are the lock and the draft
of an open transaction; `seen` is the zone of the loaded `User` instance; `found` what
the parser made of the text; `inbox` the messages Telegram has had no 200 for, `open`
the requests whose connection it still waits on; `told` what users were answered.

*Steps.* `Deliver` is the webhook up to the limiter's verdict, which falls before the
session is opened; `TellSlow` answers a refused message, with a 200. `GetUser`,
`InsertUser`, `IntegrityError` are get_or_create: an INSERT of the same telegram_id
waits for the other transaction's end and then fails if a row is there. `SetTimezone`
is update_timezone, an UPDATE only if the value differs from the loaded one. `Answer`
reads the clock, parses, flushes the event and sends the reply; `Commit` is the
middleware's, `Ack` the webhook's 200. Two kinds of failure are kept apart. A message
whose `html` is FALSE has, in what the reply quotes of it, something that Telegram's HTML
mode or ZoneInfo rejects: `ReplyRejected` raises at every delivery, without a bound
(for a text only if it is read as an event, since only the preview quotes the title).
`Fails` is any other exception at any await, a bounded fault;
`Timeout` is Telegram giving up on a request that runs on, `Crash` the end of the process,
which also empties the limiter. The kind "help" stands for every message that is
answered without the database: /start, /help, a /timezone without a known zone. The run
has neither "help" nor "connect"; the theorems of section 5 are about both, too.

### Bot

`Bot` extends `EventSync` and has an instance of `Credentials` whose requests are
`EventSync`'s handlers and whose retry job is its job. `EventSync`'s one-step get-token
is here the whole of get_valid_token, step by step in the caller's session
(`BeginToken`, `TokenWork`, `EndToken`); a commit or rollback is one of both modules
(`Commits`, `Raises`, `Dies`). A first statement waits for a connection (`HasRoom`);
`Connected` says who has one. Sessions wait for locks of either table; when two wait
for each other (`Deadlocked`) PostgreSQL raises in one of them. That circle is
reachable: a handler has the event row and wants the credential row, the job has the
credential row and wants the event row.

## 3. Runs

All bounds are constants of the cfg: the ids, `MaxTaps` presses per card,
`MaxFaults` (crashes, HTTP timeouts and failing failure sessions; in `Credentials`
network and commit failures and undue error answers; in `Intake` any failing await, too),
`Attempts`, `PoolSize`, and the clock's `MaxTime`, `Day` and `DefaultHour`. Ordinary exceptions
(`HandlerRaises`, `JobRaises`, `Abort`) and `ReplyRejected` are not bounded. `CHECK_DEADLOCK FALSE` is set
throughout, because the systems really may stop: users stop pressing and writing, all
bounded faults are spent, the clock ends.

| Run | Question | Instance |
|---|---|---|
| EventSync_safety | can an interleaving make a row, the calendar or an acknowledgement lie? is EventPromise kept? | 1 event, 2 requests, 2 presses, 1 fault, the job; handlers symmetric |
| EventSync_live | is "confirmed" settled, is every lock released? | 1 event, 2 requests, 1 press, 1 fault, fairness |
| Credentials_safety | are rows deleted only after /disconnect, an error answer or with a corrupt token, and not written back? is CredentialPromise kept? | 1 user, 2 requests, both jobs, 1 fault |
| Credentials_live | does one bad credential block another? are refused ones cleaned up? | 2 users, one whose refreshes always fail, both jobs, fairness |
| CalendarClient | one entry per row, an end, the contract of InsertPromise | 2 calls for one row, 3 attempts each, fairness |
| Intake | is a message ever lost or doubled without a fault, a distance or a named hour misread otherwise than by the clock, a message refused too early, or never answered though it can be? is MessagePromise kept? | 1 user, with a row or without; 2 messages, of three and four kinds, one of which Telegram rejects the reply to; 2 requests; limit 2 in a window of 2, clock to 2, days of 3 hours with hour 1 as the default; 1 fault; fairness |
| Bot | do the parts keep their specifications in one session? does somebody go on behind every wait for a row, and in a full pool? can locks or the pool stop the job? | 1 event, 2 requests, 1 press of each button, 1 fault, the retry job; 2 connections for 3 processes; fairness |

The five runs that expect a violation are those of section 4.

*Why these are enough.* Events meet only in the retry job's batch, so one event
shows every interleaving on a row; that a session of one row leaves the others alone
is a theorem for any batch (`SessionsAreSeparate`). On one row two handlers and the job
give every pair of sessions and a third that commits between two steps of another; a
second press is what makes two distinct updates race. One fault at any point, with
unbounded exceptions around it, gives every crash point; the theorems of section 5
do not depend on these bounds. Three attempts are the code's own number, and two
calls in flight for one row are a redelivery beside the first handler.

Users meet nowhere in `Intake`: the rows, the window and the lock are per user. Two
messages in two requests give the race of two first messages, a /timezone between a
text's reading of the zone and its clock, two /timezones for different zones, and, with
a redelivery, a third message in a window of two. The users are one hour ahead of
UTC, behind it, or in it, and a day of three hours makes the dates differ in a third of
the cases; the texts are "in an hour", a day and an hour, the same with a "<" in its
title, and fragments that make no date together, so that the first one, an hour without a
day, counts. In `Bot` two connections for three
processes make each wait for the pool, and two handlers and the job close the circle of
locks.

*Fairness.* Weak fairness for each process: the event loop runs every coroutine
that is ready, HTTP calls return or time out, the scheduler fires for ever, time
passes. Strong fairness only for the steps that take a row lock: PostgreSQL queues
the waiters of a lock, so a process whose lock is again and again free gets it. No
fairness for users, Telegram's redelivery, crashes or faults, nor for Google to
apply a request. In `CalendarClient` weak fairness holds once a call has begun. In
`Credentials_live` the other requests are left out, since fairness towards them adds
nothing: a request that refreshes or deletes the row only helps.

`Intake` has weak fairness for each request and for the delivery of each message that
has had no 200, since Telegram repeats it. An INSERT that waits for another session's
needs no more, because the sessions it can wait for are finitely many. `Bot` has strong
fairness per process, as a process may wait for a lock or for a connection, and both are
served in order of arrival. The exceptions that are certain belong to it (`MustRaise`):
Telegram's refusal to edit a message that is gone or unchanged, the job's failed sync,
a circle of locks. No fairness for users, tokens that expire, or Google's processing.

What is *not* claimed: that everything Telegram sends is acknowledged in the end. A press
whose reply Telegram rejects for ever ("message is not modified") is redelivered without
end, each time answered with a 500. So is a text with a "<" in its title, and a /timezone
with a name that cannot be echoed or looked up: such a message gets a 200 only when the
limiter turns it away. `MessagesAreAnswered` is about all other messages, beside one of
these.

## 4. Where code and comments differ

Five runs expect a violation; each checks a sentence of a comment or of the README, and
TLC's trace shows what the code does instead.

| Run | The text | The code |
|---|---|---|
| EventSync_SyncedIsFinal | "Advance status from 'pending' to 'confirmed'"; pending → confirmed → synced \| failed | confirm_event writes 'confirmed' over any status, also over 'synced'; the failure session writes 'failed' over any status |
| EventSync_FailureIsRecorded | any failure is caught, flushed as 'failed' and persisted by the caller's commit | a GoogleApiError of get_valid_token is outside the try, and the row is committed as 'confirmed' under a reply that says it failed; an exception other than GoogleApiError is not caught; an edit_text that raises takes the flushed failure back. Each of the three (the disjuncts of `FailedSyncEnds`) violates the property also when it is the only one left |
| EventSync_CrashLeavesConfirmed | a crash between confirm and sync leaves 'confirmed' for the scheduler | both steps share one transaction; the row is 'pending' again |
| Credentials_CallbackPersists | the callback persists the tokens | nothing commits its session |
| Credentials_GoodGrantsAreKept | credentials are deleted when the refresh token is invalid ("401 from Google — refresh_token revoked") | every RefreshError deletes them, and google-auth raises it for any error answer of the token endpoint, an outage included: one such answer to a good refresh token and the user must connect again |

Not runs, because reading the lines side by side shows it:

* refresh_tokens.py promises to refresh tokens *before* they expire, but get_valid_token
  returns an unexpired token as it is, so the job only ever refreshes expired ones
  (`LoadRow`).
* get_valid_token deletes credentials whose grant is refused (auth_service.py, docstring),
  but the retry job, whose sync then fails, rolls the deletion back (retry_pending.py).
* The README has a default time of 09:00 for a text that names only a day; parse_message
  has none, so the event gets the present time of day (`Wall`) instead of that of `Meant`.
  No property covers such a text.
* The README reads "in 2 hours" as now + 2 h; parse_message starts from the clock of UTC
  (`RelativeBase`) and reads the result in the user's zone, so the event is off by exactly
  the user's offset. `MisreadByTheClock` says so; east of UTC the event may lie in the past
  and is refused.
* The preview, and the reply to an unknown time zone, quote the user unescaped in Telegram's
  HTML mode (events.py, setup.py), and ZoneInfo may raise a ValueError that cmd_timezone does
  not catch (`ReplyRejected`).
* /list prints start_at as the database returns it, the preview in the user's zone
  (events.py); no state depends on it.

What holds all the same, and why it matters: after a rollback Telegram's redelivery
repeats the press, so no acknowledged press is lost (`ConfirmIsSavedBeforeAck`); the
id of an event is never lost though its status may be overwritten (`ExternalIdKept`);
refused credentials are deleted by the refresh job in the end (`RefusedAreDeleted`), and
when a handler deletes them, the event has failed with them (`RefusalFailsTheEvent`). A
text that names an hour is read as meant, in any zone, as long as the writer's clock and
that of UTC are on the same side of midnight and, if it names no day, of that hour
(`UnderstoodAsMeant`). At other moments it may be refused for being past, or else it is off
by one day or not at all; a distance in hours, if it is not refused, is off by exactly the
user's offset (`MisreadByTheClock`).

## 5. What is proved

`EventSyncProofs` proves, for any number of events, handlers, presses and faults:

| Theorem | Property |
|---|---|
| TypeCorrect | `TypeOK` |
| Invariance | `IInv`, the inductive invariant |
| SyncedIsTrue | `SyncedIsInCalendar` |
| ConsentIsRespected | `NoEventWithoutConfirmation` |
| FailuresAreCounted | `FailureIsCounted` |
| IdsAreKept | `ExternalIdKept` |
| AcksAreHonest | `ConfirmIsSavedBeforeAck` |
| PromiseIsKept | `PromiseKept`: EventSync implements EventPromise |
| SessionsAreSeparate | a commit moves neither rows, drafts nor locks of other events |

*Assumptions:* None is not an event id, a process, an update or a text; the job is
not a handler; the bounds are natural numbers.

*The argument.* None of the properties is inductive: whether a commit may publish
"synced" depends on what the draft says, which depends on what the process knew when
it wrote it. `IInv` makes this explicit. `LockInv`: a lock belongs to a process that
works on that row and is between its write and the end of its session, and an
unlocked row has no draft. `RowInv`: a row is created once, before anybody can lock
it, and leaves "pending" only for an event that was asked for. `DataInv`: rows and
drafts are honest (synced implies in the calendar, failed implies counted, the id is
the event's own). `HandlerInv`: from confirm_event to the acknowledgement a handler
sees a settled row; this is what makes an acknowledgement honest. `JobInv`: the
job's rows have been confirmed. `GoogleInv`: what is in the calendar was sent, what
was sent was asked for, and "mark_synced" is reached only with the event there. Each
conjunct has a lemma of its own (`TypeStep`, `LockStep`, `RowStep`, `DataStep`,
`HandlerStepInv`, `JobStepInv`, `GoogleStep`) with one step per action; `RowChange`
shows that rows change only by a preview's commit or by the commit of the one
process that holds them, from which the action properties and the refinement follow.

`CalendarClientProofs` proves for any number of calls, rows and attempts that a row
has one calendar entry (`OneEntry`), its types (`ClientTypes`) and that the tenacity
loop implements `InsertPromise` (`ClientKeepsPromise`). The invariant adds that an
entry's id is that of the row it was made for, that only sent requests are on the
network or applied, and that an applied request has its entry.

`CredentialsProofs` proves for any number of users and requests:

| Theorem | Property |
|---|---|
| TypeCorrect, Invariance | `TypeOK`, `IInv` |
| RowsGoForACause | `CredentialsGoForACause` |
| NoRowReturns | `NoResurrection` |
| PromiseIsKept | `PromiseKept`: Credentials implements CredentialPromise |

*Assumptions:* the jobs differ, are no requests and are not None; the bound is a natural
number. *The argument.* A commit publishes a draft made many steps before. `LockInv`: a
locked row has a draft, and its session is at work for that user. `DraftInv`: a draft is a
refresh of a row that still exists and whose refresh token decrypts, or a deletion with a
cause (in `causes`, or a corrupt token), and its row is locked; only the callback's upsert is neither, and it is never
committed. `CauseInv`: who goes to delete has a cause, and causes stay. `DecryptedInv`: who
asks Google, or stores its answer, had a token that decrypts, and a grant that decrypts
may be refused but not become corrupt. `RowChange` shows that rows change by a commit
only, so the refinement needs one case of a commit (`CommitKeepsPromise`).

`IntakeProofs` proves for any number of users, messages and requests, any limit, window and
clock, and a day of any length:

| Theorem | Property |
|---|---|
| TypeCorrect | `TypeOK`, the limiter's and the parser's data included |
| Invariance | `IInv` |
| LimitIsKept | `AtMostLimit` |
| RejectionsAreDue | `RejectedOnlyWhenFull` |
| OneRow | `OneUserPerChat` |
| ZonesAreAskedFor | `TimezoneOnlyByCommand` |
| AcksAreHonest | `AcknowledgedIsDone` |
| DuplicatesAreCounted | `DuplicatesNeedAFault` |
| ReadAsMeant | `UnderstoodAsMeant`, for any zone and any expression that names an hour |
| ErrorsAreOfTheClock | `MisreadByTheClock`, for any zone and any expression with an hour or a distance in hours |
| PromiseIsKept | `PromiseKept`: Intake implements MessagePromise |

*Assumptions:* messages have a kind, a text and an integer zone, every message has a
sender, the requests are finitely many, None is distinct from all else, the bounds are
natural numbers, the default hour is one of the day (`DayAssumption`), and a message's
reply can be sent or not (`HtmlAssumption`). `TextAssumption`: a text is what `Texts` says, as dateparser returns it.
`OffsetAssumption`: no zone is further from UTC than a day, which the time zone database
keeps (UTC-12 to UTC+14); only `MisreadByTheClock` needs it. For that property three
lemmas do the arithmetic of `Midnight`, whose quotients the SMT solver does not handle
by itself: `Distribute`, `Multiples`, `Midnights`.

*The argument.* `UserInv`: a user without a row has no zone, and a zone was asked
for. `LockInv`: what a transaction has written is locked, and it inserts only where no
row is; the zone it sets is the default of the row it inserts, or the one of its message.
`HasUserInv`: who needs a user has one, committed or in the transaction.
`ZoneInv`: a zone that was seen is current or has been replaced on request. `FoundInv`: a
session holds an event only between the reply to a text and its commit; without it a
commit of another message might insert one. `ReplyInv`: a request has told its user
before it commits, a preview if it holds an event, and is done before it acknowledges.
`EventInv` counts: the events of a message, the requests at work on it and the
delivery still awaited are together at most one more than the faults; a commit turns
one of the second kind into one of the first, and only a fault adds to the sum.

The limiter's part of the invariant is `LimiterInv` (`RateLimitProofs`). `AtMostLimit` is
about every window, the list only about the present one. `WindowInv` bridges them:
a window that has ended has its bound for good; in one that has not, the messages that
the list no longer has, though they still count, are at most `Limit` for each restart
in it. Eviction forgets nothing of such a window (`OpenWindow`), a message is recorded
only below the limit (`AcceptKeeps`), and a restart forgets at most `Limit`
(`RestartKeeps`). `StampInv` says that stamps are numbered as they come, so that a new
one is new.

The refinement of `MessagePromise` maps a user's row to "known", and the committed events
of a message to their number. A commit is an `Effect` (`CommitIsEffect`), a 200 an
`Acknowledge` because the message is done in the promise's sense, too
(`DoneAsPromised`), the rest tells the user or stutters (`Stutters`).

`BotProofs` proves for any number of events, handlers and users and any pool:

| Theorem | Property |
|---|---|
| EventsAreKept | `Bot` implements `EventSync` |
| EventsOfTheWhole | the safety properties of `EventSync`, and `EventPromise`, hold in `Bot` |
| CredentialsAreKept | `CredentialsKept`: `Bot` implements `Credentials` |
| CredentialsOfTheWhole | the action properties of `Credentials`, and `CredentialPromise`, hold in `Bot` |
| BotInvariance | `BotInv`, beside `EventSync`'s `IInv` |
| LockersAreConnected | `LocksHaveSessions` |
| WaitsAreShort | `WaitsEnd` |
| ThePoolMoves | `FullPoolMoves` |
| RefusalsFail | `RefusalFailsTheEvent` |

*Assumptions:* those of `EventSync`; the refresh job is neither a process of `EventSync`
nor None, and None is no state of a credential. *The argument.* Every step of `Bot` is a
step or a stutter of each part; for `Credentials` this is not by the shape of the
definitions, since its requests commit only from "got" and "nil" and its retry job only
from "got". `TokenInv` relates the place in sync_event to the place in
get_valid_token, `NilInv` says that a handler without a token has failed its event,
`CredLockInv` that a credential's lock is that of the session that changed it, and
`UntouchedInv` that "Cancel", and the job before its first statement, hold no row, which
makes every holder of a lock connected; `OwnerInv` that the token was asked for the owner
of the session's event.

That no session waits in vain (`WaitsAreShort`) is an argument about chains of waits, for
any number of them. Along a chain events and credentials take turns (`Blockers`,
`LockersWait`): who has locked its event waits for nothing but a credential, who has
locked a credential for nothing but its event. So if p waits for q, q for r and r for s,
one of q and r has a credential and waits for the event of the next; if that one
waits at all, it waits for the credential of the owner of that very event
(`OwnerInv`), which is the credential the first one has. The two are the pair that
PostgreSQL breaks, and no chain is longer. That a full pool moves follows: some session has a
connection, and either it goes on or the end of its chain does, which is connected, too.

The theorems of `CredentialsProofs` reach `Bot` through an instance of that module
(`CP`); `SameSpec` says that its specification is the one of `Bot`'s own instance `C`.

*Only model-checked:* all liveness (`ConfirmedIsResolved`, `RowsAreReleased`,
`ExpiredIsRefreshed`, `RefusedAreDeleted`, `CallsEnd`, `MessagesAreAnswered`, `JobEnds`),
which the prover cannot establish (fairness and ENABLED). Every invariant, every action
property and every refinement that a passing run checks is a theorem. `WaitsEnd` and
`FullPoolMoves` are what `JobEnds` rests on: the part of it that is no liveness.

## 6. Not modelled, and the plan

Not modelled:

* health, webhook secret, encryption, configuration, logging, migrations, deployment,
  fixed texts: no state that changes while the bot runs. A token that does not decrypt
  is the grant "corrupt" of `Credentials`.
* `dateparser` itself: what it finds in a text is the input of `Parser`.
* delete_event, list_upcoming, check_conflicts and the deletion of a user: no caller.
* Two credential rows of one user: the schema allows them, but no path commits an upsert.
* In `Bot`, the refresh job, /disconnect and messages: they meet the events only through
  the credential rows, and `Credentials` has the first two beside the same sessions.

Next, in this order:

1. The refresh job and /disconnect in `Bot`: both hold one lock and one connection, so
   the circles stay of length two; `MustRaise` and `Goes` get a case for the job.
2. `Intake`'s preview as the origin of `EventSync`'s events: its committed event is
   the row that `EventSync` creates, the card sent before the commit included.
3. Two users in `Intake` for the fairness among them; two events in `Bot`.
