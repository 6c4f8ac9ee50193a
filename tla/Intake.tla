------------------------------- MODULE Intake --------------------------------
(***************************************************************************)
(* What becomes of a message: Telegram's delivery, the rate limiter, the   *)
(* session, UserService.get_or_create with the unique telegram_id, the     *)
(* handlers of /start, /help, /list, /connect and /timezone, and           *)
(* handle_text up to the committed pending event and the preview (what     *)
(* the buttons do is EventSync's, /disconnect is Credentials').            *)
(*                                                                         *)
(* One action is the code between two awaits that touch the database or    *)
(* Telegram.  An INSERT of a user waits for another session's uncommitted  *)
(* INSERT or UPDATE of the same telegram_id; a SELECT waits for nobody.    *)
(***************************************************************************)
EXTENDS RateLimit, Parser

CONSTANTS
  Updates,     \* messages the users may send
  Requests,    \* concurrent webhook requests
  MaySay,      \* function: the messages an update may be
  Sender,      \* function: who sends an update
  NONE,        \* Python's None
  MaxFaults    \* bound: crashes, HTTP timeouts, failing calls and commits

Messages == UNION {MaySay[u] : u \in Updates}

Zones == {m.tz : m \in {m \in Messages : m.kind = "timezone"}} \cup {0}

(* "text" is a free text, "timezone" and "connect" are commands that need  *)
(* the user's row, "list" one that looks for it; "help" is any message     *)
(* answered without the database, a /timezone without a known zone too.    *)
(* html: what a reply quotes of the message, the title of an event or the  *)
(* unknown name of a zone, is HTML that Telegram takes, and a zone's name  *)
(* one that ZoneInfo can look up.                                          *)
Kinds == {"text", "timezone", "connect", "list", "help"}

ASSUME MessageAssumption ==
  MaySay \in [Updates -> SUBSET Messages] /\ \A m \in Messages : m.kind \in Kinds /\ m.tz \in Int
ASSUME OffsetAssumption  == \A m \in Messages : m.tz \in -Day..Day   \* UTC-12 to UTC+14
ASSUME TextAssumption    == \A m \in Messages : m.text \in Texts
ASSUME HtmlAssumption    == \A m \in Messages : m.html \in BOOLEAN
ASSUME SenderAssumption  == Sender \in [Updates -> Users]
ASSUME FaultAssumption   == MaxFaults \in Nat
ASSUME NoneAssumption    == /\ NONE \notin Updates \cup Requests \cup Int
                            /\ NONE \notin [rows : {0, 1}, tz : Int]
ASSUME RequestAssumption == IsFiniteSet(Requests)

VARIABLES
  said,        \* update -> message
  inbox,       \* updates Telegram has not had a 200 for
  told,        \* what the users were answered: pairs of update and reply
  users,       \* committed rows: how many a user has, and its time zone
  holder,      \* the request whose open transaction wrote the user's row
  events,      \* committed pending events: the update, its n-th, the start
  pc, job,     \* where each request is, and on which update
  open,        \* requests whose HTTP connection Telegram still waits on
  seen,        \* the time zone of the User instance a request holds
  mine,        \* rows its transaction adds and the zone it sets, or NONE
  found,       \* what parse_message made of the text, when, in which zone
  faults

chatVars    == <<said, inbox, told>>
dbVars      == <<users, holder, events>>
requestVars == <<pc, job, open, seen, mine, found>>
vars == <<limiterVars, chatVars, dbVars, requestVars, faults>>

Points == {"idle", "user", "insert", "zone", "answer", "slow", "commit", "ack"}

Unread == [at |-> 0, tz |-> 0, event |-> NoEvent]

Chat(r)    == Sender[job[r]]
Message(r) == said[job[r]]
Goto(r, point) == pc' = [pc EXCEPT ![r] = point]
Fault == faults < MaxFaults /\ faults' = faults + 1

-----------------------------------------------------------------------------
(* Telegram and the rate limiter *)

(* The first await of each handler. *)
First(m) == CASE m.kind = "help" -> "answer" [] OTHER -> "user"

(* A message that is turned away never opens a session. *)
Deliver(r, u) ==
  /\ pc[r] = "idle"
  /\ u \in inbox
  /\ \A q \in open : job[q] # u
  /\ Judge(Sender[u])
  /\ Goto(r, IF Allowed(Sender[u]) THEN First(said[u]) ELSE "slow")
  /\ job' = [job EXCEPT ![r] = u]
  /\ open' = open \cup {r}
  /\ UNCHANGED <<chatVars, dbVars, seen, mine, found, faults>>

(* The webhook answers 200, if the connection is still open, or 500.       *)
(* Names with a suffix are mistakes one could make here; no action uses    *)
(* them, the runs are shown to notice each of them.                        *)
Acknowledged_never(r) == inbox
Acknowledged(r) == IF r \in open THEN inbox \ {job[r]} ELSE inbox

End(r) == /\ Goto(r, "idle")
          /\ open' = open \ {r}
          /\ job' = [job EXCEPT ![r] = NONE]

AfterSlow_raises(r) == UNCHANGED <<told, inbox>>
AfterSlow(r) == told' = told \cup {<<job[r], "slow">>} /\ inbox' = Acknowledged(r)

TellSlow(r) ==
  /\ pc[r] = "slow"
  /\ AfterSlow(r)
  /\ End(r)
  /\ UNCHANGED <<limiterVars, said, dbVars, seen, mine, found, faults>>

-----------------------------------------------------------------------------
(* UserService *)

Exists(c) == users[c].rows > 0

AfterUser(m) == IF m.kind = "timezone" THEN "zone" ELSE "answer"

(* get_by_telegram_id; without a row get_or_create inserts one, /list      *)
(* answers that there is none.                                             *)
GetUser(r) ==
  /\ pc[r] = "user"
  /\ IF Exists(Chat(r))
       THEN /\ seen' = [seen EXCEPT ![r] = users[Chat(r)].tz]
            /\ Goto(r, AfterUser(Message(r)))
       ELSE /\ Goto(r, IF Message(r).kind = "list" THEN "answer" ELSE "insert")
            /\ UNCHANGED seen
  /\ UNCHANGED <<limiterVars, chatVars, dbVars, job, open, mine, found, faults>>

Close(r) == /\ holder' = [c \in Users |-> IF holder[c] = r THEN NONE ELSE holder[c]]
            /\ mine' = [mine EXCEPT ![r] = NONE]
            /\ found' = [found EXCEPT ![r] = Unread]
            /\ seen' = [seen EXCEPT ![r] = 0]

(* An exception leaves the session, which rolls back, and the webhook: 500. *)
Raise(r) == /\ Close(r)
            /\ End(r)
            /\ UNCHANGED <<limiterVars, chatVars, users, events>>

Free(r) == holder[Chat(r)] \in {NONE, r}

(* The unique constraint on telegram_id refuses a second row. *)
Unique_missing(c) == TRUE
Unique(c) == ~Exists(c)

InsertUser(r) ==
  /\ pc[r] = "insert"
  /\ Free(r)
  /\ Unique(Chat(r))
  /\ holder' = [holder EXCEPT ![Chat(r)] = r]
  /\ mine' = [mine EXCEPT ![r] = [rows |-> 1, tz |-> 0]]
  /\ seen' = [seen EXCEPT ![r] = 0]
  /\ Goto(r, AfterUser(Message(r)))
  /\ UNCHANGED <<limiterVars, chatVars, users, events, job, open, found, faults>>

IntegrityError(r) ==
  /\ pc[r] = "insert"
  /\ Free(r)
  /\ ~Unique(Chat(r))
  /\ Raise(r)
  /\ UNCHANGED faults

(* update_timezone: an UPDATE if the value differs from the loaded one.    *)
SetTimezone(r) ==
  /\ pc[r] = "zone"
  /\ \/ /\ Message(r).tz = seen[r]
        /\ UNCHANGED <<holder, mine>>
     \/ /\ Message(r).tz # seen[r]
        /\ Free(r)
        /\ holder' = [holder EXCEPT ![Chat(r)] = r]
        /\ mine' = [mine EXCEPT ![r] = [rows |-> IF @ = NONE THEN 0 ELSE @.rows,
                                        tz   |-> Message(r).tz]]
  /\ seen' = [seen EXCEPT ![r] = Message(r).tz]
  /\ Goto(r, "answer")
  /\ UNCHANGED <<limiterVars, chatVars, users, events, job, open, found, faults>>

-----------------------------------------------------------------------------
(* The replies.  handle_text reads the clock, parses, inserts the event it *)
(* found, in its session, and sends a preview; the others have done their  *)
(* part and tell so.                                                       *)
Parsed(r) == [at |-> now, tz |-> seen[r],
              event |-> ParseMessage(Message(r).text, seen[r], now)]

(* The preview has the title in bold and the name of an unknown zone is    *)
(* echoed, both unescaped; the other replies quote nothing of the user's.  *)
Quotes(r) == Message(r).kind = "text" => Parsed(r).event # NoEvent
Unsendable(r) == ~Message(r).html /\ Quotes(r)

Answer(r) ==
  /\ pc[r] = "answer"
  /\ ~Unsendable(r)
  /\ \/ /\ Message(r).kind = "text"
        /\ found' = [found EXCEPT ![r] = Parsed(r)]
        /\ told' = told \cup {<<job[r], IF Parsed(r).event = NoEvent THEN "unclear"
                                                                     ELSE "preview">>}
     \/ /\ Message(r).kind # "text"
        /\ told' = told \cup {<<job[r], Message(r).kind>>}
        /\ UNCHANGED found
  /\ Goto(r, "commit")
  /\ UNCHANGED <<limiterVars, said, inbox, dbVars, job, open, seen, mine, faults>>

(* Telegram refuses the reply, or ZoneInfo the name, whenever the message  *)
(* is delivered: the handler raises, the event and the user are undone.    *)
ReplyRejected(r) ==
  /\ pc[r] = "answer"
  /\ Unsendable(r)
  /\ Raise(r)
  /\ UNCHANGED faults

(* The session's rows: a user inserted or updated, an event.              *)
CommitUser_forgotten(r) == UNCHANGED users
CommitUser(r) ==
  users' = [users EXCEPT ![Chat(r)] =
              IF mine[r] = NONE THEN @
                                ELSE [rows |-> @.rows + mine[r].rows, tz |-> mine[r].tz]]

EventsOf(u) == {e \in events : e.by = u}

CommitEvent(r) ==
  events' = IF found[r].event = NoEvent THEN events
            ELSE events \cup {[by    |-> job[r],
                               n     |-> Cardinality(EventsOf(job[r])) + 1,
                               start |-> found[r].event.start]}

(* DbSessionMiddleware commits after the handler has returned ...          *)
Commit(r) ==
  /\ pc[r] = "commit"
  /\ CommitUser(r)
  /\ CommitEvent(r)
  /\ Close(r)
  /\ Goto(r, "ack")
  /\ UNCHANGED <<limiterVars, chatVars, job, open, faults>>

(* ... and the update is acknowledged.                                     *)
Ack(r) ==
  /\ pc[r] = "ack"
  /\ inbox' = Acknowledged(r)
  /\ End(r)
  /\ UNCHANGED <<limiterVars, said, told, dbVars, seen, mine, found, faults>>

(* Any other await fails: the database, Telegram's answer, the commit.     *)
Fails(r) == pc[r] \notin {"idle", "ack"} /\ Fault /\ Raise(r)

(* Telegram gives up on the connection, the request runs on. *)
Timeout(r) == /\ r \in open
              /\ Fault
              /\ open' = open \ {r}
              /\ UNCHANGED <<limiterVars, chatVars, dbVars, pc, job, seen, mine, found>>

Crash ==
  /\ Fault
  /\ Restart
  /\ pc' = [r \in Requests |-> "idle"]
  /\ open' = {}
  /\ holder' = [c \in Users |-> NONE]
  /\ mine' = [r \in Requests |-> NONE]
  /\ found' = [r \in Requests |-> Unread]
  /\ seen' = [r \in Requests |-> 0]
  /\ job' = [r \in Requests |-> NONE]
  /\ UNCHANGED <<chatVars, users, events>>

-----------------------------------------------------------------------------
Init ==
  /\ LimiterInit
  /\ said \in {s \in [Updates -> Messages] : \A u \in Updates : s[u] \in MaySay[u]}
  /\ inbox = Updates
  /\ told = {}
  /\ users \in [Users -> {[rows |-> 0, tz |-> 0], [rows |-> 1, tz |-> 0]}]
  /\ holder = [c \in Users |-> NONE]
  /\ events = {}
  /\ pc = [r \in Requests |-> "idle"]
  /\ job = [r \in Requests |-> NONE]
  /\ open = {}
  /\ seen = [r \in Requests |-> 0]
  /\ mine = [r \in Requests |-> NONE]
  /\ found = [r \in Requests |-> Unread]
  /\ faults = 0

RequestStep(r) == \/ TellSlow(r) \/ GetUser(r) \/ InsertUser(r) \/ IntegrityError(r)
                  \/ SetTimezone(r) \/ Answer(r) \/ ReplyRejected(r)
                  \/ Commit(r) \/ Ack(r)

Pass == Tick /\ UNCHANGED <<chatVars, dbVars, requestVars, faults>>

Next == \/ \E r \in Requests, u \in Updates : Deliver(r, u)
        \/ \E r \in Requests : RequestStep(r) \/ Fails(r) \/ Timeout(r)
        \/ Crash
        \/ Pass

Spec == Init /\ [][Next]_vars

(* The event loop goes on, waiters of a row lock are served, and Telegram  *)
(* repeats what it has had no 200 for.                                     *)
Fairness == /\ \A r \in Requests : WF_vars(RequestStep(r))
            /\ \A u \in Updates : WF_vars(\E r \in Requests : Deliver(r, u))

FairSpec == Spec /\ Fairness

-----------------------------------------------------------------------------
(* Properties *)

Reading == [at : 0..MaxTime, tz : Zones, event : {NoEvent} \cup [start : Int]]

(* What concerns neither the limiter nor the parser. *)
ControlTypes ==
  /\ said \in [Updates -> Messages]
  /\ inbox \subseteq Updates
  /\ users \in [Users -> [rows : Nat, tz : Zones]]
  /\ holder \in [Users -> Requests \cup {NONE}]
  /\ pc \in [Requests -> Points]
  /\ job \in [Requests -> Updates \cup {NONE}]
  /\ open \subseteq Requests
  /\ seen \in [Requests -> Zones]
  /\ mine \in [Requests -> {NONE} \cup [rows : {0, 1}, tz : Zones]]
  /\ faults \in 0..MaxFaults

DataTypes ==
  /\ told \subseteq Updates \X (Kinds \cup {"slow", "unclear", "preview"})
  /\ events \subseteq [by : Updates, n : Nat, start : Int]
  /\ found \in [Requests -> Reading]

TypeOK == LimiterTypes /\ ControlTypes /\ DataTypes

(* Two first messages of a user that overlap leave one row, whoever wins.  *)
OneUserPerChat == \A c \in Users : users[c].rows <= 1

Asked(c, z) == \E u \in Updates : /\ Sender[u] = c
                                 /\ said[u].kind = "timezone"
                                 /\ said[u].tz = z

(* The time zone a user has set is changed by another /timezone only: no   *)
(* overlapping first message, redelivery or rollback puts UTC back.        *)
TimezoneOnlyByCommand ==
  [][\A c \in Users : users'[c].tz # users[c].tz => Asked(c, users'[c].tz)]_vars

(* A message with a 200 has had its effect: its event is committed, its    *)
(* zone, or one asked for meanwhile, is set; or the user has been told why *)
(* not.  No crash, rollback or overlap lets one vanish.                    *)
Done(u) ==
  \/ <<u, "slow">> \in told
  \/ CASE said[u].kind = "text"     -> <<u, "unclear">> \in told \/ EventsOf(u) # {}
       [] said[u].kind = "timezone" -> \/ users[Sender[u]].tz = said[u].tz
                                       \/ \E v \in Updates \ {u} :
                                            /\ Sender[v] = Sender[u]
                                            /\ said[v].kind = "timezone"
                                            /\ users[Sender[u]].tz = said[v].tz
       [] said[u].kind = "connect"  -> Exists(Sender[u])
       [] OTHER                     -> <<u, said[u].kind>> \in told

AcknowledgedIsDone ==
  [][\A u \in Updates : u \in inbox /\ u \notin inbox' => Done(u)']_vars

(* A text makes more than one pending event only when Telegram timed out   *)
(* or the process crashed, once for each.                                  *)
DuplicatesNeedAFault ==
  \A u \in Updates : Cardinality(EventsOf(u)) <= 1 + faults

(* A message is turned away only when Limit messages of the same user were *)
(* handled in the window that ends with it.                                *)
RejectedOnlyWhenFull ==
  [][\A r \in Requests :
       pc[r] = "idle" /\ pc'[r] = "slow"
         => Cardinality(InWindow(handled[Sender[job'[r]]], now)) >= Limit]_vars

(* What the writer means: an event if it lies in the future.               *)
Intended(text, tz, at) ==
  IF /\ text.size = "ok"
     /\ text.fragments # <<>>
     /\ Meant(text, tz, at) > at
     /\ text.titled
    THEN [start |-> Meant(text, tz, at)]
    ELSE NoEvent

Read(r) == pc[r] = "commit" /\ Message(r).kind = "text"

(* A text that names an hour is read as its writer meant it, in whatever   *)
(* zone, at a moment when the writer's clock is on the same side of        *)
(* midnight, and of an hour named without a day, as the clock of UTC.      *)
UnderstoodAsMeant ==
  \A r \in Requests :
    LET x == Message(r).text
        f == found[r]
    IN /\ Read(r)
       /\ x.fragments # <<>>
       /\ NamesHour(Expression(x))
       /\ SameDay(f.tz, f.at, Expression(x))
       => f.event = Intended(x, f.tz, f.at)

(* The parser starts from the clock of UTC: an event at a distance of      *)
(* hours from now is off by exactly the user's UTC offset, an event at a   *)
(* named hour is right, or off by one day.  (An event on a day without an  *)
(* hour is off by more than the clock: there is no default hour.)          *)
MisreadByTheClock ==
  \A r \in Requests :
    LET x == Message(r).text
        f == found[r]
        error == f.event.start - Meant(x, f.tz, f.at)
    IN Read(r) /\ f.event # NoEvent =>
         /\ Expression(x).kind = "in" => error = -f.tz
         /\ NamesHour(Expression(x)) => error \in {-Day, 0, Day}

(* Messages keep the promise of MessagePromise. *)
Promise == INSTANCE MessagePromise
             WITH known <- {c \in Users : Exists(c)},
                  zone <- [c \in Users |-> users[c].tz],
                  made <- [u \in Updates |-> Cardinality(EventsOf(u))]
PromiseKept == Promise!Spec

(* Every message that can be answered has its 200 in the end, also one     *)
(* that loses the race for the user's row or meets a fault, and beside one *)
(* that fails whenever it is delivered and comes again and again.          *)
MessagesAreAnswered ==
  \A u \in Updates : u \in inbox /\ said[u].html ~> u \notin inbox

-----------------------------------------------------------------------------
(* The inductive invariant behind the safety properties *)

ControlInv ==
  /\ now \in Nat
  /\ DOMAIN found = Requests /\ found = [r \in Requests |-> found[r]]
  /\ \A r \in Requests : pc[r] = "idle" => r \notin open
  /\ \A r \in Requests : pc[r] # "idle" => job[r] \in Updates

(* A user without a row has no zone, one with a zone has asked for it.     *)
UserInv ==
  \A c \in Users : /\ users[c].rows <= 1
                   /\ users[c].rows = 0 => users[c].tz = 0
                   /\ users[c].tz = 0 \/ Asked(c, users[c].tz)

NeedsUser(m) == m.kind \in {"text", "timezone", "connect"}

(* What a transaction has written is locked; it inserts a row only where   *)
(* there is none, and sets a zone only if its user asked for it.           *)
LockInv ==
  \A r \in Requests : mine[r] # NONE =>
    /\ pc[r] \in {"zone", "answer", "commit"}
    /\ NeedsUser(Message(r))
    /\ holder[Chat(r)] = r
    /\ mine[r].rows = 1 => ~Exists(Chat(r))
    /\ \/ mine[r].rows = 1 /\ mine[r].tz = 0
       \/ Message(r).kind = "timezone" /\ mine[r].tz = Message(r).tz

(* Who needs a user has one, in the database or in the transaction.        *)
HasUserInv ==
  \A r \in Requests :
    /\ pc[r] = "user" => Message(r).kind # "help"
    /\ pc[r] \in {"insert", "zone"} => NeedsUser(Message(r))
    /\ pc[r] \in {"zone", "answer", "commit"} /\ NeedsUser(Message(r)) =>
         Exists(Chat(r)) \/ (mine[r] # NONE /\ mine[r].rows = 1)

(* The zone that a request has seen is current, or was changed because the *)
(* user asked for it; the zone it sets is the one of its message.          *)
ZoneInv ==
  \A r \in Requests :
    /\ pc[r] = "zone" =>
         /\ Message(r).kind = "timezone"
         /\ IF mine[r] = NONE
              THEN users[Chat(r)].tz = seen[r] \/ Asked(Chat(r), users[Chat(r)].tz)
              ELSE mine[r].tz = 0 /\ seen[r] = 0
    /\ pc[r] \in {"answer", "commit"} /\ Message(r).kind = "timezone" =>
         IF mine[r] = NONE
           THEN users[Chat(r)].tz = Message(r).tz \/ Asked(Chat(r), users[Chat(r)].tz)
           ELSE mine[r].tz = Message(r).tz

(* A session holds what the parser found from the reply to the commit.     *)
FoundInv ==
  \A r \in Requests :
    pc[r] # "commit" \/ Message(r).kind # "text" => found[r] = Unread

(* Before its commit a request has told its user, and read the text as the *)
(* parser reads it; after it, the message is done.                         *)
ReplyInv ==
  \A r \in Requests :
    /\ pc[r] = "commit" =>
         CASE Message(r).kind = "text" ->
                /\ found[r].at \in Nat
                /\ found[r].tz \in Zones
                /\ found[r].event = ParseMessage(Message(r).text, found[r].tz, found[r].at)
                /\ <<job[r], IF found[r].event = NoEvent THEN "unclear"
                                                         ELSE "preview">> \in told
           [] OTHER -> <<job[r], Message(r).kind>> \in told
    /\ pc[r] = "ack" => Done(job[r])

(* Requests that may still commit an event of a message, and whether       *)
(* Telegram is going to deliver it again: each may add one event, and a    *)
(* fault is needed to have one more of them.                               *)
Working(u) == {r \in Requests : job[r] = u /\ pc[r] \notin {"idle", "ack"}}
Awaited(u) == IF u \in inbox /\ \A r \in open : job[r] # u THEN 1 ELSE 0

EventInv ==
  /\ IsFiniteSet(events)
  /\ \A u \in Updates :
       Cardinality(EventsOf(u)) + Cardinality(Working(u)) + Awaited(u) <= 1 + faults

IInv == /\ ControlTypes /\ ControlInv /\ UserInv /\ LockInv
        /\ HasUserInv /\ ZoneInv /\ FoundInv /\ ReplyInv /\ EventInv
        /\ DataTypes /\ LimiterInv

=============================================================================
