--------------------------- MODULE CalendarClient ----------------------------
(***************************************************************************)
(* calendar_service.create_event: the tenacity loop around events.insert,  *)
(* over a network that loses answers, and Google's side of the id.  Every  *)
(* call runs in a thread of its own (asyncio.to_thread), so several may    *)
(* insert the same event: a double tap, a redelivery, the retry job.       *)
(***************************************************************************)
EXTENDS Naturals

CONSTANTS
  Calls,      \* calls of create_event
  Keys,       \* idempotency keys, one per row of the events table
  KeyOf,      \* the row each call is made for
  Attempts    \* stop_after_attempt(3)

ASSUME KeyAssumption == KeyOf \in [Calls -> Keys]
ASSUME AttemptAssumption == Attempts \in Nat \ {0}

VARIABLES
  state,      \* where each call is; the last three are what it ends with
  attempt,    \* number of requests it has sent
  network,    \* requests under way that Google may still apply
  applied,    \* requests Google has handled: their answers may come, or not
  entries     \* events in the calendar

vars == <<state, attempt, network, applied, entries>>

Results == {"ok", "error", "raised"}
States  == {"ready", "waiting", "backoff"} \cup Results

Request == [call : Calls, n : 1..Attempts]

Last(c) == [call |-> c, n |-> attempt[c]]

(* _normalize_idempotency_key drops the hyphens and lowers the case of a   *)
(* UUID, which is one to one: the id of an event depends on its row alone. *)
EventId_perCall(q) == q.call
EventId(q) == KeyOf[q.call]

Send_firstOnly(c) ==
  /\ state[c] = "ready"
  /\ state' = [state EXCEPT ![c] = "waiting"]
  /\ attempt' = [attempt EXCEPT ![c] = @ + 1]
  /\ network' = network \cup {[call |-> c, n |-> attempt[c] + 1]}
  /\ UNCHANGED <<applied, entries>>

Send(c) ==
  /\ state[c] \in {"ready", "backoff"}
  /\ state' = [state EXCEPT ![c] = "waiting"]
  /\ attempt' = [attempt EXCEPT ![c] = @ + 1]
  /\ network' = network \cup {[call |-> c, n |-> attempt[c] + 1]}
  /\ UNCHANGED <<applied, entries>>

(* Google inserts, unless the calendar has an event with that id.          *)
Apply(q) ==
  /\ q \in network
  /\ network' = network \ {q}
  /\ applied' = applied \cup {q}
  /\ entries' = IF \E x \in entries : x.id = EventId(q)
                THEN entries
                ELSE entries \cup {[id |-> EventId(q), made_by |-> q]}
  /\ UNCHANGED <<state, attempt>>

Lose(q) ==
  /\ q \in network
  /\ network' = network \ {q}
  /\ UNCHANGED <<state, attempt, applied, entries>>

(* A 2xx answer to the last request, with the event or the existing one.   *)
Answered_assumed(c) == TRUE
Answered(c) == Last(c) \in applied

Ok(c) ==
  /\ state[c] = "waiting"
  /\ Answered(c)
  /\ state' = [state EXCEPT ![c] = "ok"]
  /\ UNCHANGED <<attempt, network, applied, entries>>

(* HttpError 429, 500 or 503, or TimeoutError, ConnectionError, OSError:   *)
(* another attempt, and after the last one the error itself (reraise).     *)
CanRetry_onceMore(c) == attempt[c] <= Attempts
CanRetry(c) == attempt[c] < Attempts

Transient(c) ==
  /\ state[c] = "waiting"
  /\ \/ CanRetry(c) /\ state' = [state EXCEPT ![c] = "backoff"]
     \/ /\ ~CanRetry(c)
        /\ \E r \in {"error", "raised"} : state' = [state EXCEPT ![c] = r]
  /\ UNCHANGED <<attempt, network, applied, entries>>

(* Any other HttpError becomes GoogleApiError, any other exception stays   *)
(* what it is; neither is retried.                                         *)
Permanent(c) ==
  /\ state[c] = "waiting"
  /\ \E r \in {"error", "raised"} : state' = [state EXCEPT ![c] = r]
  /\ UNCHANGED <<attempt, network, applied, entries>>

Init ==
  /\ state = [c \in Calls |-> "ready"]
  /\ attempt = [c \in Calls |-> 0]
  /\ network = {}
  /\ applied = {}
  /\ entries = {}

Step(c) == Send(c) \/ Ok(c) \/ Transient(c) \/ Permanent(c)

Next == \/ \E c \in Calls : Step(c)
        \/ \E q \in Request : Apply(q) \/ Lose(q)

Spec == Init /\ [][Next]_vars

(* The thread runs on: the HTTP library answers or times out.              *)
FairSpec == Spec /\ \A c \in Calls : WF_vars(Step(c) /\ state[c] # "ready")

-----------------------------------------------------------------------------
TypeOK ==
  /\ state \in [Calls -> States]
  /\ attempt \in [Calls -> 0..Attempts]
  /\ network \subseteq Request
  /\ applied \subseteq Request
  /\ entries \subseteq [id : Keys, made_by : Request]

(* However often the insert is retried, by one call or by several at once, *)
(* and however late a request lands, a row has one event in the calendar.  *)
OneEventPerRow ==
  \A x, y \in entries : KeyOf[x.made_by.call] = KeyOf[y.made_by.call] => x = y

(* A call that has begun ends, in a bounded number of attempts.            *)
CallsEnd == \A c \in Calls : state[c] # "ready" ~> state[c] \in Results

(* The call is the single request EventSync takes it for.                  *)
Promise == INSTANCE InsertPromise
             WITH sent <- {c \in Calls : attempt[c] > 0},
                  result <- [c \in Calls |-> IF state[c] \in Results THEN state[c]
                                                                     ELSE "none"],
                  inserted <- {KeyOf[x.made_by.call] : x \in entries}
InsertPromiseKept == Promise!Spec
=============================================================================
