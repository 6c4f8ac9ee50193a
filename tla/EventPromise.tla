---------------------------- MODULE EventPromise ----------------------------
(***************************************************************************)
(* What the bot promises about an event, whatever crashes, double taps,    *)
(* redeliveries and late answers happen below (event_service.py 1-20,      *)
(* calendar_service.py 1-13): nothing reaches the user's calendar unless   *)
(* the user asked for it, a row says "synced" only when the event is in    *)
(* the calendar, and a row that has left "pending" never returns to it.    *)
(* EventSync is shown to implement this module.                            *)
(***************************************************************************)
CONSTANT Events

VARIABLES
  status,     \* the committed status of each event's row, "absent" before INSERT
  asked,      \* the events whose "Create" button was pressed
  calendar    \* the events that exist in Google Calendar

vars == <<status, asked, calendar>>

Init == /\ status = [e \in Events |-> "absent"]
        /\ asked = {}
        /\ calendar = {}

(* A parsed message becomes a pending row. *)
Create(e) == /\ status[e] = "absent"
             /\ status' = [status EXCEPT ![e] = "pending"]
             /\ UNCHANGED <<asked, calendar>>

(* The user presses "Create". *)
Ask(e) == /\ asked' = asked \cup {e}
          /\ UNCHANGED <<status, calendar>>

(* Google adds an event: only one that was asked for. *)
Add(e) == /\ e \in asked
          /\ calendar' = calendar \cup {e}
          /\ UNCHANGED <<status, asked>>

(* A transaction commits a new status: only for an existing row that the   *)
(* user asked for, and "synced" only for an event the calendar has.        *)
Settle(e, s) == /\ status[e] # "absent"
                /\ e \in asked
                /\ s = "synced" => e \in calendar
                /\ status' = [status EXCEPT ![e] = s]
                /\ UNCHANGED <<asked, calendar>>

Next == \E e \in Events :
          \/ Create(e)
          \/ Ask(e)
          \/ Add(e)
          \/ \E s \in {"confirmed", "synced", "failed"} : Settle(e, s)

Spec == Init /\ [][Next]_vars
=============================================================================
