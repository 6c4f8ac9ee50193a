--------------------------- MODULE InsertPromise ----------------------------
(***************************************************************************)
(* What EventSync takes calendar_service.create_event to be: one request   *)
(* that leaves, an event that may appear in the calendar any time after,   *)
(* and one answer, which is "ok" only when the event is there.             *)
(***************************************************************************)
CONSTANTS Calls, Keys, KeyOf

VARIABLES
  sent,      \* calls whose request has left
  result,    \* [call -> "none", "ok", "error" (GoogleApiError), "raised"]
  inserted   \* keys with an event in the calendar

vars == <<sent, result, inserted>>

Init == sent = {} /\ result = [c \in Calls |-> "none"] /\ inserted = {}

Send(c) == /\ sent' = sent \cup {c}
           /\ UNCHANGED <<result, inserted>>

Insert(c) == /\ c \in sent
             /\ inserted' = inserted \cup {KeyOf[c]}
             /\ UNCHANGED <<sent, result>>

Return(c, r) == /\ c \in sent
                /\ result[c] = "none"
                /\ r = "ok" => KeyOf[c] \in inserted
                /\ result' = [result EXCEPT ![c] = r]
                /\ UNCHANGED <<sent, inserted>>

Next == \E c \in Calls : \/ Send(c)
                         \/ Insert(c)
                         \/ \E r \in {"ok", "error", "raised"} : Return(c, r)

Spec == Init /\ [][Next]_vars
=============================================================================
