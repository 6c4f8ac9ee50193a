--------------------------- MODULE MessagePromise ---------------------------
(***************************************************************************)
(* What the bot promises about a message, whatever crashes, redeliveries,  *)
(* timeouts and overlapping sessions happen below (middlewares.py 18-35,   *)
(* user_service.py, events.py, connect.py): a session's effect is that of  *)
(* one message, for its sender, whole or not at all; an event is made only *)
(* of a text whose preview was shown, by a user who has a row; and a 200   *)
(* is given to a message that is done.  Intake implements this module.     *)
(***************************************************************************)
EXTENDS Naturals

CONSTANTS Updates, Users, Sender

VARIABLES
  said,       \* update -> message: its kind and the zone it names, if any
  inbox,      \* updates without a 200
  told,       \* what was answered: pairs of update and reply
  known,      \* the users with a row
  zone,       \* the time zone of each user
  made        \* how many events each update has made

vars == <<said, inbox, told, known, zone, made>>

Init == /\ inbox = Updates
        /\ told = {}
        /\ known \subseteq Users
        /\ zone = [c \in Users |-> 0]
        /\ made = [u \in Updates |-> 0]

Replies(m) == IF m.kind = "text" THEN {"preview", "unclear"} ELSE {m.kind}

(* The user is told; nothing is stored yet. *)
Tell(u) == /\ \E reply \in Replies(said[u]) : told' = told \cup {<<u, reply>>}
           /\ UNCHANGED <<said, inbox, known, zone, made>>

(* A message too many is turned away, with a 200 if Telegram still waits.  *)
TurnAway(u) == /\ told' = told \cup {<<u, "slow">>}
               /\ inbox' \in {inbox, inbox \ {u}}
               /\ UNCHANGED <<said, known, zone, made>>

(* A session commits: the sender has a row, a /timezone may have set its   *)
(* zone, a previewed text may have made an event.                          *)
Effect(u) ==
  /\ said[u].kind \in {"text", "timezone", "connect"}
  /\ known' = known \cup {Sender[u]}
  /\ \/ UNCHANGED zone
     \/ said[u].kind = "timezone" /\ zone' = [zone EXCEPT ![Sender[u]] = said[u].tz]
  /\ \/ UNCHANGED made
     \/ /\ said[u].kind = "text"
        /\ <<u, "preview">> \in told
        /\ made' = [made EXCEPT ![u] = @ + 1]
  /\ UNCHANGED <<said, inbox, told>>

(* Its effect is there, or a later one, or its sender knows why not.       *)
Done(u) ==
  \/ <<u, "slow">> \in told
  \/ said[u].kind = "text" /\ (<<u, "unclear">> \in told \/ made[u] > 0)
  \/ /\ said[u].kind = "timezone"
     /\ \E v \in Updates : /\ Sender[v] = Sender[u]
                           /\ said[v].kind = "timezone"
                           /\ said[v].tz = zone[Sender[u]]
  \/ said[u].kind = "connect" /\ Sender[u] \in known
  \/ said[u].kind \in {"list", "help"} /\ <<u, said[u].kind>> \in told

Acknowledge(u) == /\ u \in inbox
                  /\ Done(u)
                  /\ inbox' = inbox \ {u}
                  /\ UNCHANGED <<said, told, known, zone, made>>

Next == \E u \in Updates : Tell(u) \/ TurnAway(u) \/ Effect(u) \/ Acknowledge(u)

Spec == Init /\ [][Next]_vars
=============================================================================
