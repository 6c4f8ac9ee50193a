------------------------- MODULE CredentialPromise --------------------------
(***************************************************************************)
(* What the bot promises about a user's Google credentials, whatever       *)
(* overlapping sessions, crashes and network failures happen below         *)
(* (auth_service.py, connect.py, refresh_tokens.py): a row is renewed only *)
(* while it exists and only by a refresh token that decrypts; it goes only *)
(* when the user disconnects, the token endpoint refuses a refresh or the  *)
(* refresh token is corrupt, and then for good.  Credentials implements    *)
(* this module.                                                            *)
(***************************************************************************)
CONSTANT Users

VARIABLES
  row,       \* what the database has: nothing, or how long the token lasts
  grant,     \* what the refresh token is worth
  causes     \* who has sent /disconnect, whom the token endpoint refused

vars == <<row, grant, causes>>

Init == /\ row \in [Users -> {"none", "fresh", "expiring", "expired"}]
        /\ grant \in [Users -> {"good", "corrupt"}]
        /\ causes = {}

Age(u) == /\ \/ row[u] = "fresh" /\ row' = [row EXCEPT ![u] = "expiring"]
             \/ row[u] = "expiring" /\ row' = [row EXCEPT ![u] = "expired"]
          /\ UNCHANGED <<grant, causes>>

Revoke(u) == /\ grant[u] = "good"
             /\ grant' = [grant EXCEPT ![u] = "revoked"]
             /\ UNCHANGED <<row, causes>>

(* The user sends /disconnect, or the token endpoint answers a refresh of  *)
(* theirs with an error, which says nothing of the grant.                  *)
Leave(u) == /\ causes' = causes \cup {<<u, "disconnected">>}
            /\ UNCHANGED <<row, grant>>

Refuse(u) == /\ grant[u] # "corrupt"
             /\ causes' = causes \cup {<<u, "refused">>}
             /\ UNCHANGED <<row, grant>>

(* Google gave a new token; the grant may have been withdrawn since.       *)
Renew(u) == /\ row[u] # "none"
            /\ grant[u] # "corrupt"
            /\ row' = [row EXCEPT ![u] = "fresh"]
            /\ UNCHANGED <<grant, causes>>

Remove(u) == /\ \/ \E why \in {"disconnected", "refused"} : <<u, why>> \in causes
                \/ grant[u] = "corrupt"
             /\ row' = [row EXCEPT ![u] = "none"]
             /\ UNCHANGED <<grant, causes>>

Next == \E u \in Users : Age(u) \/ Revoke(u) \/ Leave(u) \/ Refuse(u)
                         \/ Renew(u) \/ Remove(u)

Spec == Init /\ [][Next]_vars
=============================================================================
