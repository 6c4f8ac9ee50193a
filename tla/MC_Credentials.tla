--------------------------- MODULE MC_Credentials ---------------------------
(* Small instances of Credentials for TLC. *)
EXTENDS Credentials, TLC

CONSTANTS u1, u2, r1, r2

OneUser  == {u1}
TwoUsers == {u1, u2}
Nobody   == {}
Second   == {u2}
OneRequest  == {r1}
TwoRequests == {r1, r2}

RequestSymmetry == Permutations(TwoRequests)
=============================================================================
