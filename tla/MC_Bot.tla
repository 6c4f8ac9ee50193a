------------------------------- MODULE MC_Bot -------------------------------
(* An event, two requests with one press of each button at most, the retry *)
(* job, and one connection less than there are processes.                  *)
EXTENDS Bot, TLC

CONSTANTS e1, h1, h2, u1

OneEvent == {e1}
TwoHandlers == {h1, h2}
OneOwner == [e \in OneEvent |-> u1]
=============================================================================
