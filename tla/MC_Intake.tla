------------------------------ MODULE MC_Intake ------------------------------
(* A user, two messages, two requests, a limit of 2 messages in 2 hours;   *)
(* a day of 3 hours, so that the clock of a user one hour ahead of UTC or  *)
(* behind it shows another date a third of the time.                       *)
EXTENDS Intake, TLC

CONSTANTS c1, u1, u2, r1, r2

OneUser == {c1}
TwoUpdates == {u1, u2}
TwoRequests == {r1, r2}
FromOne == [u \in TwoUpdates |-> c1]

Says(kind, tz, text, html) == [kind |-> kind, tz |-> tz, text |-> text, html |-> html]
NoText == Text("blank", <<>>, Nothing, FALSE)

\* "call in an hour"; "training tomorrow at 1"; "at 1 or tomorrow, yoga", whose
\* fragments make no date together
InAnHour == Text("ok", <<In(1)>>, In(1), TRUE)
TheHour  == Text("ok", <<On(1), At(1)>>, OnAt(1, 1), TRUE)
Unjoined == Text("ok", <<At(1), On(1)>>, Nothing, TRUE)

Write(x)   == Says("text", 0, x, TRUE)
Tagged(x)  == Says("text", 0, x, FALSE)      \* with a "<" in its title
Zone(z)    == Says("timezone", z, NoText, TRUE)
Command(k) == Says(k, 0, NoText, TRUE)

TwoMessages ==
  u1 :> {Zone(1), Write(Unjoined), Write(InAnHour)}
    @@ u2 :> {Zone(-1), Write(TheHour), Tagged(TheHour), Command("list")}
=============================================================================
