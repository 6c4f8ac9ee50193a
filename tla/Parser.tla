------------------------------- MODULE Parser --------------------------------
(***************************************************************************)
(* parse_message: the order of its decisions and its clock arithmetic.     *)
(* Instants, wall clocks and UTC offsets are numbers of hours, a day has   *)
(* Day of them.  The words themselves are dateparser's business: a text is *)
(* what search_dates and parse make of it.                                 *)
(***************************************************************************)
EXTENDS Integers, Sequences

CONSTANTS
  Day,         \* hours of a day
  DefaultHour, \* README 561: 09:00, the hour of a text that names only a day
  NoEvent      \* parse_message's None

ASSUME DayAssumption == Day \in Nat \ {0} /\ DefaultHour \in 0..(Day - 1)

(* What a date expression says: "in n hours", "in n days" (no hour named), *)
(* "at n o'clock", "in d days at n o'clock"; or nothing.                   *)
In(n)      == [kind |-> "in", days |-> 0, hours |-> n]
On(d)      == [kind |-> "on", days |-> d, hours |-> 0]
At(n)      == [kind |-> "at", days |-> 0, hours |-> n]
OnAt(d, n) == [kind |-> "onat", days |-> d, hours |-> n]
Nothing    == [kind |-> "nothing", days |-> 0, hours |-> 0]

(* A text: its length; the date fragments search_dates finds; what parse   *)
(* makes of all of them joined, perhaps Nothing; whether words are left    *)
(* when the fragments are taken out.                                       *)
Text(size, fragments, joined, titled) ==
  [size |-> size, fragments |-> fragments, joined |-> joined, titled |-> titled]

Expressions == [kind : {"in", "on", "at", "onat"}, days : Nat, hours : Nat]

Texts == [size      : {"ok", "blank", "long"},
          fragments : Seq(Expressions),
          joined    : Expressions \cup {Nothing},
          titled    : BOOLEAN]

Midnight(wall) == (wall \div Day) * Day

(* dateparser with RELATIVE_BASE = base and PREFER_DATES_FROM = "future":  *)
(* the wall clock it makes of an expression.  An hour that has passed is   *)
(* that of the next day; a day without an hour keeps the time of the base. *)
Wall(base, x) ==
  CASE x.kind = "in"   -> base + x.hours
    [] x.kind = "on"   -> base + x.days * Day
    [] x.kind = "onat" -> Midnight(base) + x.days * Day + x.hours
    [] x.kind = "at"   -> LET today == Midnight(base) + x.hours
                          IN IF today >= base THEN today ELSE today + Day

(* now.replace(tzinfo=None): the clock of UTC is the wall clock the parser *)
(* starts from, whatever the user's time zone.                             *)
RelativeBase(at) == at

(* "TIMEZONE" and "RETURN_AS_TIMEZONE_AWARE": the instant at which clocks  *)
(* tz ahead of UTC show wall.  (Aware_utc is a mistake one could make.)    *)
Aware_utc(wall, tz) == wall
Aware(wall, tz) == wall - tz

(* The joined fragments, or else the first one. *)
Expression(text) == IF text.joined = Nothing THEN Head(text.fragments) ELSE text.joined

Start(text, tz, at) == Aware(Wall(RelativeBase(at), Expression(text)), tz)

(* A text is taken for an event if it is neither blank nor too long, has a *)
(* date that is not past, and a title besides.                             *)
IsEvent(text, tz, at) ==
  /\ text.size = "ok"
  /\ text.fragments # <<>>
  /\ Start(text, tz, at) > at
  /\ text.titled

ParseMessage(text, tz, at) ==
  IF IsEvent(text, tz, at) THEN [start |-> Start(text, tz, at)] ELSE NoEvent

-----------------------------------------------------------------------------
(* The reference: the instant a writer whose clock is tz ahead of UTC has  *)
(* in mind, on a day without an hour the default one.                      *)
MeantWall(wall, x) == IF x.kind = "on" THEN Midnight(wall) + x.days * Day + DefaultHour
                                       ELSE Wall(wall, x)

Meant(text, tz, at) == MeantWall(at + tz, Expression(text)) - tz

NamesHour(x) == x.kind \in {"at", "onat"}

(* The writer's calendar shows the same date as a calendar in UTC, and an  *)
(* hour named without a day is still to come by both clocks or by none.    *)
SameDate(tz, at) == Midnight(at) = Midnight(at + tz)

SameDay(tz, at, x) ==
  /\ SameDate(tz, at)
  /\ x.kind = "at" => (Midnight(at) + x.hours >= at <=> Midnight(at) + x.hours >= at + tz)
=============================================================================
