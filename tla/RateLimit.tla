------------------------------ MODULE RateLimit ------------------------------
(***************************************************************************)
(* RateLimitMiddleware: a sliding window of timestamps per user, evicted   *)
(* when the user's next message arrives, kept in memory only.  The body up *)
(* to the handler has no await, so a message is judged in one step.        *)
(* Intake extends this module with the messages that are judged.           *)
(*                                                                         *)
(* A list of timestamps is a set of stamps, the number of a stamp telling  *)
(* apart messages of the same time: nothing depends on the list's order.   *)
(***************************************************************************)
EXTENDS Naturals, FiniteSets

CONSTANTS
  Users,
  Limit,       \* limit=10
  Window,      \* window=60 seconds
  MaxTime      \* bound: the clock stops there

ASSUME NumbersAssumption == Limit \in Nat \ {0} /\ Window \in Nat \ {0} /\ MaxTime \in Nat

VARIABLES
  now,         \* datetime.now(UTC)
  history,     \* self._history: user -> its stamps
  handled,     \* the stamps ever passed on, which the code forgets
  restarts     \* the restarts of the process, stamped

limiterVars == <<now, history, handled, restarts>>

Stamp == [at : 0..MaxTime, n : Nat \ {0}]

(* The next of a set of stamps, at this moment. *)
Fresh(stamps) == [at |-> now, n |-> Cardinality(stamps) + 1]

(* The list comprehension that evicts what is outside the window. *)
(* Names with a suffix are mistakes one could make; no action uses them.   *)
Inside_inclusive(t, at) == t + Window >= at
Inside_early(t, at) == t + Window > at + 1
Inside(t, at) == t + Window > at

Evicted(h, at) == {s \in h : Inside(s.at, at)}

Full_late(h) == Cardinality(h) > Limit
Full(h) == Cardinality(h) >= Limit

Allowed(u) == ~Full(Evicted(history[u], now))

(* A message of u is recorded and handled, or turned away. *)
Judge(u) ==
  LET h == Evicted(history[u], now)
      s == Fresh(handled[u])
  IN /\ \/ /\ Allowed(u)
           /\ history' = [history EXCEPT ![u] = h \cup {s}]
           /\ handled' = [handled EXCEPT ![u] = @ \cup {s}]
        \/ /\ ~Allowed(u)
           /\ history' = [history EXCEPT ![u] = h]
           /\ UNCHANGED handled
     /\ UNCHANGED <<now, restarts>>

Tick == /\ now < MaxTime
        /\ now' = now + 1
        /\ UNCHANGED <<history, handled, restarts>>

Forget == [u \in Users |-> {}]

(* A new process has a new, empty history. *)
Restart == /\ history' = Forget
           /\ restarts' = restarts \cup {Fresh(restarts)}
           /\ UNCHANGED <<now, handled>>

LimiterInit == /\ now = 0
               /\ history = Forget
               /\ handled = Forget
               /\ restarts = {}

-----------------------------------------------------------------------------
LimiterTypes == /\ now \in 0..MaxTime
                /\ history \in [Users -> SUBSET Stamp]
                /\ \A u \in Users : Cardinality(history[u]) <= Limit
                /\ handled \in [Users -> SUBSET Stamp]
                /\ restarts \subseteq Stamp

(* The stamps that lie in the window that ends at t.                       *)
InWindow(stamps, t) == {s \in stamps : s.at <= t /\ t < s.at + Window}

(* In no window of that length, wherever it ends, are more messages of a   *)
(* user handled than Limit, and as many again for each restart in it:      *)
(* eviction forgets nothing that still counts, a restart forgets it once.  *)
AtMostLimit ==
  \A u \in Users : \A t \in 0..MaxTime :
    Cardinality(InWindow(handled[u], t))
      <= Limit * (1 + Cardinality(InWindow(restarts, t)))

-----------------------------------------------------------------------------
(* The inductive invariant behind it (RateLimitProofs)                     *)

(* Stamps are of the past, numbered as they came.                          *)
Stamped(stamps) ==
  /\ IsFiniteSet(stamps)
  /\ \A s \in stamps : s.at <= now /\ s.n <= Cardinality(stamps)

StampInv == /\ \A u \in Users : Stamped(handled[u]) /\ history[u] \subseteq handled[u]
            /\ Stamped(restarts)

(* What has been forgotten though it still counts, in a window that has    *)
(* not ended, was forgotten by restarts in that window.                    *)
WindowInv ==
  \A u \in Users : \A t \in 0..MaxTime :
    IF t < now
      THEN Cardinality(InWindow(handled[u], t))
             <= Limit * (1 + Cardinality(InWindow(restarts, t)))
      ELSE Cardinality(InWindow(handled[u], t) \ history[u])
             <= Limit * Cardinality(InWindow(restarts, t))

LimiterInv == LimiterTypes /\ StampInv /\ WindowInv
=============================================================================
