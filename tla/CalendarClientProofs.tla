------------------------ MODULE CalendarClientProofs -------------------------
(***************************************************************************)
(* Theorems about CalendarClient, for any number of calls, rows and        *)
(* attempts: its types, one calendar entry per row, and that the tenacity  *)
(* loop is the single request EventSync takes it for.                      *)
(***************************************************************************)
EXTENDS CalendarClient, TLAPS

-----------------------------------------------------------------------------
(* The inductive invariant *)

(* A call that may send has an attempt left.                               *)
CallInv == \A c \in Calls :
  /\ state[c] = "ready" => attempt[c] = 0
  /\ state[c] = "backoff" => attempt[c] < Attempts

(* A call that waits, or has an answer, has sent something.                *)
WaitInv == \A c \in Calls : state[c] # "ready" => attempt[c] # 0

(* Nothing is on the network, or at Google, that was not sent.             *)
SentInv == \A q \in network \cup applied : q.n <= attempt[q.call]

(* Entries carry the id of the row they were made for, and the calendar    *)
(* has no id twice.                                                        *)
EntryInv ==
  /\ \A x \in entries : x.id = EventId(x.made_by)
  /\ \A x, y \in entries : x.id = y.id => x = y

(* What Google has handled is in the calendar, whoever put it there.       *)
AppliedInv == \A q \in applied : \E x \in entries : x.id = EventId(q)

CInv == TypeOK /\ CallInv /\ WaitInv /\ SentInv /\ EntryInv /\ AppliedInv

(* The only thing that a step of a call can put on the network.            *)
Sent(c) == [call |-> c, n |-> attempt[c] + 1]

-----------------------------------------------------------------------------
(* A step of a call other than Send changes nothing but its state.         *)
LEMMA OwnState ==
  ASSUME NEW c \in Calls, TypeOK, Ok(c) \/ Transient(c) \/ Permanent(c)
  PROVE  /\ state[c] = "waiting"
         /\ \E s \in Results \cup {"backoff"} :
              /\ state' = [state EXCEPT ![c] = s]
              /\ s = "backoff" => attempt[c] < Attempts
              /\ s = "ok" => Answered(c)
         /\ UNCHANGED <<attempt, network, applied, entries>>
<1>1. CASE Ok(c)
  BY <1>1 DEF Ok, Results
<1>2. CASE Transient(c)
  BY <1>2 DEF Transient, CanRetry, Results
<1>3. CASE Permanent(c)
  BY <1>3 DEF Permanent, Results
<1> QED
  BY <1>1, <1>2, <1>3

(* Send counts an attempt and puts one request of that number on the way.  *)
LEMMA SendCounts ==
  ASSUME NEW c \in Calls, CInv, Send(c)
  PROVE  /\ attempt[c] < Attempts
         /\ Sent(c) \in Request
         /\ attempt' = [attempt EXCEPT ![c] = attempt[c] + 1]
         /\ attempt' \in [Calls -> 0..Attempts]
         /\ state' = [state EXCEPT ![c] = "waiting"]
         /\ network' = network \cup {Sent(c)}
         /\ UNCHANGED <<applied, entries>>
<1>1. attempt[c] \in 0..Attempts /\ attempt[c] < Attempts
  BY AttemptAssumption DEF CInv, TypeOK, CallInv, Send
<1>2. attempt[c] + 1 \in 1..Attempts
  BY <1>1, AttemptAssumption
<1>3. attempt' = [attempt EXCEPT ![c] = attempt[c] + 1]
  BY DEF Send
<1>4. attempt' \in [Calls -> 0..Attempts]
  BY <1>2, <1>3, AttemptAssumption DEF CInv, TypeOK
<1> QED
  BY <1>1, <1>2, <1>3, <1>4 DEF Send, Sent, Request

(* A call sends its first request, or one more after a transient error.    *)
LEMMA SendStep ==
  ASSUME NEW c \in Calls, CInv, Send(c)
  PROVE  CInv'
<1> USE SendCounts
<1>1. attempt \in [Calls -> 0..Attempts] /\ network \subseteq Request /\ applied \subseteq Request
  BY DEF CInv, TypeOK
<1>2. TypeOK'
  BY DEF CInv, TypeOK, States
<1>3. CallInv' /\ WaitInv'
  BY <1>1, AttemptAssumption DEF CInv, CallInv, WaitInv, TypeOK
<1>4. SentInv'
  <2> SUFFICES ASSUME NEW q \in network' \cup applied'
               PROVE  q.n <= attempt'[q.call]
    BY DEF SentInv
  <2>1. CASE q = Sent(c)
    BY <2>1, <1>1, AttemptAssumption DEF Sent
  <2>2. CASE q \in network \cup applied
    <3>1. q.call \in Calls /\ q.n \in 1..Attempts
      BY <2>2, <1>1 DEF Request
    <3>2. q.n <= attempt[q.call]
      BY <2>2 DEF CInv, SentInv
    <3>3. attempt[q.call] <= attempt'[q.call]
      BY <3>1, <1>1, AttemptAssumption
    <3> QED
      BY <3>1, <3>2, <3>3, <1>1, AttemptAssumption, SendCounts
  <2> QED
    BY <2>1, <2>2
<1>5. EntryInv' /\ AppliedInv'
  BY DEF CInv, EntryInv, AppliedInv, EventId
<1> QED
  BY <1>2, <1>3, <1>4, <1>5 DEF CInv

(* Google handles a request: the calendar has its id now, and once.        *)
LEMMA ApplyStep ==
  ASSUME NEW q \in Request, CInv, Apply(q)
  PROVE  CInv'
<1> DEFINE new == [id |-> EventId(q), made_by |-> q]
<1>1. q \in network /\ network' = network \ {q} /\ applied' = applied \cup {q}
      /\ UNCHANGED <<state, attempt>>
  BY DEF Apply
<1>2. \/ entries' = entries /\ \E x \in entries : x.id = EventId(q)
      \/ entries' = entries \cup {new} /\ \A x \in entries : x.id # EventId(q)
  BY DEF Apply
<1>3. EventId(q) \in Keys
  BY KeyAssumption DEF EventId, Request
<1>4. new.id = EventId(q) /\ new.made_by = q /\ new \in [id : Keys, made_by : Request]
  BY <1>3
<1> HIDE DEF new
<1>5. TypeOK'
  BY <1>1, <1>2, <1>4 DEF CInv, TypeOK
<1>6. CallInv' /\ WaitInv' /\ SentInv'
  BY <1>1 DEF CInv, CallInv, WaitInv, SentInv
<1>7. EntryInv'
  BY <1>2, <1>4 DEF CInv, EntryInv, EventId
<1>8. AppliedInv'
  BY <1>1, <1>2, <1>4 DEF CInv, AppliedInv, EventId
<1> QED
  BY <1>5, <1>6, <1>7, <1>8 DEF CInv

(* Every step keeps the invariant.                                         *)
LEMMA ClientStep == CInv /\ [Next]_vars => CInv'
<1> SUFFICES ASSUME CInv, [Next]_vars PROVE CInv'
  OBVIOUS
<1>1. ASSUME NEW c \in Calls, Ok(c) \/ Transient(c) \/ Permanent(c) PROVE CInv'
  BY <1>1, OwnState DEF CInv, TypeOK, CallInv, WaitInv, SentInv, EntryInv, AppliedInv,
                        EventId, States, Results
<1>2. ASSUME NEW q \in Request, Lose(q) PROVE CInv'
  BY <1>2 DEF Lose, CInv, TypeOK, CallInv, WaitInv, SentInv, EntryInv, AppliedInv, EventId
<1>3. CASE UNCHANGED vars
  BY <1>3 DEF vars, CInv, TypeOK, CallInv, WaitInv, SentInv, EntryInv, AppliedInv, EventId
<1> QED
  BY <1>1, <1>2, <1>3, SendStep, ApplyStep DEF Next, Step

(* The invariant holds when no call has begun.                             *)
LEMMA ClientInit == Init => CInv
BY AttemptAssumption DEF Init, CInv, TypeOK, CallInv, WaitInv, SentInv, EntryInv, AppliedInv, States

(* The invariant holds in every reachable state.                           *)
LEMMA ClientInvariance == Spec => []CInv
BY ClientInit, ClientStep, PTL DEF Spec

(* No call ever sends more requests than stop_after_attempt allows.        *)
THEOREM ClientTypes == Spec => []TypeOK
<1>1. CInv => TypeOK
  BY DEF CInv
<1> QED
  BY <1>1, ClientInvariance, PTL

(* A row has at most one event in the calendar, however many calls and     *)
(* retries insert it, and however late their requests land.                *)
THEOREM OneEntry == Spec => []OneEventPerRow
<1>1. CInv => OneEventPerRow
  BY DEF CInv, EntryInv, EventId, OneEventPerRow
<1> QED
  BY <1>1, ClientInvariance, PTL

-----------------------------------------------------------------------------
(* CalendarClient implements InsertPromise *)

(* The values InsertPromise's variables are given.                         *)
SentCalls == {c \in Calls : attempt[c] > 0}
Result    == [c \in Calls |-> IF state[c] \in Results THEN state[c] ELSE "none"]
Inserted  == {KeyOf[x.made_by.call] : x \in entries}

(* A request that is applied is the promise's Insert.                      *)
LEMMA ApplyInserts ==
  ASSUME NEW q \in Request, CInv, Apply(q)
  PROVE  Promise!Next
<1>1. q.call \in Calls /\ q \in network /\ UNCHANGED <<state, attempt>>
  BY DEF Apply, Request
<1>2. q.call \in SentCalls
  <2>1. q.n \in 1..Attempts /\ q.n <= attempt[q.call] /\ attempt[q.call] \in 0..Attempts
    BY <1>1 DEF CInv, SentInv, TypeOK, Request
  <2> QED
    BY <2>1, <1>1, AttemptAssumption DEF SentCalls
<1>3. SentCalls' = SentCalls /\ Result' = Result
  BY <1>1 DEF SentCalls, Result
<1>4. Inserted' = Inserted \cup {KeyOf[q.call]}
  <2>1. CASE \E x \in entries : x.id = EventId(q)
    <3>1. entries' = entries
      BY <2>1 DEF Apply
    <3>2. KeyOf[q.call] \in Inserted
      BY <2>1 DEF CInv, EntryInv, EventId, Inserted
    <3> QED
      BY <3>1, <3>2 DEF Inserted
  <2>2. CASE \A x \in entries : x.id # EventId(q)
    <3> DEFINE new == [id |-> EventId(q), made_by |-> q]
    <3>1. entries' = entries \cup {new}
      BY <2>2 DEF Apply
    <3>2. new.made_by = q
      OBVIOUS
    <3> HIDE DEF new
    <3> QED
      BY <3>1, <3>2 DEF Inserted
  <2> QED
    BY <2>1, <2>2
<1>5. Promise!Insert(q.call)
  BY <1>2, <1>3, <1>4 DEF Promise!Insert, SentCalls, Result, Inserted
<1> QED
  BY <1>1, <1>5 DEF Promise!Next

(* A call that ends is the promise's Return: "ok" only with its entry.     *)
LEMMA EndReturns ==
  ASSUME NEW c \in Calls, CInv, Ok(c) \/ Transient(c) \/ Permanent(c)
  PROVE  [Promise!Next]_(Promise!vars)
<1>1. TypeOK
  BY DEF CInv
<1>2. PICK s \in Results \cup {"backoff"} :
        /\ state' = [state EXCEPT ![c] = s]
        /\ s = "ok" => Answered(c)
  BY <1>1, OwnState
<1>3. state[c] = "waiting" /\ UNCHANGED <<attempt, network, applied, entries>>
  BY <1>1, OwnState
<1>4. SentCalls' = SentCalls /\ Inserted' = Inserted
  BY <1>3 DEF SentCalls, Inserted
<1>5. CASE s = "backoff"
  <2>1. Result' = Result
    BY <1>1, <1>2, <1>3, <1>5 DEF Result, Results, TypeOK
  <2> QED
    BY <2>1, <1>4 DEF Promise!vars, SentCalls, Result, Inserted
<1>6. CASE s \in Results
  <2>1. Result[c] = "none" /\ Result' = [Result EXCEPT ![c] = s]
    BY <1>1, <1>2, <1>3, <1>6 DEF Result, Results, TypeOK
  <2>2. s = "ok" => KeyOf[c] \in Inserted
    <3> SUFFICES ASSUME Last(c) \in applied PROVE KeyOf[c] \in Inserted
      BY <1>2 DEF Answered
    <3>1. PICK x \in entries : x.id = EventId(Last(c))
      BY DEF CInv, AppliedInv
    <3>2. x.id = KeyOf[x.made_by.call] /\ x.id = KeyOf[c]
      BY <3>1 DEF CInv, EntryInv, EventId, Last
    <3> QED
      BY <3>2 DEF Inserted
  <2>3. c \in SentCalls
    <3>1. attempt[c] \in 0..Attempts /\ attempt[c] # 0
      BY <1>3 DEF CInv, WaitInv, TypeOK
    <3> QED
      BY <3>1, AttemptAssumption DEF SentCalls
  <2>4. Promise!Return(c, s)
    BY <2>1, <2>2, <2>3, <1>4 DEF Promise!Return, SentCalls, Result, Inserted
  <2> QED
    BY <2>4, <1>6 DEF Promise!Next, Results
<1> QED
  BY <1>5, <1>6

(* A request that leaves is the promise's Send.                            *)
LEMMA SendIsSend ==
  ASSUME NEW c \in Calls, CInv, Send(c)
  PROVE  Promise!Next
<1>1. /\ attempt \in [Calls -> 0..Attempts]
      /\ attempt' = [attempt EXCEPT ![c] = attempt[c] + 1]
      /\ state' = [state EXCEPT ![c] = "waiting"]
      /\ entries' = entries
  BY SendCounts DEF CInv, TypeOK
<1>2. SentCalls' = SentCalls \cup {c}
  BY <1>1, AttemptAssumption DEF SentCalls
<1>3. Result' = Result
  BY <1>1 DEF CInv, TypeOK, Send, Result, Results
<1>4. Inserted' = Inserted
  BY <1>1 DEF Inserted
<1>5. Promise!Send(c)
  BY <1>2, <1>3, <1>4 DEF Promise!Send, SentCalls, Result, Inserted
<1> QED
  BY <1>5 DEF Promise!Next

(* The tenacity loop behaves as one request with one answer.               *)
THEOREM ClientKeepsPromise == Spec => InsertPromiseKept
<1>1. Init => Promise!Init
  BY DEF Init, Promise!Init, Results
<1>2. CInv /\ [Next]_vars => [Promise!Next]_(Promise!vars)
  <2> SUFFICES ASSUME CInv, [Next]_vars PROVE [Promise!Next]_(Promise!vars)
    OBVIOUS
  <2>1. ASSUME NEW q \in Request, Lose(q) PROVE UNCHANGED Promise!vars
    BY <2>1 DEF Lose, Promise!vars
  <2>2. CASE UNCHANGED vars
    BY <2>2 DEF vars, Promise!vars
  <2> QED
    BY <2>1, <2>2, SendIsSend, EndReturns, ApplyInserts DEF Next, Step
<1> QED
  BY <1>1, <1>2, ClientInvariance, PTL DEF Spec, InsertPromiseKept, Promise!Spec
=============================================================================
