---------------------------- MODULE IntakeProofs -----------------------------
(***************************************************************************)
(* Proofs about Intake, for any users, messages, requests, time zones and  *)
(* texts and every bound: the inductive invariant IInv and the properties  *)
(* of users, time zones, pending events, acknowledgements and of the rate  *)
(* limiter, whose actions RateLimitProofs treats.                          *)
(***************************************************************************)
EXTENDS Intake, RateLimitProofs

-----------------------------------------------------------------------------
(* Messages *)

LEMMA MessageTypes ==
  ASSUME ControlTypes, NEW u \in Updates
  PROVE  /\ Sender[u] \in Users
         /\ said[u].kind \in Kinds
         /\ said[u].tz \in Int
         /\ said[u].kind = "timezone" => said[u].tz \in Zones
         /\ First(said[u]) \in {"answer", "user"}
         /\ AfterUser(said[u]) \in {"zone", "answer"}
BY MessageAssumption, SenderAssumption DEF ControlTypes, Zones, First, AfterUser

LEMMA ZoneTypes == 0 \in Zones /\ Zones \subseteq Int
BY MessageAssumption DEF Zones

(* A new row, and what an UPDATE adds to it.                               *)
LEMMA DraftTypes ==
  ASSUME NEW n \in {0, 1}, NEW z \in Zones
  PROVE  /\ [rows |-> n, tz |-> z] \in [rows : {0, 1}, tz : Zones]
         /\ [rows |-> n, tz |-> z] # NONE
BY ZoneTypes, NoneAssumption

-----------------------------------------------------------------------------
(* Types *)

LEMMA TypeStep == IInv /\ [Next]_vars => ControlTypes'
<1> SUFFICES ASSUME ControlTypes, ControlInv, ZoneInv, [Next]_vars PROVE ControlTypes'
  BY DEF IInv
<1> USE FaultAssumption, ZoneTypes, MessageTypes
    DEF ControlTypes, ControlInv, Points, Goto, Chat, Message, Fault,
        limiterVars, chatVars, dbVars, requestVars
<1>1. ASSUME NEW r \in Requests, NEW u \in Updates, Deliver(r, u) PROVE ControlTypes'
  <2>1. pc' \in [Requests -> Points]
    BY <1>1 DEF Deliver
  <2> QED
    BY <1>1, <2>1 DEF Deliver
<1>2. ASSUME NEW r \in Requests, TellSlow(r) \/ Ack(r) PROVE ControlTypes'
  BY <1>2 DEF TellSlow, Ack, AfterSlow, Acknowledged, End
<1>3. ASSUME NEW r \in Requests, GetUser(r) PROVE ControlTypes'
  <2>1. job[r] \in Updates
    BY <1>3 DEF GetUser
  <2> QED
    BY <1>3, <2>1 DEF GetUser
<1>4. ASSUME NEW r \in Requests, Raise(r), faults' \in 0..MaxFaults PROVE ControlTypes'
  BY <1>4 DEF Raise, Close, End
<1>5. ASSUME NEW r \in Requests, IntegrityError(r) \/ ReplyRejected(r) \/ Fails(r)
      PROVE  ControlTypes'
  BY <1>4, <1>5 DEF IntegrityError, ReplyRejected, Fails
<1>6. ASSUME NEW r \in Requests, InsertUser(r) PROVE ControlTypes'
  <2>1. job[r] \in Updates
    BY <1>6 DEF InsertUser
  <2> QED
    BY <1>6, <2>1, DraftTypes DEF InsertUser
<1>7. ASSUME NEW r \in Requests, Answer(r) PROVE ControlTypes'
  BY <1>7 DEF Answer
<1>8. ASSUME NEW r \in Requests, Commit(r) PROVE ControlTypes'
  <2>1. users' \in [Users -> [rows : Nat, tz : Zones]]
    BY <1>8 DEF Commit, CommitUser
  <2> QED
    BY <1>8, <2>1 DEF Commit, Close
<1>9. ASSUME NEW r \in Requests, Timeout(r) PROVE ControlTypes'
  BY <1>9 DEF Timeout
<1>10. CASE Crash
  BY <1>10 DEF Crash
<1>11. CASE Pass
  BY <1>11 DEF Pass
<1>12. CASE UNCHANGED vars
  BY <1>12 DEF vars
<1>13. ASSUME NEW r \in Requests, SetTimezone(r), Message(r).kind = "timezone" PROVE ControlTypes'
  <2>1. job[r] \in Updates /\ Message(r).tz \in Zones
    BY <1>13 DEF SetTimezone
  <2>2. (IF mine[r] = NONE THEN 0 ELSE mine[r].rows) \in {0, 1}
    OBVIOUS
  <2>3. mine' \in [Requests -> {NONE} \cup [rows : {0, 1}, tz : Zones]]
    BY <1>13, <2>1, <2>2, DraftTypes DEF SetTimezone
  <2>4. holder' \in [Users -> Requests \cup {NONE}]
    BY <1>13, <2>1 DEF SetTimezone
  <2>5. pc' \in [Requests -> Points] /\ seen' \in [Requests -> Zones]
    BY <1>13, <2>1 DEF SetTimezone
  <2> QED
    BY <1>13, <2>3, <2>4, <2>5 DEF SetTimezone
<1> QED
  BY <1>1, <1>2, <1>3, <1>5, <1>6, <1>7, <1>8, <1>9, <1>10, <1>11, <1>12, <1>13
     DEF Next, RequestStep, ZoneInv, SetTimezone

-----------------------------------------------------------------------------
(* Control *)

LEMMA ControlStep == IInv /\ [Next]_vars => ControlInv'
<1> SUFFICES ASSUME IInv, [Next]_vars PROVE ControlInv'
  OBVIOUS
<1> USE MessageTypes
    DEF IInv, ControlTypes, ControlInv, Points, Goto,
        limiterVars, chatVars, dbVars, requestVars
<1>1. ASSUME NEW r \in Requests, NEW u \in Updates, Deliver(r, u) PROVE ControlInv'
  BY <1>1 DEF Deliver, Judge
<1>2. ASSUME NEW r \in Requests, TellSlow(r) \/ Ack(r) PROVE ControlInv'
  <2>1. End(r) /\ UNCHANGED <<found, now>>
    BY <1>2 DEF TellSlow, Ack
  <2> QED
    BY <2>1 DEF End
<1>3. ASSUME NEW r \in Requests, GetUser(r) \/ InsertUser(r) \/ SetTimezone(r) \/ Answer(r)
      PROVE  ControlInv'
  BY <1>3 DEF GetUser, InsertUser, SetTimezone, Answer, AfterUser
<1>4. ASSUME NEW r \in Requests, IntegrityError(r) \/ ReplyRejected(r) \/ Fails(r)
      PROVE  ControlInv'
  BY <1>4 DEF IntegrityError, ReplyRejected, Fails, Raise, Close, End
<1>5. ASSUME NEW r \in Requests, Commit(r) PROVE ControlInv'
  BY <1>5 DEF Commit, Close
<1>6. ASSUME NEW r \in Requests, Timeout(r) PROVE ControlInv'
  BY <1>6 DEF Timeout
<1>7. CASE Crash
  BY <1>7 DEF Crash, Restart
<1>8. CASE Pass
  BY <1>8 DEF Pass, Tick
<1>9. CASE UNCHANGED vars
  BY <1>9 DEF vars
<1> QED
  BY <1>1, <1>2, <1>3, <1>4, <1>5, <1>6, <1>7, <1>8, <1>9 DEF Next, RequestStep

-----------------------------------------------------------------------------
(* What a step may do to the committed users: nothing, or the commit of a  *)
(* transaction, which inserts a row where there was none or sets a zone    *)
(* that was asked for.                                                     *)
LEMMA UserChange ==
  ASSUME IInv, [Next]_vars, NEW c \in Users
  PROVE  \/ users'[c] = users[c]
         \/ \E r \in Requests :
              /\ Commit(r) /\ mine[r] # NONE /\ Chat(r) = c /\ holder[c] = r
              /\ users'[c] = [rows |-> users[c].rows + mine[r].rows, tz |-> mine[r].tz]
<1>1. ASSUME NEW r \in Requests, Commit(r), users'[c] # users[c]
      PROVE  /\ mine[r] # NONE /\ Chat(r) = c /\ holder[c] = r
             /\ users'[c] = [rows |-> users[c].rows + mine[r].rows, tz |-> mine[r].tz]
  BY <1>1 DEF Commit, CommitUser, IInv, ControlTypes, LockInv
<1>2. ASSUME \/ \E r \in Requests, u \in Updates : Deliver(r, u)
             \/ \E r \in Requests : \/ TellSlow(r) \/ GetUser(r) \/ InsertUser(r)
                                    \/ IntegrityError(r) \/ ReplyRejected(r) \/ SetTimezone(r)
                                    \/ Answer(r) \/ Ack(r) \/ Fails(r) \/ Timeout(r)
             \/ Crash \/ Pass \/ UNCHANGED vars
      PROVE  users' = users
  BY <1>2 DEF Deliver, TellSlow, GetUser, InsertUser, IntegrityError, ReplyRejected,
              SetTimezone, Answer, Ack, Fails, Timeout, Crash, Pass, Raise, vars, dbVars
<1> QED
  BY <1>1, <1>2 DEF Next, RequestStep

(* No step changes what was said.                                          *)
LEMMA SaidStays ==
  ASSUME [Next]_vars
  PROVE  said' = said
<1>1. ASSUME NEW r \in Requests,
             \/ \E u \in Updates : Deliver(r, u)
             \/ RequestStep(r) \/ Fails(r) \/ Timeout(r)
      PROVE  said' = said
  BY <1>1 DEF Deliver, RequestStep, TellSlow, GetUser, InsertUser, IntegrityError,
              ReplyRejected, SetTimezone, Answer, Commit, Ack, Fails, Timeout, Raise, chatVars
<1>2. CASE Crash \/ Pass \/ UNCHANGED vars
  BY <1>2 DEF Crash, Pass, vars, chatVars
<1> QED
  BY <1>1, <1>2 DEF Next

LEMMA AskedStays ==
  ASSUME [Next]_vars, NEW c, NEW z, Asked(c, z)
  PROVE  Asked(c, z)'
BY SaidStays DEF Asked

(* A transaction that may be committed: its row is new, or its zone is one *)
(* that the user asked for.                                                *)
LEMMA CommitIsSound ==
  ASSUME IInv, NEW r \in Requests, Commit(r), mine[r] # NONE
  PROVE  /\ Chat(r) \in Users
         /\ holder[Chat(r)] = r
         /\ mine[r].rows \in {0, 1}
         /\ mine[r].rows = 1 => users[Chat(r)].rows = 0
         /\ mine[r].rows = 0 => users[Chat(r)].rows = 1
         /\ mine[r].tz = users[Chat(r)].tz \/ Asked(Chat(r), mine[r].tz)
<1>1. job[r] \in Updates /\ Chat(r) \in Users
  BY MessageTypes DEF Commit, IInv, ControlInv, Chat
<1>2. mine[r].rows \in {0, 1} /\ users[Chat(r)].rows \in Nat
  BY <1>1 DEF IInv, ControlTypes
<1>3. Message(r).kind \in {"text", "timezone", "connect"} => Exists(Chat(r)) \/ mine[r].rows = 1
  BY DEF Commit, IInv, HasUserInv, NeedsUser
<1>4. Message(r).kind \in {"text", "timezone", "connect"}
  BY DEF IInv, LockInv, NeedsUser
<1>5. Message(r).kind = "timezone" => Asked(Chat(r), Message(r).tz)
  BY <1>1 DEF Asked, Chat, Message
<1> QED
  BY <1>1, <1>2, <1>3, <1>4, <1>5 DEF IInv, LockInv, UserInv, Exists

-----------------------------------------------------------------------------
(* Users *)

LEMMA UserStep == IInv /\ [Next]_vars => UserInv'
<1> SUFFICES ASSUME IInv, [Next]_vars, NEW c \in Users
             PROVE  /\ users'[c].rows <= 1
                    /\ users'[c].rows = 0 => users'[c].tz = 0
                    /\ users'[c].tz = 0 \/ Asked(c, users[c].tz)'
  BY DEF UserInv, Asked
<1>1. CASE users'[c] = users[c]
  BY <1>1, AskedStays DEF IInv, UserInv
<1>2. ASSUME NEW r \in Requests, Commit(r), mine[r] # NONE, Chat(r) = c,
             users'[c] = [rows |-> users[c].rows + mine[r].rows, tz |-> mine[r].tz]
      PROVE  /\ users'[c].rows <= 1
             /\ users'[c].rows = 0 => users'[c].tz = 0
             /\ users'[c].tz = 0 \/ Asked(c, users[c].tz)'
  BY <1>2, CommitIsSound, AskedStays DEF IInv, UserInv
<1> QED
  BY <1>1, <1>2, UserChange

(* A user who has a row keeps it, and a zone changes only to one that was  *)
(* asked for.                                                              *)
LEMMA UsersStay ==
  ASSUME IInv, [Next]_vars, NEW c \in Users
  PROVE  /\ Exists(c) => Exists(c)'
         /\ users'[c].tz = users[c].tz \/ Asked(c, users'[c].tz)
<1>1. CASE users'[c] = users[c]
  BY <1>1 DEF Exists
<1>2. ASSUME NEW r \in Requests, Commit(r), mine[r] # NONE, Chat(r) = c,
             users'[c] = [rows |-> users[c].rows + mine[r].rows, tz |-> mine[r].tz]
      PROVE  /\ Exists(c) => Exists(c)'
             /\ users'[c].tz = users[c].tz \/ Asked(c, users'[c].tz)
  BY <1>2, CommitIsSound DEF Exists, IInv, ControlTypes
<1> QED
  BY <1>1, <1>2, UserChange

-----------------------------------------------------------------------------
(* Sessions: LockInv, HasUserInv and ZoneInv of one request *)

Locked(r) == mine[r] # NONE =>
  /\ pc[r] \in {"zone", "answer", "commit"}
  /\ NeedsUser(Message(r))
  /\ holder[Chat(r)] = r
  /\ mine[r].rows = 1 => ~Exists(Chat(r))
  /\ \/ mine[r].rows = 1 /\ mine[r].tz = 0
     \/ Message(r).kind = "timezone" /\ mine[r].tz = Message(r).tz

Served(r) ==
  /\ pc[r] = "user" => Message(r).kind # "help"
  /\ pc[r] \in {"insert", "zone"} => NeedsUser(Message(r))
  /\ pc[r] \in {"zone", "answer", "commit"} /\ NeedsUser(Message(r)) =>
       Exists(Chat(r)) \/ (mine[r] # NONE /\ mine[r].rows = 1)

Zoned(r) ==
  /\ pc[r] = "zone" =>
       /\ Message(r).kind = "timezone"
       /\ IF mine[r] = NONE
            THEN users[Chat(r)].tz = seen[r] \/ Asked(Chat(r), users[Chat(r)].tz)
            ELSE mine[r].tz = 0 /\ seen[r] = 0
  /\ pc[r] \in {"answer", "commit"} /\ Message(r).kind = "timezone" =>
       IF mine[r] = NONE
         THEN users[Chat(r)].tz = Message(r).tz \/ Asked(Chat(r), users[Chat(r)].tz)
         ELSE mine[r].tz = Message(r).tz

Session(r) == Locked(r) /\ Served(r) /\ Zoned(r)

LEMMA SessionsHold ==
  ASSUME IInv, NEW r \in Requests
  PROVE  Session(r)
BY DEF IInv, LockInv, HasUserInv, ZoneInv, Session, Locked, Served, Zoned

(* A session is not disturbed by what others do: the row it has locked is  *)
(* committed by nobody else, users stay, and zones change on request.      *)
LEMMA SessionStays ==
  ASSUME IInv, [Next]_vars, NEW r \in Requests,
         pc'[r] = pc[r], job'[r] = job[r], mine'[r] = mine[r], seen'[r] = seen[r],
         pc[r] # "idle" /\ holder[Chat(r)] = r => holder'[Chat(r)] = r
  PROVE  Session(r)'
<1> USE SessionsHold, SaidStays DEF Chat, Message, NeedsUser
<1>1. CASE pc[r] = "idle"
  BY <1>1 DEF Session, Locked, Served, Zoned
<1>2. CASE pc[r] # "idle"
  <2>1. Chat(r) \in Users /\ Chat(r)' = Chat(r) /\ Message(r)' = Message(r)
    BY <1>2, MessageTypes DEF IInv, ControlInv
  <2>2. Locked(r)'
    <3>1. CASE mine[r] = NONE
      BY <3>1 DEF Locked
    <3>2. CASE mine[r] # NONE
      <4>1. ~Commit(r)
        BY DEF Commit, Goto, IInv, ControlTypes
      <4>2. holder[Chat(r)] = r
        BY <3>2 DEF Session, Locked
      <4>3. users'[Chat(r)] = users[Chat(r)]
        BY <2>1, <4>1, <4>2, UserChange
      <4> QED
        BY <1>2, <2>1, <3>2, <4>2, <4>3, AskedStays DEF Session, Locked, Exists
    <3> QED
      BY <3>1, <3>2
  <2>3. Served(r)'
    BY <2>1, UsersStay DEF Session, Served
  <2>4. Zoned(r)'
    BY <2>1, UsersStay, AskedStays DEF Session, Zoned
  <2> QED
    BY <2>2, <2>3, <2>4 DEF Session
<1> QED
  BY <1>1, <1>2

(* The session of the request that moves, and those of the others.         *)
LEMMA SessionStep ==
  ASSUME IInv, [Next]_vars, NEW r \in Requests
  PROVE  Session(r)'
<1> USE MessageTypes, SaidStays, SessionsHold
    DEF IInv, ControlTypes, Goto, limiterVars, chatVars, dbVars, requestVars
<1>1. ASSUME NEW q \in Requests, NEW u \in Updates, Deliver(q, u) PROVE Session(r)'
  <2>1. CASE q = r
    <3>1. mine'[r] = NONE /\ pc'[r] \in {"answer", "user", "slow"}
      BY <1>1, <2>1 DEF Deliver, Session, Locked
    <3>2. /\ pc'[r] = "answer" => Message(r)'.kind = "help"
          /\ pc'[r] = "user" => Message(r)'.kind # "help"
      BY <1>1, <2>1 DEF Deliver, First, Message, Kinds
    <3> QED
      BY <3>1, <3>2 DEF Session, Locked, Served, Zoned, NeedsUser, Message
  <2>2. CASE q # r
    BY <1>1, <2>2, SessionStays DEF Deliver
  <2> QED
    BY <2>1, <2>2
<1>2. ASSUME NEW q \in Requests, TellSlow(q) \/ Ack(q) PROVE Session(r)'
  <2>1. CASE q = r
    BY <1>2, <2>1 DEF TellSlow, Ack, End, Session, Locked, Served, Zoned
  <2>2. CASE q # r
    BY <1>2, <2>2, SessionStays DEF TellSlow, Ack, End
  <2> QED
    BY <2>1, <2>2
<1>3. ASSUME NEW q \in Requests, GetUser(q) PROVE Session(r)'
  <2>1. CASE q = r
    <3>1. mine[r] = NONE /\ mine' = mine /\ users' = users /\ job' = job
      BY <1>3, <2>1 DEF GetUser, Session, Locked
    <3>2. Message(r).kind \in Kinds \ {"help"}
      BY <1>3, <2>1 DEF GetUser, ControlInv, Message, Session, Served
    <3>3. CASE Exists(Chat(r))
      <4>1. seen'[r] = users[Chat(r)].tz
        BY <1>3, <2>1, <3>3 DEF GetUser
      <4>2. pc'[r] = IF Message(r).kind = "timezone" THEN "zone" ELSE "answer"
        BY <1>3, <2>1, <3>3 DEF GetUser, AfterUser
      <4> QED
        BY <3>1, <3>3, <4>1, <4>2
           DEF Session, Locked, Served, Zoned, NeedsUser, Exists, Message, Chat
    <3>4. CASE ~Exists(Chat(r))
      <4>1. pc'[r] = IF Message(r).kind = "list" THEN "answer" ELSE "insert"
        BY <1>3, <2>1, <3>4 DEF GetUser
      <4> QED
        BY <3>1, <3>2, <4>1 DEF Session, Locked, Served, Zoned, NeedsUser, Kinds, Message, Chat
    <3> QED
      BY <3>3, <3>4
  <2>2. CASE q # r
    BY <1>3, <2>2, SessionStays DEF GetUser
  <2> QED
    BY <2>1, <2>2
<1>4. ASSUME NEW q \in Requests, InsertUser(q) PROVE Session(r)'
  <2>1. CASE q = r
    <3>1. /\ job' = job /\ users' = users
          /\ holder'[Chat(r)] = r
          /\ mine'[r] = [rows |-> 1, tz |-> 0] /\ seen'[r] = 0
          /\ pc'[r] = IF Message(r).kind = "timezone" THEN "zone" ELSE "answer"
          /\ ~Exists(Chat(r))
      BY <1>4, <2>1 DEF InsertUser, AfterUser, Unique, ControlInv, Chat
    <3>2. NeedsUser(Message(r))
      BY <1>4, <2>1 DEF InsertUser, Session, Served
    <3>3. mine'[r] # NONE
      BY <3>1, DraftTypes, ZoneTypes
    <3> QED
      BY <3>1, <3>2, <3>3
         DEF Session, Locked, Served, Zoned, NeedsUser, Exists, Message, Chat
  <2>2. CASE q # r
    BY <1>4, <2>2, SessionStays, NoneAssumption DEF InsertUser, Free
  <2> QED
    BY <2>1, <2>2
<1>5. ASSUME NEW q \in Requests, SetTimezone(q) PROVE Session(r)'
  <2>1. CASE q = r
    <3>1. /\ job' = job /\ users' = users /\ pc[r] = "zone" /\ pc'[r] = "answer"
          /\ job[r] \in Updates
      BY <1>5, <2>1 DEF SetTimezone, ControlInv
    <3>2. CASE Message(r).tz = seen[r] /\ UNCHANGED <<holder, mine>>
      BY <3>1, <3>2 DEF Session, Locked, Served, Zoned, NeedsUser, Exists, Message, Chat, Asked
    <3>3. CASE /\ holder' = [holder EXCEPT ![Chat(r)] = r]
               /\ mine' = [mine EXCEPT ![r] = [rows |-> IF @ = NONE THEN 0 ELSE @.rows,
                                               tz   |-> Message(r).tz]]
      <4>1. /\ holder'[Chat(r)] = r
            /\ mine'[r].rows = IF mine[r] = NONE THEN 0 ELSE mine[r].rows
            /\ mine'[r].tz = Message(r).tz
        BY <3>1, <3>3 DEF Chat
      <4>2. mine'[r] # NONE
        BY <3>1, <3>3, DraftTypes DEF Message, Session, Zoned
      <4>3. Asked(Chat(r), Message(r).tz)
        BY <3>1 DEF Asked, Chat, Message, Session, Zoned
      <4> QED
        BY <3>1, <4>1, <4>2, <4>3
           DEF Session, Locked, Served, Zoned, NeedsUser, Exists, Message, Chat, Asked
    <3> QED
      BY <1>5, <2>1, <3>2, <3>3 DEF SetTimezone
  <2>2. CASE q # r
    <3>1. /\ pc'[r] = pc[r] /\ job'[r] = job[r] /\ seen'[r] = seen[r] /\ mine'[r] = mine[r]
      BY <1>5, <2>2 DEF SetTimezone
    <3>2. pc[r] # "idle" /\ holder[Chat(r)] = r => holder'[Chat(r)] = r
      <4>1. \/ UNCHANGED holder
            \/ Free(q) /\ holder' = [holder EXCEPT ![Chat(q)] = q]
        BY <1>5 DEF SetTimezone
      <4> QED
        BY <2>2, <4>1, NoneAssumption DEF Free, ControlInv, Chat
    <3> QED
      BY <3>1, <3>2, SessionStays
  <2> QED
    BY <2>1, <2>2
<1>6. ASSUME NEW q \in Requests, Answer(q) PROVE Session(r)'
  <2>1. CASE q = r
    BY <1>6, <2>1 DEF Answer, Session, Locked, Served, Zoned, Message, Chat, Exists, Asked
  <2>2. CASE q # r
    BY <1>6, <2>2, SessionStays DEF Answer
  <2> QED
    BY <2>1, <2>2
<1>7. ASSUME NEW q \in Requests, Close(q), pc'[q] \in {"idle", "ack"},
             r # q => pc'[r] = pc[r] /\ job'[r] = job[r]
      PROVE  Session(r)'
  <2>1. CASE q = r
    BY <1>7, <2>1 DEF Close, Session, Locked, Served, Zoned
  <2>2. CASE q # r
    BY <1>7, <2>2, SessionStays, NoneAssumption DEF Close, ControlInv, Chat
  <2> QED
    BY <2>1, <2>2
<1>8. ASSUME NEW q \in Requests, Commit(q) \/ IntegrityError(q) \/ ReplyRejected(q) \/ Fails(q)
      PROVE  Session(r)'
  BY <1>7, <1>8 DEF Commit, IntegrityError, ReplyRejected, Fails, Raise, End
<1>9. ASSUME NEW q \in Requests, Timeout(q) PROVE Session(r)'
  BY <1>9, SessionStays DEF Timeout
<1>10. CASE Crash
  BY <1>10 DEF Crash, Session, Locked, Served, Zoned
<1>11. CASE Pass \/ UNCHANGED vars
  BY <1>11, SessionStays DEF Pass, vars
<1> QED
  BY <1>1, <1>2, <1>3, <1>4, <1>5, <1>6, <1>8, <1>9, <1>10, <1>11 DEF Next, RequestStep

LEMMA SessionsStep == IInv /\ [Next]_vars => LockInv' /\ HasUserInv' /\ ZoneInv'
<1> SUFFICES ASSUME IInv, [Next]_vars PROVE LockInv' /\ HasUserInv' /\ ZoneInv'
  OBVIOUS
<1>1. \A r \in Requests : Session(r)'
  BY SessionStep
<1> QED
  BY <1>1 DEF LockInv, HasUserInv, ZoneInv, Session, Locked, Served, Zoned

-----------------------------------------------------------------------------
(* What the parser found *)

LEMMA FoundStep == IInv /\ [Next]_vars => FoundInv'
<1> SUFFICES ASSUME IInv, [Next]_vars PROVE FoundInv'
  OBVIOUS
<1> USE SaidStays
    DEF FoundInv, IInv, ControlTypes, ControlInv, Goto, Message,
        limiterVars, chatVars, dbVars, requestVars
<1>1. ASSUME NEW r \in Requests, NEW u \in Updates, Deliver(r, u) PROVE FoundInv'
  BY <1>1 DEF Deliver, First
<1>2. ASSUME NEW r \in Requests, TellSlow(r) \/ Ack(r) PROVE FoundInv'
  BY <1>2 DEF TellSlow, Ack, End
<1>3. ASSUME NEW r \in Requests, GetUser(r) \/ InsertUser(r) \/ SetTimezone(r)
      PROVE  FoundInv'
  BY <1>3 DEF GetUser, InsertUser, SetTimezone, AfterUser
<1>4. ASSUME NEW r \in Requests, Answer(r) PROVE FoundInv'
  BY <1>4 DEF Answer
<1>5. ASSUME NEW r \in Requests, Commit(r) \/ IntegrityError(r) \/ ReplyRejected(r) \/ Fails(r)
      PROVE  FoundInv'
  BY <1>5 DEF Commit, IntegrityError, ReplyRejected, Fails, Raise, Close, End
<1>6. ASSUME NEW r \in Requests, Timeout(r) PROVE FoundInv'
  BY <1>6 DEF Timeout
<1>7. CASE Crash \/ Pass \/ UNCHANGED vars
  BY <1>7 DEF Crash, Pass, vars
<1> QED
  BY <1>1, <1>2, <1>3, <1>4, <1>5, <1>6, <1>7 DEF Next, RequestStep

-----------------------------------------------------------------------------
(* Replies and effects *)

(* What users were told, and what is pending, only grows.                  *)
LEMMA Growth ==
  ASSUME [Next]_vars
  PROVE  told \subseteq told' /\ events \subseteq events'
<1>1. ASSUME NEW r \in Requests,
             \/ \E u \in Updates : Deliver(r, u)
             \/ RequestStep(r) \/ Fails(r) \/ Timeout(r)
      PROVE  told \subseteq told' /\ events \subseteq events'
  BY <1>1 DEF Deliver, RequestStep, TellSlow, AfterSlow, GetUser, InsertUser, IntegrityError,
              ReplyRejected, SetTimezone, Answer, Commit, CommitEvent, Ack, Fails, Timeout,
              Raise, chatVars, dbVars
<1>2. CASE Crash \/ Pass \/ UNCHANGED vars
  BY <1>2 DEF Crash, Pass, vars, chatVars, dbVars
<1> QED
  BY <1>1, <1>2 DEF Next

(* The effect of a message is not lost: a zone gives way only to another   *)
(* one that was asked for.                                                 *)
LEMMA DoneStays ==
  ASSUME IInv, [Next]_vars, NEW u \in Updates, Done(u)
  PROVE  Done(u)'
<1>1. Sender[u] \in Users /\ said' = said
  BY SenderAssumption, SaidStays
<1>2. EventsOf(u) # {} => EventsOf(u)' # {}
  BY Growth DEF EventsOf
<1>3. CASE <<u, "slow">> \in told
  BY <1>3, Growth DEF Done
<1>4. CASE said[u].kind = "timezone" /\ <<u, "slow">> \notin told
  BY <1>1, <1>4, UsersStay DEF Done, Asked
<1>5. CASE said[u].kind = "connect" /\ <<u, "slow">> \notin told
  BY <1>1, <1>5, UsersStay DEF Done
<1>6. CASE said[u].kind \notin {"timezone", "connect"} /\ <<u, "slow">> \notin told
  BY <1>1, <1>2, <1>6, Growth DEF Done
<1> QED
  BY <1>3, <1>4, <1>5, <1>6

(* ReplyInv of one request.                                                *)
Replied(r) ==
  /\ pc[r] = "commit" =>
       CASE Message(r).kind = "text" ->
              /\ found[r].at \in Nat
              /\ found[r].tz \in Zones
              /\ found[r].event = ParseMessage(Message(r).text, found[r].tz, found[r].at)
              /\ <<job[r], IF found[r].event = NoEvent THEN "unclear"
                                                       ELSE "preview">> \in told
         [] OTHER -> <<job[r], Message(r).kind>> \in told
  /\ pc[r] = "ack" => Done(job[r])

LEMMA ReplyStays ==
  ASSUME IInv, [Next]_vars, NEW r \in Requests,
         pc'[r] = pc[r], job'[r] = job[r], found'[r] = found[r]
  PROVE  Replied(r)'
<1>1. Replied(r) /\ Message(r)' = Message(r)
  BY SaidStays DEF IInv, ReplyInv, Replied, Message
<1>2. CASE pc[r] = "commit"
  BY <1>1, <1>2, Growth DEF Replied
<1>3. CASE pc[r] = "ack"
  <2>1. job[r] \in Updates /\ Done(job[r])
    BY <1>1, <1>3 DEF Replied, IInv, ControlInv
  <2>2. Done(job[r])'
    BY <2>1, DoneStays DEF Done, EventsOf, Exists
  <2> QED
    BY <1>3, <2>2 DEF Replied
<1> QED
  BY <1>2, <1>3 DEF Replied

(* What a request commits is the effect of its message.                    *)
LEMMA CommitIsDone ==
  ASSUME IInv, [Next]_vars, NEW r \in Requests, Commit(r)
  PROVE  Done(job[r])'
<1> DEFINE u == job[r]
<1>1. /\ u \in Updates /\ job' = job /\ said' = said /\ told' = told
      /\ Sender[u] \in Users /\ Chat(r) = Sender[u] /\ Message(r) = said[u]
      /\ said[u].kind \in Kinds
  BY MessageTypes, SaidStays DEF Commit, chatVars, IInv, ControlInv, Chat, Message
<1>2. Session(r) /\ Replied(r)
  BY SessionsHold DEF IInv, ReplyInv, Replied
<1>3. users'[Sender[u]] =
        IF mine[r] = NONE THEN users[Sender[u]]
        ELSE [rows |-> users[Sender[u]].rows + mine[r].rows, tz |-> mine[r].tz]
  BY <1>1 DEF Commit, CommitUser, IInv, ControlTypes
<1>4. CASE said[u].kind = "text"
  <2>1. CASE found[r].event = NoEvent
    BY <1>1, <1>2, <1>4, <2>1 DEF Commit, Replied, Done
  <2>2. CASE found[r].event # NoEvent
    <3> DEFINE e == [by    |-> job[r],
                     n     |-> Cardinality(EventsOf(job[r])) + 1,
                     start |-> found[r].event.start]
    <3>1. e \in events' /\ e.by = u
      BY <2>2 DEF Commit, CommitEvent
    <3> HIDE DEF e
    <3> QED
      BY <1>1, <1>4, <3>1 DEF Done, EventsOf
  <2> QED
    BY <2>1, <2>2
<1>5. CASE said[u].kind = "timezone"
  BY <1>1, <1>2, <1>3, <1>5 DEF Commit, Session, Zoned, Done, Asked
<1>6. CASE said[u].kind = "connect"
  BY <1>1, <1>2, <1>3, <1>6 DEF Commit, Session, Served, NeedsUser, Done, Exists, IInv,
                                ControlTypes
<1>7. CASE said[u].kind \in {"list", "help"}
  BY <1>1, <1>2, <1>7 DEF Commit, Replied, Done
<1> QED
  BY <1>1, <1>4, <1>5, <1>6, <1>7 DEF Kinds

LEMMA ReplyStep == IInv /\ [Next]_vars => ReplyInv'
<1> SUFFICES ASSUME IInv, [Next]_vars, NEW r \in Requests PROVE Replied(r)'
  BY DEF ReplyInv, Replied
<1> USE DEF IInv, ControlTypes, ControlInv, Goto, limiterVars, chatVars, dbVars, requestVars
<1>1. ASSUME NEW q \in Requests, q # r, pc' = [pc EXCEPT ![q] = pc'[q]],
             job'[r] = job[r], found'[r] = found[r]
      PROVE  Replied(r)'
  BY <1>1, ReplyStays
<1>2. ASSUME pc'[r] \notin {"commit", "ack"} PROVE Replied(r)'
  BY <1>2 DEF Replied
<1>3. ASSUME NEW q \in Requests, \/ \E u \in Updates : Deliver(q, u)
                                 \/ TellSlow(q) \/ Ack(q) \/ GetUser(q) \/ InsertUser(q)
                                 \/ SetTimezone(q) \/ IntegrityError(q) \/ ReplyRejected(q)
                                 \/ Fails(q)
      PROVE  Replied(r)'
  <2>1. CASE q # r
    BY <1>1, <1>3, <2>1 DEF Deliver, TellSlow, Ack, GetUser, InsertUser, SetTimezone,
                            IntegrityError, ReplyRejected, Fails, Raise, Close, End
  <2>2. CASE q = r
    BY <1>2, <1>3, <2>2 DEF Deliver, First, TellSlow, Ack, GetUser, InsertUser, SetTimezone,
                            IntegrityError, ReplyRejected, Fails, Raise, Close, End, AfterUser
  <2> QED
    BY <2>1, <2>2
<1>4. ASSUME NEW q \in Requests, Answer(q) PROVE Replied(r)'
  <2>1. CASE q # r
    BY <1>1, <1>4, <2>1 DEF Answer
  <2>2. CASE q = r /\ Message(r).kind = "text"
    <3>1. found'[r] = Parsed(r) /\ job' = job /\ pc'[r] = "commit"
      BY <1>4, <2>2 DEF Answer
    <3>2. <<job[r], IF Parsed(r).event = NoEvent THEN "unclear" ELSE "preview">> \in told'
      BY <1>4, <2>2 DEF Answer
    <3> QED
      BY <2>2, <3>1, <3>2, SaidStays DEF Replied, Parsed, Message
  <2>3. CASE q = r /\ Message(r).kind # "text"
    BY <1>4, <2>3, SaidStays DEF Answer, Replied, Message
  <2> QED
    BY <2>1, <2>2, <2>3
<1>5. ASSUME NEW q \in Requests, Commit(q) PROVE Replied(r)'
  <2>1. CASE q # r
    BY <1>1, <1>5, <2>1 DEF Commit, Close
  <2>2. CASE q = r
    <3>1. pc'[r] = "ack" /\ job' = job
      BY <1>5, <2>2 DEF Commit
    <3>2. Done(job[r])'
      BY <1>5, <2>2, CommitIsDone
    <3> QED
      BY <3>1, <3>2 DEF Replied
  <2> QED
    BY <2>1, <2>2
<1>6. ASSUME NEW q \in Requests, Timeout(q) PROVE Replied(r)'
  BY <1>6, ReplyStays DEF Timeout
<1>7. CASE Crash
  BY <1>2, <1>7 DEF Crash
<1>8. CASE Pass \/ UNCHANGED vars
  BY <1>8, ReplyStays DEF Pass, vars
<1> QED
  BY <1>3, <1>4, <1>5, <1>6, <1>7, <1>8 DEF Next, RequestStep

-----------------------------------------------------------------------------
(* Pending events: EventInv of one message *)

Bound(u) == Cardinality(EventsOf(u)) + Cardinality(Working(u)) + Awaited(u) <= 1 + faults

LEMMA Finite ==
  ASSUME IInv, NEW u \in Updates
  PROVE  /\ IsFiniteSet(EventsOf(u)) /\ Cardinality(EventsOf(u)) \in Nat
         /\ IsFiniteSet(Working(u)) /\ Cardinality(Working(u)) \in Nat
         /\ Awaited(u) \in {0, 1}
         /\ faults \in Nat
         /\ Bound(u)
<1>1. IsFiniteSet(EventsOf(u)) /\ IsFiniteSet(Working(u))
  <2>1. EventsOf(u) \subseteq events /\ Working(u) \subseteq Requests
    BY DEF EventsOf, Working
  <2> QED
    BY <2>1, FS_Subset, RequestAssumption DEF IInv, EventInv
<1> QED
  BY <1>1, FS_CardinalityType, FaultAssumption
     DEF Awaited, IInv, EventInv, Bound, ControlTypes

(* No request comes to work on u, none of its events is committed.         *)
LEMMA NoMoreWork ==
  ASSUME IInv, NEW u \in Updates, UNCHANGED events, Working(u)' \subseteq Working(u),
         \/ faults' = faults /\ (Awaited(u)' = 1 => Awaited(u) = 1)
         \/ faults' = faults + 1
  PROVE  Bound(u)'
<1>1. Cardinality(Working(u)') \in Nat /\ Cardinality(Working(u)') <= Cardinality(Working(u))
  BY Finite, FS_Subset, FS_CardinalityType
<1>2. EventsOf(u)' = EventsOf(u) /\ Awaited(u)' \in {0, 1}
  BY DEF EventsOf, Awaited
<1> QED
  BY <1>1, <1>2, Finite DEF Bound

(* A request stops working on u, and Telegram may have to deliver u again. *)
LEMMA WorkIsOver ==
  ASSUME IInv, NEW u \in Updates, NEW r \in Working(u), UNCHANGED events,
         Working(u)' = Working(u) \ {r}, faults' \in {faults, faults + 1}
  PROVE  Bound(u)'
<1>1. Cardinality(Working(u)') = Cardinality(Working(u)) - 1
  BY Finite, FS_RemoveElement
<1>2. EventsOf(u)' = EventsOf(u) /\ Awaited(u)' \in {0, 1}
  BY DEF EventsOf, Awaited
<1> QED
  BY <1>1, <1>2, Finite DEF Bound

(* The commit of handle_text, and of any other request.                    *)
LEMMA CommitBound ==
  ASSUME IInv, NEW r \in Requests, Commit(r), NEW u \in Updates
  PROVE  Bound(u)'
<1> DEFINE e == [by    |-> job[r],
                 n     |-> Cardinality(EventsOf(job[r])) + 1,
                 start |-> found[r].event.start]
<1>1. /\ pc[r] = "commit" /\ pc' = [pc EXCEPT ![r] = "ack"] /\ job' = job
      /\ inbox' = inbox /\ open' = open /\ faults' = faults
      /\ events' = events \/ events' = events \cup {e}
  BY DEF Commit, CommitEvent, Goto, chatVars
<1>2. Working(u)' = Working(u) \ {r}
  BY <1>1 DEF Working, IInv, ControlTypes
<1>3. Awaited(u)' = Awaited(u)
  BY <1>1 DEF Awaited
<1>4. CASE events' = events
  BY <1>1, <1>2, <1>3, <1>4, NoMoreWork
<1>5. CASE events' = events \cup {e} /\ job[r] # u
  <2>1. e.by # u
    BY <1>5
  <2> HIDE DEF e
  <2>2. EventsOf(u)' = EventsOf(u) /\ Working(u)' = Working(u)
    BY <1>2, <1>5, <2>1 DEF EventsOf, Working
  <2> QED
    BY <1>1, <1>3, <2>2, Finite DEF Bound
<1>6. CASE events' = events \cup {e} /\ job[r] = u
  <2>1. e.by = u
    BY <1>6
  <2> HIDE DEF e
  <2>2. EventsOf(u)' = EventsOf(u) \cup {e} /\ r \in Working(u)
    BY <1>1, <1>6, <2>1 DEF EventsOf, Working
  <2>3. /\ Cardinality(EventsOf(u)') <= Cardinality(EventsOf(u)) + 1
        /\ Cardinality(EventsOf(u)') \in Nat
    <3>1. Cardinality(EventsOf(u) \cup {e}) =
            IF e \in EventsOf(u) THEN Cardinality(EventsOf(u)) ELSE Cardinality(EventsOf(u)) + 1
      BY Finite, FS_AddElement
    <3> QED
      BY <2>2, <3>1, Finite
  <2>4. Cardinality(Working(u)') = Cardinality(Working(u)) - 1
    BY <1>2, <2>2, Finite, FS_RemoveElement
  <2> QED
    BY <1>1, <1>3, <2>3, <2>4, Finite DEF Bound
<1> QED
  BY <1>1, <1>4, <1>5, <1>6

LEMMA BoundStep ==
  ASSUME IInv, [Next]_vars, NEW u \in Updates
  PROVE  Bound(u)'
<1> USE DEF Goto, limiterVars, chatVars, dbVars, requestVars
<1>1. ASSUME NEW r \in Requests, NEW v \in Updates, Deliver(r, v) PROVE Bound(u)'
  <2>1. /\ pc[r] = "idle" /\ pc'[r] \notin {"idle", "ack"} /\ r \notin open
        /\ \A q \in Requests \ {r} : pc'[q] = pc[q] /\ job'[q] = job[q]
        /\ job'[r] = v /\ open' = open \cup {r} /\ open \subseteq Requests
        /\ inbox' = inbox /\ events' = events /\ faults' = faults
    BY <1>1 DEF Deliver, First, IInv, ControlTypes, ControlInv
  <2>2. CASE v # u
    BY <2>1, <2>2, NoMoreWork DEF Working, Awaited
  <2>3. CASE v = u
    <3>1. Working(u)' = Working(u) \cup {r} /\ r \notin Working(u)
      BY <2>1, <2>3 DEF Working
    <3>2. Awaited(u) = 1 /\ Awaited(u)' = 0
      BY <1>1, <2>1, <2>3 DEF Awaited, Deliver
    <3>3. Cardinality(Working(u)') = Cardinality(Working(u)) + 1
      BY <3>1, Finite, FS_AddElement
    <3>4. EventsOf(u)' = EventsOf(u)
      BY <2>1 DEF EventsOf
    <3> QED
      BY <2>1, <3>2, <3>3, <3>4, Finite DEF Bound
  <2> QED
    BY <2>2, <2>3
<1>2. ASSUME NEW r \in Requests, End(r), events' = events, inbox' \subseteq inbox,
             pc[r] \notin {"idle", "ack"}, faults' \in {faults, faults + 1}
      PROVE  Bound(u)'
  <2>1. job[r] \in Updates
    BY <1>2 DEF IInv, ControlInv
  <2>2. CASE job[r] = u
    <3>1. r \in Working(u) /\ Working(u)' = Working(u) \ {r}
      BY <1>2, <2>2 DEF Working, End, IInv, ControlTypes
    <3> QED
      BY <1>2, <3>1, WorkIsOver
  <2>3. CASE job[r] # u
    BY <1>2, <2>3, NoMoreWork DEF Working, Awaited, End, IInv, ControlTypes
  <2> QED
    BY <2>2, <2>3
<1>3. ASSUME NEW r \in Requests, TellSlow(r) \/ IntegrityError(r) \/ ReplyRejected(r) \/ Fails(r)
      PROVE  Bound(u)'
  BY <1>2, <1>3 DEF TellSlow, AfterSlow, Acknowledged, IntegrityError, ReplyRejected, Fails,
                    Raise, Fault
<1>4. ASSUME NEW r \in Requests, Ack(r) PROVE Bound(u)'
  <2>1. Working(u)' \subseteq Working(u)
    BY <1>4 DEF Ack, End, Working, IInv, ControlTypes
  <2>2. Awaited(u)' = 1 => Awaited(u) = 1
    BY <1>4 DEF Ack, End, Acknowledged, Awaited, IInv, ControlTypes
  <2> QED
    BY <1>4, <2>1, <2>2, NoMoreWork DEF Ack
<1>5. ASSUME NEW r \in Requests, GetUser(r) \/ InsertUser(r) \/ SetTimezone(r) \/ Answer(r)
      PROVE  Bound(u)'
  <2>1. /\ pc[r] \notin {"idle", "ack"} /\ \A q \in Requests \ {r} : pc'[q] = pc[q]
        /\ UNCHANGED <<job, open, inbox, events, faults>>
    BY <1>5 DEF GetUser, InsertUser, SetTimezone, Answer, IInv, ControlTypes
  <2>2. Working(u)' \subseteq Working(u) /\ Awaited(u)' = Awaited(u)
    BY <2>1 DEF Working, Awaited
  <2> QED
    BY <2>1, <2>2, NoMoreWork
<1>6. ASSUME NEW r \in Requests, Timeout(r) PROVE Bound(u)'
  BY <1>6, NoMoreWork DEF Timeout, Fault, Working
<1>7. CASE Crash
  BY <1>7, NoMoreWork DEF Crash, Fault, Working
<1>8. CASE Pass \/ UNCHANGED vars
  BY <1>8, NoMoreWork DEF Pass, vars, Working, Awaited
<1> QED
  BY <1>1, <1>3, <1>4, <1>5, <1>6, <1>7, <1>8, CommitBound DEF Next, RequestStep

LEMMA EventStep == IInv /\ [Next]_vars => EventInv'
<1> SUFFICES ASSUME IInv, [Next]_vars PROVE EventInv'
  OBVIOUS
<1>1. CASE events' = events
  BY <1>1, BoundStep DEF IInv, EventInv, Bound
<1>2. ASSUME NEW r \in Requests, Commit(r) PROVE IsFiniteSet(events')
  BY <1>2, FS_AddElement DEF Commit, CommitEvent, IInv, EventInv
<1>3. events' = events \/ \E r \in Requests : Commit(r)
  BY DEF Next, RequestStep, Deliver, TellSlow, GetUser, InsertUser, IntegrityError,
         ReplyRejected, SetTimezone, Answer, Ack, Fails, Timeout, Raise, Crash, Pass, vars,
         dbVars
<1> QED
  BY <1>1, <1>2, <1>3, BoundStep DEF EventInv, Bound

-----------------------------------------------------------------------------
(* The parser's clock *)

(* Where the two base clocks agree on the day of an hour, parse_message    *)
(* reads a text that names it as meant.                                    *)
LEMMA BasesAgree ==
  ASSUME NEW text, NEW tz \in Int, NEW at \in Nat,
         NamesHour(Expression(text)), SameDay(tz, at, Expression(text))
  PROVE  ParseMessage(text, tz, at) = Intended(text, tz, at)
<1>1. Wall(at, Expression(text)) = MeantWall(at + tz, Expression(text))
  <2>1. CASE Expression(text).kind = "at"
    BY <2>1 DEF SameDay, SameDate, Wall, MeantWall
  <2>2. CASE Expression(text).kind = "onat"
    BY <2>2 DEF SameDay, SameDate, Wall, MeantWall
  <2> QED
    BY <2>1, <2>2 DEF NamesHour
<1>2. Start(text, tz, at) = Meant(text, tz, at)
  BY <1>1 DEF Start, Meant, Aware, RelativeBase
<1> QED
  BY <1>2 DEF ParseMessage, Intended, IsEvent

(* Multiples of the length of a day.                                       *)
LEMMA Distribute ==
  ASSUME NEW m \in Int, NEW k \in Int, NEW d \in Int
  PROVE  /\ (m + k) * d = m * d + k * d
         /\ m * d \in Int
OBVIOUS

LEMMA Multiples ==
  ASSUME NEW m \in Int, NEW k \in Int, NEW d \in Nat, m >= k
  PROVE  m * d >= k * d
<1>1. PICK n \in Nat : m = k + n
  BY m - k \in Nat
<1>2. n * d >= 0
  BY SMT
<1> QED
  BY <1>1, <1>2, Distribute

(* The midnights before two moments at most a day apart are at most a day  *)
(* apart.                                                                  *)
LEMMA Midnights ==
  ASSUME NEW a \in Int, NEW b \in Int, b - a \in -Day..Day
  PROVE  Midnight(b) - Midnight(a) \in {-Day, 0, Day}
<1> DEFINE m == a \div Day
           k == b \div Day
<1>1. /\ Day \in Nat /\ Day > 0 /\ Day \in Int /\ m \in Int /\ k \in Int
      /\ Midnight(a) = m * Day /\ Midnight(b) = k * Day
  BY DayAssumption DEF Midnight
<1>2. /\ m * Day <= a /\ a < m * Day + Day
      /\ k * Day <= b /\ b < k * Day + Day
  BY DayAssumption
<1> HIDE DEF m, k
<1>3. /\ (m + 1) * Day = m * Day + Day /\ (m + 2) * Day = m * Day + 2 * Day
      /\ (k + 1) * Day = k * Day + Day /\ (k + 2) * Day = k * Day + 2 * Day
      /\ m * Day \in Int /\ k * Day \in Int
  BY <1>1, Distribute
<1>4. ~(k >= m + 2) /\ ~(m >= k + 2)
  <2>1. ASSUME k >= m + 2 PROVE FALSE
    <3>1. k * Day >= (m + 2) * Day
      BY <1>1, <2>1, Multiples
    <3> QED
      BY <1>1, <1>2, <1>3, <3>1
  <2>2. ASSUME m >= k + 2 PROVE FALSE
    <3>1. m * Day >= (k + 2) * Day
      BY <1>1, <2>2, Multiples
    <3> QED
      BY <1>1, <1>2, <1>3, <3>1
  <2> QED
    BY <2>1, <2>2
<1>5. k = m \/ k = m + 1 \/ m = k + 1
  BY <1>1, <1>4
<1> QED
  BY <1>1, <1>3, <1>5

(* How far parse_message is off: the user's clock is tz ahead of the one   *)
(* it starts from.                                                         *)
LEMMA ClockError ==
  ASSUME NEW x \in Expressions, NEW tz \in -Day..Day, NEW at \in Nat
  PROVE  LET error == (Wall(at, x) - tz) - (MeantWall(at + tz, x) - tz)
         IN /\ x.kind = "in" => error = -tz
            /\ NamesHour(x) => error \in {-Day, 0, Day}
<1> DEFINE d == x.days * Day
           a == Midnight(at)
           b == Midnight(at + tz)
<1>1. /\ Day \in Int /\ Day > 0 /\ tz \in Int /\ at \in Int /\ at + tz \in Int
      /\ x.hours \in Int /\ x.hours >= 0 /\ d \in Int /\ a \in Int /\ b \in Int
  BY DayAssumption DEF Expressions, Midnight
<1>2. b - a \in {-Day, 0, Day}
  BY <1>1, Midnights
<1>3. a <= at /\ at < a + Day /\ b <= at + tz /\ at + tz < b + Day
  BY DayAssumption DEF Midnight
<1>4. CASE x.kind = "in"
  BY <1>1, <1>4 DEF Wall, MeantWall, NamesHour
<1>5. CASE x.kind = "onat"
  <2>1. Wall(at, x) = a + d + x.hours /\ MeantWall(at + tz, x) = b + d + x.hours
    BY <1>5 DEF Wall, MeantWall
  <2> HIDE DEF a, b, d
  <2> QED
    BY <1>1, <1>2, <1>5, <2>1
<1>6. CASE x.kind = "at"
  <2>1. /\ Wall(at, x) = IF a + x.hours >= at THEN a + x.hours ELSE a + x.hours + Day
        /\ MeantWall(at + tz, x) = IF b + x.hours >= at + tz THEN b + x.hours
                                                             ELSE b + x.hours + Day
    BY <1>6 DEF Wall, MeantWall
  <2> HIDE DEF a, b, d
  <2> QED
    BY <1>1, <1>2, <1>3, <1>6, <2>1
<1> QED
  BY <1>4, <1>5, <1>6 DEF NamesHour

(* The expression parse_message works with.                                *)
LEMMA ExpressionType ==
  ASSUME NEW text \in Texts, text.fragments # <<>>
  PROVE  Expression(text) \in Expressions
<1>1. text.joined \in Expressions \cup {Nothing} /\ text.fragments \in Seq(Expressions)
  BY DEF Texts
<1>2. Head(text.fragments) \in Expressions
  BY <1>1
<1> QED
  BY <1>1, <1>2 DEF Expression

-----------------------------------------------------------------------------
(* The limiter *)

(* Every step judges a message, lets time pass, restarts the process, or   *)
(* leaves the limiter alone.                                               *)
LEMMA LimiterMoves ==
  ASSUME [Next]_vars
  PROVE  \/ \E c \in Users : Judge(c)
         \/ Tick \/ Restart \/ UNCHANGED limiterVars
<1>1. ASSUME NEW r \in Requests, NEW u \in Updates, Deliver(r, u)
      PROVE  \E c \in Users : Judge(c)
  <2>1. Sender[u] \in Users /\ Judge(Sender[u])
    BY <1>1, SenderAssumption DEF Deliver
  <2> QED
    BY <2>1
<1>2. ASSUME NEW r \in Requests, RequestStep(r) \/ Fails(r) \/ Timeout(r)
      PROVE  UNCHANGED limiterVars
  BY <1>2 DEF RequestStep, TellSlow, GetUser, InsertUser, IntegrityError, ReplyRejected,
              SetTimezone, Answer, Commit, Ack, Fails, Timeout, Raise
<1> QED
  BY <1>1, <1>2 DEF Next, Crash, Pass, vars

LEMMA LimiterStep == IInv /\ [Next]_vars => LimiterInv'
<1> SUFFICES ASSUME LimiterInv, [Next]_vars PROVE LimiterInv'
  BY DEF IInv
<1>1. CASE UNCHANGED limiterVars
  BY <1>1 DEF limiterVars, LimiterInv, LimiterTypes, StampInv, Stamped, WindowInv, InWindow
<1> QED
  BY <1>1, LimiterMoves, JudgeKeeps, TickKeeps, RestartKeeps

-----------------------------------------------------------------------------
(* What is told, read and stored *)

(* parse_message makes an event with a start of every text, or none.       *)
LEMMA ParserTypes ==
  ASSUME NEW text \in Texts, NEW tz \in Int, NEW at \in Nat
  PROVE  ParseMessage(text, tz, at) \in {NoEvent} \cup [start : Int]
<1>1. CASE text.fragments = <<>>
  BY <1>1 DEF ParseMessage, IsEvent
<1>2. CASE text.fragments # <<>>
  <2>1. Expression(text) \in Expressions
    BY <1>2, ExpressionType
  <2>2. ASSUME NEW x \in Expressions PROVE Wall(at, x) \in Int
    <3>1. Midnight(at) \in Int /\ x.days * Day \in Int /\ x.hours \in Int /\ Day \in Int
      BY DayAssumption DEF Midnight, Expressions
    <3> QED
      BY <3>1 DEF Wall, Expressions
  <2>3. Start(text, tz, at) \in Int
    BY <2>1, <2>2 DEF Start, Aware, RelativeBase
  <2> QED
    BY <2>3 DEF ParseMessage
<1> QED
  BY <1>1, <1>2

LEMMA DataStep == IInv /\ [Next]_vars => DataTypes'
<1> SUFFICES ASSUME IInv, [Next]_vars PROVE DataTypes'
  OBVIOUS
<1> USE DEF DataTypes
<1>1. /\ ControlTypes /\ DataTypes /\ now \in 0..MaxTime
      /\ \A r \in Requests : pc[r] # "idle" => job[r] \in Updates
  BY DEF IInv, LimiterInv, LimiterTypes, ControlInv
<1>2. Unread \in Reading
  BY ZoneTypes, NumbersAssumption DEF Unread, Reading
<1>3. ASSUME UNCHANGED <<told, events, found>> PROVE DataTypes'
  BY <1>1, <1>3
<1>4. ASSUME NEW r \in Requests, TellSlow(r) PROVE DataTypes'
  BY <1>1, <1>4 DEF TellSlow, AfterSlow, dbVars
<1>5. ASSUME NEW r \in Requests, Raise(r) PROVE DataTypes'
  BY <1>1, <1>2, <1>5 DEF Raise, Close, chatVars
<1>6. ASSUME NEW r \in Requests, Answer(r) PROVE DataTypes'
  <2>1. job[r] \in Updates /\ Message(r) \in Messages /\ Message(r).kind \in Kinds
    BY <1>1, <1>6, MessageTypes DEF Answer, Message, ControlTypes
  <2>2. Parsed(r) \in Reading
    <3>1. Message(r).text \in Texts
      BY <2>1, TextAssumption
    <3>2. seen[r] \in Zones /\ seen[r] \in Int
      BY <1>1, ZoneTypes DEF ControlTypes
    <3>3. now \in Nat
      BY <1>1, NumbersAssumption
    <3>4. ParseMessage(Message(r).text, seen[r], now) \in {NoEvent} \cup [start : Int]
      BY <3>1, <3>2, <3>3, ParserTypes
    <3> QED
      BY <1>1, <3>2, <3>4 DEF Parsed, Reading
  <2>3. found' \in [Requests -> Reading] /\ events' = events
    BY <1>1, <1>6, <2>2 DEF Answer, dbVars
  <2>4. told' \subseteq Updates \X (Kinds \cup {"slow", "unclear", "preview"})
    BY <1>1, <1>6, <2>1 DEF Answer
  <2> QED
    BY <1>1, <2>3, <2>4
<1>7. ASSUME NEW r \in Requests, Commit(r) PROVE DataTypes'
  <2>1. told' = told /\ found' \in [Requests -> Reading]
    BY <1>1, <1>2, <1>7 DEF Commit, Close, chatVars
  <2>2. job[r] \in Updates /\ found[r] \in Reading
    BY <1>1, <1>7 DEF Commit
  <2>3. Cardinality(EventsOf(job[r])) \in Nat
    BY <2>2, Finite
  <2>4. events' \subseteq [by : Updates, n : Nat, start : Int]
    <3>1. CASE found[r].event = NoEvent
      BY <1>1, <1>7, <3>1 DEF Commit, CommitEvent
    <3>2. CASE found[r].event # NoEvent
      <4>1. found[r].event.start \in Int /\ Cardinality(EventsOf(job[r])) + 1 \in Nat
        BY <2>2, <2>3, <3>2 DEF Reading
      <4>2. events' = events \cup {[by    |-> job[r],
                                    n     |-> Cardinality(EventsOf(job[r])) + 1,
                                    start |-> found[r].event.start]}
        BY <1>7, <3>2 DEF Commit, CommitEvent
      <4> QED
        BY <1>1, <2>2, <4>1, <4>2
    <3> QED
      BY <3>1, <3>2
  <2> QED
    BY <1>1, <2>1, <2>4
<1>8. CASE Crash
  BY <1>1, <1>2, <1>8 DEF Crash, chatVars
<1>9. ASSUME NEW r \in Requests, NEW u \in Updates, Deliver(r, u) PROVE DataTypes'
  BY <1>3, <1>9 DEF Deliver, chatVars, dbVars
<1>10. ASSUME NEW r \in Requests,
              GetUser(r) \/ InsertUser(r) \/ SetTimezone(r) \/ Ack(r) \/ Timeout(r)
       PROVE  DataTypes'
  BY <1>3, <1>10 DEF GetUser, InsertUser, SetTimezone, Ack, Timeout, chatVars, dbVars
<1>11. CASE Pass \/ UNCHANGED vars
  BY <1>3, <1>11 DEF Pass, vars, chatVars, dbVars, requestVars
<1> QED
  BY <1>4, <1>5, <1>6, <1>7, <1>8, <1>9, <1>10, <1>11
     DEF Next, RequestStep, IntegrityError, ReplyRejected, Fails

-----------------------------------------------------------------------------
(* Theorems *)

(* The inductive invariant of requests, transactions, users, replies and   *)
(* pending events holds in every reachable state.                          *)
THEOREM Invariance == Spec => []IInv
<1>1. Init => IInv
  <2> SUFFICES ASSUME Init PROVE IInv
    OBVIOUS
  <2>1. ControlTypes
    BY ZoneTypes, FaultAssumption DEF Init, ControlTypes, Points
  <2>2. ControlInv
    BY DEF Init, LimiterInit, ControlInv
  <2>3. UserInv
    BY DEF Init, UserInv
  <2>4. LockInv /\ HasUserInv /\ ZoneInv /\ FoundInv /\ ReplyInv
    BY DEF Init, LockInv, HasUserInv, ZoneInv, FoundInv, ReplyInv
  <2>5. EventInv
    <3>1. ASSUME NEW u \in Updates
          PROVE  EventsOf(u) = {} /\ Working(u) = {} /\ Awaited(u) \in {0, 1}
      BY DEF Init, EventsOf, Working, Awaited
    <3> QED
      BY <3>1, FS_EmptySet DEF Init, EventInv
  <2>6. DataTypes
    BY ZoneTypes, NumbersAssumption DEF Init, DataTypes, Reading, Unread
  <2>7. LimiterInv
    BY LimiterStart DEF Init
  <2> QED
    BY <2>1, <2>2, <2>3, <2>4, <2>5, <2>6, <2>7 DEF IInv
<1>2. IInv /\ [Next]_vars => IInv'
  BY TypeStep, ControlStep, UserStep, SessionsStep, FoundStep, ReplyStep, EventStep, DataStep,
     LimiterStep
     DEF IInv
<1> QED
  BY <1>1, <1>2, PTL DEF Spec

(* Every variable keeps its type, the stamps of the limiter and what the   *)
(* parser makes of any text included.                                      *)
THEOREM TypeCorrect == Spec => []TypeOK
<1>1. IInv => TypeOK
  BY DEF IInv, LimiterInv, TypeOK
<1> QED
  BY <1>1, Invariance, PTL

(* No window of the rate limiter has more than Limit messages of a user    *)
(* handled, and as many again for each restart in it.                      *)
THEOREM LimitIsKept == Spec => []AtMostLimit
<1>1. IInv => AtMostLimit
  BY WindowsAreBounded DEF IInv
<1> QED
  BY <1>1, Invariance, PTL

(* A message is turned away only when Limit messages of its user were      *)
(* handled in the window that ends with it.                                *)
THEOREM RejectionsAreDue == Spec => RejectedOnlyWhenFull
<1>1. ASSUME IInv, [Next]_vars, NEW r \in Requests, pc[r] = "idle", pc'[r] = "slow"
      PROVE  Cardinality(InWindow(handled[Sender[job'[r]]], now)) >= Limit
  <2>1. PICK u \in Updates : Deliver(r, u)
    <3>1. ASSUME NEW q \in Requests, NEW u \in Updates, Deliver(q, u) PROVE q = r
      BY <1>1, <3>1 DEF Deliver, Goto, IInv, ControlTypes
    <3>2. ASSUME NEW q \in Requests, RequestStep(q) \/ Fails(q) \/ Timeout(q) PROVE FALSE
      <4>1. pc' = pc \/ \E point : pc' = [pc EXCEPT ![q] = point] /\ pc[q] # "idle"
        BY <3>2 DEF RequestStep, TellSlow, GetUser, InsertUser, IntegrityError, ReplyRejected,
                    SetTimezone, Answer, Commit, Ack, Fails, Timeout, Raise, End, Goto
      <4> QED
        BY <1>1, <4>1 DEF IInv, ControlTypes
    <3>3. pc' # pc /\ ~Crash
      BY <1>1 DEF Crash
    <3> QED
      BY <1>1, <3>1, <3>2, <3>3 DEF Next, Pass, vars, requestVars
  <2>2. job'[r] = u /\ ~Allowed(Sender[u])
    BY <1>1, <2>1 DEF Deliver, Goto, First, IInv, ControlTypes
  <2>3. Sender[u] \in Users /\ LimiterInv
    BY <1>1, SenderAssumption DEF IInv
  <2> QED
    BY <2>2, <2>3, FullMeansFull
<1>2. IInv /\ [Next]_vars
        => [\A r \in Requests :
              pc[r] = "idle" /\ pc'[r] = "slow"
                => Cardinality(InWindow(handled[Sender[job'[r]]], now)) >= Limit]_vars
  BY <1>1
<1> QED
  BY <1>2, Invariance, PTL DEF Spec, RejectedOnlyWhenFull

(* However many first messages of a user overlap, get_or_create and the    *)
(* unique telegram_id leave one row.                                       *)
THEOREM OneRow == Spec => []OneUserPerChat
<1>1. IInv => OneUserPerChat
  BY DEF IInv, UserInv, OneUserPerChat
<1> QED
  BY <1>1, Invariance, PTL

(* No step of the program changes a user's zone to one that no /timezone   *)
(* of that user names.                                                     *)
THEOREM ZonesAreAskedFor == Spec => TimezoneOnlyByCommand
<1>1. IInv /\ [Next]_vars
        => [\A c \in Users : users'[c].tz # users[c].tz => Asked(c, users'[c].tz)]_vars
  BY UsersStay
<1> QED
  BY <1>1, Invariance, PTL DEF Spec, TimezoneOnlyByCommand

(* A 200 is honest: an acknowledged message has its effect in the database *)
(* or its user was told why not.                                           *)
THEOREM AcksAreHonest == Spec => AcknowledgedIsDone
<1>1. ASSUME IInv, [Next]_vars, NEW u \in Updates, u \in inbox, u \notin inbox'
      PROVE  Done(u)'
  <2>1. ASSUME NEW r \in Requests, TellSlow(r) PROVE Done(u)'
    <3>1. u = job[r] /\ <<u, "slow">> \in told'
      BY <1>1, <2>1 DEF TellSlow, AfterSlow, Acknowledged
    <3> QED
      BY <3>1 DEF Done
  <2>2. ASSUME NEW r \in Requests, Ack(r) PROVE Done(u)'
    <3>1. u = job[r] /\ Done(u)
      BY <1>1, <2>2 DEF Ack, Acknowledged, IInv, ReplyInv
    <3> QED
      BY <1>1, <3>1, DoneStays
  <2>3. inbox' = inbox \/ \E r \in Requests : TellSlow(r) \/ Ack(r)
    BY <1>1 DEF Next, RequestStep, Deliver, GetUser, InsertUser, IntegrityError, ReplyRejected,
                SetTimezone, Answer, Commit, Fails, Timeout, Raise, Crash, Pass, vars, chatVars
  <2> QED
    BY <1>1, <2>1, <2>2, <2>3
<1>2. IInv /\ [Next]_vars => [\A u \in Updates : u \in inbox /\ u \notin inbox' => Done(u)']_vars
  BY <1>1
<1> QED
  BY <1>2, Invariance, PTL DEF Spec, AcknowledgedIsDone

(* Without an HTTP timeout or a crash a text makes one pending event, and  *)
(* each of them costs at most one more.                                    *)
THEOREM DuplicatesAreCounted == Spec => []DuplicatesNeedAFault
<1>1. IInv => DuplicatesNeedAFault
  BY Finite DEF DuplicatesNeedAFault, Bound
<1> QED
  BY <1>1, Invariance, PTL

(* handle_text stores what the writer meant when the text names an hour    *)
(* and the writer's clock is on the same side of midnight, and of an hour  *)
(* named without a day, as that of UTC: for any length of the day, any     *)
(* zone, text and time.                                                    *)
THEOREM ReadAsMeant == Spec => []UnderstoodAsMeant
<1>1. ASSUME IInv PROVE UnderstoodAsMeant
  <2> SUFFICES ASSUME NEW r \in Requests, Read(r),
                      NamesHour(Expression(Message(r).text)),
                      SameDay(found[r].tz, found[r].at, Expression(Message(r).text))
               PROVE  found[r].event = Intended(Message(r).text, found[r].tz, found[r].at)
    BY DEF UnderstoodAsMeant
  <2>1. /\ found[r].at \in Nat /\ found[r].tz \in Int
        /\ found[r].event = ParseMessage(Message(r).text, found[r].tz, found[r].at)
    BY <1>1, ZoneTypes DEF Read, IInv, ReplyInv
  <2> QED
    BY <2>1, BasesAgree
<1> QED
  BY <1>1, Invariance, PTL

(* An event at a distance of hours that handle_text stores is off by the   *)
(* user's UTC offset, and one at a named hour by nothing or one day: for   *)
(* any zone, time and length of the day.                                   *)
THEOREM ErrorsAreOfTheClock == Spec => []MisreadByTheClock
<1>1. ASSUME IInv PROVE MisreadByTheClock
  <2> SUFFICES ASSUME NEW r \in Requests, Read(r), found[r].event # NoEvent
               PROVE  LET x == Message(r).text
                          f == found[r]
                          error == f.event.start - Meant(x, f.tz, f.at)
                      IN /\ Expression(x).kind = "in" => error = -f.tz
                         /\ NamesHour(Expression(x)) => error \in {-Day, 0, Day}
    BY DEF MisreadByTheClock
  <2> DEFINE x == Message(r).text
             f == found[r]
             e == Expression(x)
  <2>1. /\ f.at \in Nat /\ f.tz \in Zones
        /\ f.event = ParseMessage(x, f.tz, f.at)
    BY <1>1 DEF Read, IInv, ReplyInv
  <2>2. f.tz \in -Day..Day
    BY <2>1, OffsetAssumption, DayAssumption DEF Zones
  <2>3. Message(r) \in Messages
    BY <1>1 DEF Read, IInv, ControlInv, ControlTypes, Message
  <2>4. f.event.start = Start(x, f.tz, f.at) /\ x.fragments # <<>>
    BY <2>1 DEF ParseMessage, IsEvent
  <2>5. e \in Expressions
    BY <2>3, <2>4, TextAssumption, ExpressionType
  <2>6. /\ f.event.start = Wall(f.at, e) - f.tz
        /\ Meant(x, f.tz, f.at) = MeantWall(f.at + f.tz, e) - f.tz
    BY <2>4 DEF Start, Aware, RelativeBase, Meant
  <2> QED
    BY <2>1, <2>2, <2>5, <2>6, ClockError
<1> QED
  BY <1>1, Invariance, PTL

-----------------------------------------------------------------------------
(* Intake implements MessagePromise *)

LEMMA Stutters ==
  ASSUME UNCHANGED <<said, inbox, told, users, events>>
  PROVE  UNCHANGED Promise!vars
BY DEF Promise!vars, Exists, EventsOf

(* A message that is done is done as promised.                             *)
LEMMA DoneAsPromised ==
  ASSUME IInv, NEW u \in Updates, Done(u)
  PROVE  Promise!Done(u)
<1>1. Sender[u] \in Users /\ said[u].kind \in Kinds
  BY MessageTypes DEF IInv
<1>2. CASE said[u].kind = "text" /\ <<u, "slow">> \notin told
  <2>1. EventsOf(u) # {} => Cardinality(EventsOf(u)) > 0
    BY Finite, FS_EmptySet
  <2> QED
    BY <1>2, <2>1 DEF Done, Promise!Done
<1>3. CASE said[u].kind # "text" \/ <<u, "slow">> \in told
  BY <1>1, <1>3 DEF Done, Promise!Done, Kinds
<1> QED
  BY <1>2, <1>3

(* The commit of a session is the effect of its message, as a whole.       *)
LEMMA CommitIsEffect ==
  ASSUME IInv, [Next]_vars, NEW r \in Requests, Commit(r), NEW u \in Updates, job[r] = u
  PROVE  [Promise!Next]_Promise!vars
<1> DEFINE c == Sender[u]
           e == [by    |-> u,
                 n     |-> Cardinality(EventsOf(u)) + 1,
                 start |-> found[r].event.start]
<1>1. /\ c \in Users /\ said[u].kind \in Kinds
      /\ Chat(r) = c /\ Message(r) = said[u]
      /\ pc[r] = "commit" /\ said' = said /\ inbox' = inbox /\ told' = told
  BY MessageTypes DEF Commit, chatVars, IInv, Chat, Message
<1>2. Session(r) /\ Replied(r)
  BY SessionsHold DEF IInv, ReplyInv, Replied
<1>3. /\ \A d \in Users \ {c} : users'[d] = users[d]
      /\ users'[c] = IF mine[r] = NONE THEN users[c]
                     ELSE [rows |-> users[c].rows + mine[r].rows, tz |-> mine[r].tz]
  BY <1>1 DEF Commit, CommitUser, IInv, ControlTypes
<1>4. CASE said[u].kind \in {"list", "help"}
  <2>1. mine[r] = NONE
    BY <1>1, <1>2, <1>4 DEF Session, Locked, NeedsUser
  <2>2. users' = users
    BY <1>1, <1>3, <2>1 DEF Commit, CommitUser, IInv, ControlTypes
  <2>3. found[r] = Unread
    BY <1>1, <1>4 DEF IInv, FoundInv
  <2>4. events' = events
    BY <2>3 DEF Unread, Commit, CommitEvent
  <2> QED
    BY <1>1, <2>2, <2>4, Stutters
<1>5. CASE said[u].kind \in {"text", "timezone", "connect"}
  <2>1. {d \in Users : Exists(d)}' = {d \in Users : Exists(d)} \cup {c}
    <3>1. Exists(c) \/ (mine[r] # NONE /\ mine[r].rows = 1)
      BY <1>1, <1>2, <1>5 DEF Session, Served, NeedsUser
    <3>2. Exists(c)'
      BY <1>1, <1>3, <3>1 DEF Exists, IInv, ControlTypes
    <3>3. \A d \in Users \ {c} : Exists(d)' <=> Exists(d)
      BY <1>3 DEF Exists
    <3> QED
      BY <1>1, <3>2, <3>3
  <2>2. \/ UNCHANGED [d \in Users |-> users[d].tz]
        \/ /\ said[u].kind = "timezone"
           /\ [d \in Users |-> users[d].tz]'
                = [[d \in Users |-> users[d].tz] EXCEPT ![c] = said[u].tz]
    <3>1. CASE mine[r] # NONE /\ said[u].kind = "timezone"
      <4>1. users'[c].tz = said[u].tz
        BY <1>1, <1>2, <1>3, <3>1 DEF Session, Zoned
      <4> QED
        BY <1>1, <1>3, <3>1, <4>1
    <3>2. CASE mine[r] = NONE \/ said[u].kind # "timezone"
      <4>1. users'[c].tz = users[c].tz
        BY <1>1, <1>2, <1>3, <3>2, CommitIsSound DEF Session, Locked, IInv, UserInv, Exists,
                                                     ControlTypes
      <4> QED
        BY <1>1, <1>3, <4>1
    <3> QED
      BY <3>1, <3>2
  <2>3. \/ UNCHANGED [v \in Updates |-> Cardinality(EventsOf(v))]
        \/ /\ said[u].kind = "text"
           /\ <<u, "preview">> \in told
           /\ [v \in Updates |-> Cardinality(EventsOf(v))]'
                = [[v \in Updates |-> Cardinality(EventsOf(v))]
                     EXCEPT ![u] = Cardinality(EventsOf(u)) + 1]
    <3>1. CASE events' = events
      BY <3>1 DEF EventsOf
    <3>2. CASE events' # events
      <4>1. found[r].event # NoEvent /\ events' = events \cup {e}
        BY <3>2 DEF Commit, CommitEvent
      <4>2. said[u].kind = "text"
        BY <1>1, <4>1 DEF IInv, FoundInv, Unread
      <4>3. <<u, "preview">> \in told
        BY <1>1, <1>2, <4>1, <4>2 DEF Replied
      <4>4. e.by = u
        OBVIOUS
      <4> HIDE DEF e
      <4>5. \A v \in Updates \ {u} : EventsOf(v)' = EventsOf(v)
        BY <4>1, <4>4 DEF EventsOf
      <4>6. EventsOf(u)' = EventsOf(u) \cup {e} /\ e \notin EventsOf(u)
        BY <3>2, <4>1, <4>4 DEF EventsOf
      <4>7. Cardinality(EventsOf(u)') = Cardinality(EventsOf(u)) + 1
        BY <1>1, <4>6, Finite, FS_AddElement
      <4> QED
        BY <1>1, <4>2, <4>3, <4>5, <4>7
    <3> QED
      BY <3>1, <3>2
  <2>4. Promise!Effect(u)
    BY <1>1, <1>5, <2>1, <2>2, <2>3 DEF Promise!Effect
  <2> QED
    BY <1>1, <2>4 DEF Promise!Next
<1> QED
  BY <1>1, <1>4, <1>5 DEF Kinds

(* Every behaviour of Intake is one of MessagePromise: effects are of one  *)
(* message and whole, previews precede events, and a 200 comes last.       *)
THEOREM PromiseIsKept == Spec => PromiseKept
<1>1. Init => Promise!Init
  <2> SUFFICES ASSUME Init PROVE Promise!Init
    OBVIOUS
  <2>1. \A u \in Updates : Cardinality(EventsOf(u)) = 0
    BY FS_EmptySet DEF Init, EventsOf
  <2>2. \A c \in Users : users[c].tz = 0
    BY DEF Init
  <2>3. inbox = Updates /\ told = {}
    BY DEF Init
  <2> QED
    BY <2>1, <2>2, <2>3 DEF Promise!Init
<1>2. IInv /\ [Next]_vars => [Promise!Next]_Promise!vars
  <2> SUFFICES ASSUME IInv, [Next]_vars PROVE [Promise!Next]_Promise!vars
    OBVIOUS
  <2> USE DEF limiterVars, chatVars, dbVars, requestVars
  <2>1. ASSUME NEW r \in Requests, TellSlow(r) PROVE [Promise!Next]_Promise!vars
    <3>1. job[r] \in Updates
      BY <2>1 DEF TellSlow, IInv, ControlInv
    <3>2. Promise!TurnAway(job[r])
      BY <2>1 DEF TellSlow, AfterSlow, Acknowledged, Promise!TurnAway, Exists, EventsOf
    <3> QED
      BY <3>1, <3>2 DEF Promise!Next
  <2>2. ASSUME NEW r \in Requests, Answer(r) PROVE [Promise!Next]_Promise!vars
    <3>1. job[r] \in Updates
      BY <2>2 DEF Answer, IInv, ControlInv
    <3>2. Promise!Tell(job[r])
      BY <2>2 DEF Answer, Message, Promise!Tell, Promise!Replies, Exists, EventsOf
    <3> QED
      BY <3>1, <3>2 DEF Promise!Next
  <2>3. ASSUME NEW r \in Requests, Ack(r) PROVE [Promise!Next]_Promise!vars
    <3>1. job[r] \in Updates /\ Promise!Done(job[r])
      BY <2>3, DoneAsPromised DEF Ack, IInv, ControlInv, ReplyInv
    <3>2. CASE job[r] \in inbox /\ r \in open
      <4>1. Promise!Acknowledge(job[r])
        BY <2>3, <3>1, <3>2 DEF Ack, Acknowledged, Promise!Acknowledge, Exists, EventsOf
      <4> QED
        BY <3>1, <4>1 DEF Promise!Next
    <3>3. CASE job[r] \notin inbox \/ r \notin open
      BY <2>3, <3>3, Stutters DEF Ack, Acknowledged
    <3> QED
      BY <3>2, <3>3
  <2>4. ASSUME NEW r \in Requests,
               \/ \E u \in Updates : Deliver(r, u)
               \/ GetUser(r) \/ InsertUser(r) \/ IntegrityError(r) \/ ReplyRejected(r)
               \/ SetTimezone(r)
               \/ Fails(r) \/ Timeout(r)
        PROVE  UNCHANGED Promise!vars
    BY <2>4, Stutters DEF Deliver, GetUser, InsertUser, IntegrityError, ReplyRejected,
                          SetTimezone, Fails, Timeout, Raise
  <2>5. CASE Crash \/ Pass \/ UNCHANGED vars
    BY <2>5, Stutters DEF Crash, Pass, vars
  <2>6. ASSUME NEW r \in Requests, Commit(r) PROVE [Promise!Next]_Promise!vars
    BY <2>6, CommitIsEffect DEF Commit, IInv, ControlInv
  <2> QED
    BY <2>1, <2>2, <2>3, <2>4, <2>5, <2>6 DEF Next, RequestStep
<1> QED
  BY <1>1, <1>2, Invariance, PTL DEF Spec, PromiseKept, Promise!Spec
=============================================================================
