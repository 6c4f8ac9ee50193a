--------------------------- MODULE RateLimitProofs ---------------------------
(***************************************************************************)
(* Proofs about RateLimit, for any users, limit, window and length of the  *)
(* run: the invariant of the limiter is kept by each of its actions, and   *)
(* it bounds what is handled and what is turned away.  IntakeProofs puts   *)
(* them together with the messages that are judged.                        *)
(***************************************************************************)
EXTENDS RateLimit, FiniteSetTheorems, TLAPS

-----------------------------------------------------------------------------
(* Stamps *)

(* A fresh stamp is of the present and differs from all others.            *)
LEMMA FreshStamp ==
  ASSUME now \in 0..MaxTime, NEW S \in SUBSET Stamp, Stamped(S)
  PROVE  /\ Fresh(S) \in Stamp
         /\ Fresh(S).at = now
         /\ Fresh(S) \notin S
         /\ Cardinality(S) \in Nat
         /\ Cardinality(S \cup {Fresh(S)}) = Cardinality(S) + 1
         /\ Stamped(S \cup {Fresh(S)})
<1>1. IsFiniteSet(S) /\ Cardinality(S) \in Nat
  BY FS_CardinalityType DEF Stamped
<1>2. Fresh(S) \in Stamp /\ Fresh(S).at = now /\ Fresh(S).n = Cardinality(S) + 1
  BY <1>1 DEF Fresh, Stamp
<1>3. Fresh(S) \notin S
  <2> SUFFICES ASSUME Fresh(S) \in S PROVE FALSE
    OBVIOUS
  <2>1. Fresh(S).n <= Cardinality(S)
    BY DEF Stamped
  <2> QED
    BY <1>1, <1>2, <2>1
<1>4. IsFiniteSet(S \cup {Fresh(S)}) /\ Cardinality(S \cup {Fresh(S)}) = Cardinality(S) + 1
  BY <1>1, <1>3, FS_AddElement
<1>5. ASSUME NEW s \in S \cup {Fresh(S)}
      PROVE  s.at <= now /\ s.n <= Cardinality(S) + 1
  <2>1. CASE s \in S
    BY <1>1, <2>1 DEF Stamped, Stamp
  <2>2. CASE s = Fresh(S)
    BY <1>1, <1>2, <2>2
  <2> QED
    BY <2>1, <2>2
<1> QED
  BY <1>1, <1>2, <1>3, <1>4, <1>5 DEF Stamped

(* Subsets of finite sets have at most as many elements.                   *)
LEMMA Fewer ==
  ASSUME NEW S, NEW T, IsFiniteSet(S), T \subseteq S
  PROVE  /\ IsFiniteSet(T)
         /\ Cardinality(T) \in Nat /\ Cardinality(S) \in Nat
         /\ Cardinality(T) <= Cardinality(S)
BY FS_Subset, FS_CardinalityType

(* What is counted in a window is finite, whatever is left out.            *)
LEMMA Windows ==
  ASSUME NEW S, Stamped(S), NEW t, NEW h
  PROVE  /\ IsFiniteSet(InWindow(S, t)) /\ Cardinality(InWindow(S, t)) \in Nat
         /\ IsFiniteSet(InWindow(S, t) \ h) /\ Cardinality(InWindow(S, t) \ h) \in Nat
         /\ IsFiniteSet(InWindow(S, t) \cap h) /\ Cardinality(InWindow(S, t) \cap h) \in Nat
         /\ Cardinality(InWindow(S, t))
              = Cardinality(InWindow(S, t) \ h) + Cardinality(InWindow(S, t) \cap h)
<1>1. IsFiniteSet(InWindow(S, t))
  BY FS_Subset DEF Stamped, InWindow
<1>2. /\ IsFiniteSet(InWindow(S, t) \ h) /\ IsFiniteSet(InWindow(S, t) \cap h)
      /\ Cardinality(InWindow(S, t)) \in Nat
      /\ Cardinality(InWindow(S, t) \ h) \in Nat
      /\ Cardinality(InWindow(S, t) \cap h) \in Nat
  BY <1>1, Fewer
<1>3. /\ InWindow(S, t) = (InWindow(S, t) \ h) \cup (InWindow(S, t) \cap h)
      /\ (InWindow(S, t) \ h) \cap (InWindow(S, t) \cap h) = {}
  OBVIOUS
<1>4. Cardinality((InWindow(S, t) \ h) \cup (InWindow(S, t) \cap h))
        = Cardinality(InWindow(S, t) \ h) + Cardinality(InWindow(S, t) \cap h)
        - Cardinality((InWindow(S, t) \ h) \cap (InWindow(S, t) \cap h))
  BY <1>2, FS_Union
<1>5. Cardinality((InWindow(S, t) \ h) \cap (InWindow(S, t) \cap h)) = 0
  BY <1>3, FS_EmptySet
<1>6. Cardinality(InWindow(S, t))
        = Cardinality((InWindow(S, t) \ h) \cup (InWindow(S, t) \cap h))
  BY <1>3
<1> QED
  BY <1>1, <1>2, <1>4, <1>5, <1>6

(* One restart more allows for Limit messages more.                        *)
LEMMA OneMore ==
  ASSUME NEW r \in Nat
  PROVE  Limit * (1 + r) = Limit + Limit * r /\ Limit * r \in Nat
BY NumbersAssumption

-----------------------------------------------------------------------------
(* What the limiter's invariant says of a window that has not ended.       *)
LEMMA OpenWindow ==
  ASSUME LimiterInv, NEW u \in Users, NEW t \in 0..MaxTime, ~(t < now)
  PROVE  /\ InWindow(handled[u], t) \cap history[u] \subseteq Evicted(history[u], now)
         /\ Cardinality(InWindow(handled[u], t))
              <= Limit * (1 + Cardinality(InWindow(restarts, t)))
<1>1. /\ now \in 0..MaxTime /\ Stamped(handled[u]) /\ Stamped(restarts)
      /\ history[u] \subseteq handled[u] /\ history[u] \subseteq Stamp
      /\ Cardinality(history[u]) <= Limit
  BY DEF LimiterInv, LimiterTypes, StampInv
<1>2. InWindow(handled[u], t) \cap history[u] \subseteq Evicted(history[u], now)
  BY <1>1, NumbersAssumption DEF InWindow, Evicted, Inside, Stamp
<1>3. Cardinality(InWindow(handled[u], t) \cap history[u]) <= Limit
  <2>1. IsFiniteSet(history[u])
    BY <1>1, FS_Subset DEF Stamped
  <2>2. /\ Cardinality(InWindow(handled[u], t) \cap history[u]) <= Cardinality(history[u])
        /\ Cardinality(InWindow(handled[u], t) \cap history[u]) \in Nat
        /\ Cardinality(history[u]) \in Nat
    BY <2>1, Fewer
  <2> QED
    BY <1>1, <2>2, NumbersAssumption
<1>4. Cardinality(InWindow(handled[u], t) \ history[u])
        <= Limit * Cardinality(InWindow(restarts, t))
  BY DEF LimiterInv, WindowInv
<1> DEFINE r == Cardinality(InWindow(restarts, t))
           forgotten == Cardinality(InWindow(handled[u], t) \ history[u])
           kept == Cardinality(InWindow(handled[u], t) \cap history[u])
<1>5. /\ r \in Nat /\ forgotten \in Nat /\ kept \in Nat
      /\ Cardinality(InWindow(handled[u], t)) = forgotten + kept
  BY <1>1, Windows
<1>6. Limit * (1 + r) = Limit + Limit * r /\ Limit * r \in Nat
  BY <1>5, OneMore
<1> HIDE DEF r, forgotten, kept
<1>7. forgotten + kept <= Limit * (1 + r)
  <2>1. forgotten <= Limit * r /\ kept <= Limit
    BY <1>3, <1>4 DEF forgotten, kept, r
  <2> QED
    BY <1>5, <1>6, <2>1, NumbersAssumption
<1> QED
  BY <1>2, <1>5, <1>7 DEF r

(* The invariant says that no window has too many, ended or not.           *)
LEMMA WindowsAreBounded == LimiterInv => AtMostLimit
<1> SUFFICES ASSUME LimiterInv, NEW u \in Users, NEW t \in 0..MaxTime
             PROVE  Cardinality(InWindow(handled[u], t))
                      <= Limit * (1 + Cardinality(InWindow(restarts, t)))
  BY DEF AtMostLimit
<1>1. CASE t < now
  BY <1>1 DEF LimiterInv, WindowInv
<1>2. CASE ~(t < now)
  BY <1>2, OpenWindow
<1> QED
  BY <1>1, <1>2

(* A message is turned away only when Limit messages of its user are in    *)
(* the window that ends now.                                               *)
LEMMA FullMeansFull ==
  ASSUME LimiterInv, NEW u \in Users, ~Allowed(u)
  PROVE  Cardinality(InWindow(handled[u], now)) >= Limit
<1>1. /\ now \in 0..MaxTime /\ Stamped(handled[u])
      /\ history[u] \subseteq handled[u] /\ handled[u] \subseteq Stamp
  BY DEF LimiterInv, LimiterTypes, StampInv
<1>2. Evicted(history[u], now) \subseteq InWindow(handled[u], now)
  BY <1>1, NumbersAssumption DEF Evicted, Inside, InWindow, Stamped, Stamp
<1>3. IsFiniteSet(InWindow(handled[u], now))
  BY <1>1, FS_Subset DEF Stamped, InWindow
<1>4. Cardinality(Evicted(history[u], now)) >= Limit
  BY DEF Allowed, Full
<1> QED
  BY <1>2, <1>3, <1>4, Fewer, NumbersAssumption

-----------------------------------------------------------------------------
(* Each action keeps the invariant *)

LEMMA LimiterStart == LimiterInit => LimiterInv
<1> SUFFICES ASSUME LimiterInit PROVE LimiterInv
  OBVIOUS
<1>1. /\ now = 0 /\ restarts = {}
      /\ history = [u \in Users |-> {}] /\ handled = [u \in Users |-> {}]
  BY DEF LimiterInit, Forget
<1>2. IsFiniteSet({}) /\ Cardinality({}) = 0
  BY FS_EmptySet
<1>3. LimiterTypes /\ StampInv
  BY <1>1, <1>2, NumbersAssumption DEF LimiterTypes, StampInv, Stamped
<1>4. ASSUME NEW t, NEW h PROVE InWindow({}, t) = {} /\ InWindow({}, t) \ h = {}
  BY DEF InWindow
<1>5. WindowInv
  BY <1>1, <1>2, <1>4, NumbersAssumption DEF WindowInv
<1> QED
  BY <1>3, <1>5 DEF LimiterInv

(* A message that is turned away: only what has left every open window is  *)
(* evicted.                                                                *)
LEMMA RejectKeeps ==
  ASSUME LimiterInv, NEW u \in Users,
         history' = [history EXCEPT ![u] = Evicted(history[u], now)],
         UNCHANGED <<now, handled, restarts>>
  PROVE  LimiterInv'
<1>1. /\ now \in 0..MaxTime
      /\ \A v \in Users : /\ Stamped(handled[v]) /\ history[v] \subseteq handled[v]
                          /\ history[v] \subseteq Stamp /\ Cardinality(history[v]) <= Limit
      /\ history \in [Users -> SUBSET Stamp]
  BY DEF LimiterInv, LimiterTypes, StampInv
<1>2. /\ Evicted(history[u], now) \subseteq history[u]
      /\ Cardinality(Evicted(history[u], now)) <= Limit
  <2>1. Evicted(history[u], now) \subseteq history[u]
    BY DEF Evicted
  <2>2. IsFiniteSet(history[u])
    BY <1>1, FS_Subset DEF Stamped
  <2>3. /\ Cardinality(Evicted(history[u], now)) <= Cardinality(history[u])
        /\ Cardinality(Evicted(history[u], now)) \in Nat /\ Cardinality(history[u]) \in Nat
    BY <2>1, <2>2, Fewer
  <2> QED
    BY <1>1, <2>1, <2>3, NumbersAssumption
<1>3. \A v \in Users : history'[v] = IF v = u THEN Evicted(history[u], now) ELSE history[v]
  BY <1>1
<1>4. LimiterTypes'
  BY <1>1, <1>2, <1>3 DEF LimiterInv, LimiterTypes
<1>5. StampInv'
  BY <1>1, <1>2, <1>3 DEF LimiterInv, StampInv, Stamped
<1>6. ASSUME NEW v \in Users, NEW t \in 0..MaxTime, ~(t < now)
      PROVE  InWindow(handled[v], t) \ history'[v] = InWindow(handled[v], t) \ history[v]
  BY <1>1, <1>2, <1>3, <1>6, OpenWindow
<1>7. WindowInv'
  BY <1>6 DEF LimiterInv, WindowInv, InWindow
<1> QED
  BY <1>4, <1>5, <1>7 DEF LimiterInv

(* A message that is handled: its stamp joins the history, which had room  *)
(* for it.                                                                 *)
LEMMA AcceptKeeps ==
  ASSUME LimiterInv, NEW u \in Users, Allowed(u),
         history' = [history EXCEPT ![u] = Evicted(history[u], now) \cup {Fresh(handled[u])}],
         handled' = [handled EXCEPT ![u] = handled[u] \cup {Fresh(handled[u])}],
         UNCHANGED <<now, restarts>>
  PROVE  LimiterInv'
<1> DEFINE s == Fresh(handled[u])
           h == Evicted(history[u], now)
<1>1. /\ now \in 0..MaxTime
      /\ \A v \in Users : /\ Stamped(handled[v]) /\ history[v] \subseteq handled[v]
                          /\ history[v] \subseteq Stamp /\ Cardinality(history[v]) <= Limit
      /\ history \in [Users -> SUBSET Stamp] /\ handled \in [Users -> SUBSET Stamp]
  BY DEF LimiterInv, LimiterTypes, StampInv
<1>2. /\ s \in Stamp /\ s.at = now /\ s \notin handled[u]
      /\ Stamped(handled[u] \cup {s})
  BY <1>1, FreshStamp
<1>3. h \subseteq history[u] /\ IsFiniteSet(h) /\ Cardinality(h) \in Nat /\ s \notin h
  <2>1. h \subseteq history[u]
    BY DEF Evicted
  <2>2. IsFiniteSet(history[u])
    BY <1>1, FS_Subset DEF Stamped
  <2> QED
    BY <1>1, <1>2, <2>1, <2>2, Fewer
<1>4. Cardinality(h \cup {s}) <= Limit
  <2>1. ~(Cardinality(h) >= Limit)
    BY DEF Allowed, Full
  <2>2. Cardinality(h \cup {s}) = Cardinality(h) + 1
    BY <1>3, FS_AddElement
  <2> QED
    BY <1>3, <2>1, <2>2, NumbersAssumption
<1>5. /\ \A v \in Users : history'[v] = IF v = u THEN h \cup {s} ELSE history[v]
      /\ \A v \in Users : handled'[v] = IF v = u THEN handled[u] \cup {s} ELSE handled[v]
  BY <1>1
<1>6. history' \in [Users -> SUBSET Stamp] /\ handled' \in [Users -> SUBSET Stamp]
  BY <1>1, <1>2, <1>3
<1> HIDE DEF s, h
<1>7. LimiterTypes'
  BY <1>1, <1>4, <1>5, <1>6 DEF LimiterInv, LimiterTypes
<1>8. StampInv'
  <2>1. ASSUME NEW v \in Users PROVE Stamped(handled[v])' /\ history'[v] \subseteq handled'[v]
    <3>1. CASE v = u
      BY <1>1, <1>2, <1>3, <1>5, <3>1 DEF Stamped
    <3>2. CASE v # u
      BY <1>1, <1>5, <3>2 DEF Stamped
    <3> QED
      BY <3>1, <3>2
  <2> QED
    BY <2>1 DEF LimiterInv, StampInv, Stamped
<1>9. ASSUME NEW v \in Users, NEW t \in 0..MaxTime, ~(t < now)
      PROVE  InWindow(handled'[v], t) \ history'[v] = InWindow(handled[v], t) \ history[v]
  <2>1. CASE v = u
    <3>1. InWindow(handled[u], t) \cap history[u] \subseteq h
      BY <1>9, OpenWindow DEF h
    <3> QED
      BY <1>2, <1>3, <1>5, <2>1, <3>1 DEF InWindow
  <2>2. CASE v # u
    BY <1>5, <2>2
  <2> QED
    BY <2>1, <2>2
<1>10. ASSUME NEW v \in Users, NEW t \in 0..MaxTime, t < now
       PROVE  InWindow(handled'[v], t) = InWindow(handled[v], t)
  BY <1>1, <1>2, <1>5, <1>10 DEF InWindow
<1>11. WindowInv'
  BY <1>9, <1>10 DEF LimiterInv, WindowInv, InWindow
<1> QED
  BY <1>7, <1>8, <1>11 DEF LimiterInv

LEMMA JudgeKeeps ==
  ASSUME LimiterInv, NEW u \in Users, Judge(u)
  PROVE  LimiterInv'
BY RejectKeeps, AcceptKeeps DEF Judge

(* Time passes: the bound of the window that ends becomes one of the past. *)
LEMMA TickKeeps == LimiterInv /\ Tick => LimiterInv'
<1> SUFFICES ASSUME LimiterInv, Tick PROVE LimiterInv'
  OBVIOUS
<1>1. /\ now \in 0..MaxTime /\ now < MaxTime /\ now' = now + 1
      /\ history' = history /\ handled' = handled /\ restarts' = restarts
  BY DEF LimiterInv, LimiterTypes, Tick
<1>2. LimiterTypes'
  BY <1>1, NumbersAssumption DEF LimiterInv, LimiterTypes
<1>3. ASSUME NEW S \in SUBSET Stamp, Stamped(S) PROVE Stamped(S)'
  BY <1>1, <1>3 DEF Stamped, Stamp
<1>4. StampInv'
  BY <1>1, <1>3 DEF LimiterInv, LimiterTypes, StampInv, Stamped
<1>5. ASSUME NEW u \in Users, NEW t \in 0..MaxTime
      PROVE  IF t < now'
               THEN Cardinality(InWindow(handled[u], t))
                      <= Limit * (1 + Cardinality(InWindow(restarts, t)))
               ELSE Cardinality(InWindow(handled[u], t) \ history[u])
                      <= Limit * Cardinality(InWindow(restarts, t))
  <2>1. CASE t < now'
    BY <2>1, WindowsAreBounded DEF AtMostLimit
  <2>2. CASE ~(t < now')
    <3>1. ~(t < now)
      BY <1>1, <2>2
    <3> QED
      BY <2>2, <3>1 DEF LimiterInv, WindowInv
  <2> QED
    BY <2>1, <2>2
<1>6. WindowInv'
  BY <1>1, <1>5 DEF WindowInv, InWindow
<1> QED
  BY <1>2, <1>4, <1>6 DEF LimiterInv

(* A restart forgets Limit messages of an open window at most, and is in   *)
(* that window.                                                            *)
LEMMA RestartKeeps == LimiterInv /\ Restart => LimiterInv'
<1> SUFFICES ASSUME LimiterInv, Restart PROVE LimiterInv'
  OBVIOUS
<1> DEFINE s == Fresh(restarts)
<1>1. /\ now \in 0..MaxTime /\ Stamped(restarts) /\ restarts \subseteq Stamp
      /\ \A v \in Users : Stamped(handled[v]) /\ handled[v] \subseteq Stamp
      /\ handled \in [Users -> SUBSET Stamp]
  BY DEF LimiterInv, LimiterTypes, StampInv
<1>2. /\ now' = now /\ handled' = handled /\ history' = [v \in Users |-> {}]
      /\ restarts' = restarts \cup {s}
  BY DEF Restart, Forget
<1>3. s \in Stamp /\ s.at = now /\ s \notin restarts /\ Stamped(restarts \cup {s})
  BY <1>1, FreshStamp
<1>4. IsFiniteSet({}) /\ Cardinality({}) = 0
  BY FS_EmptySet
<1> HIDE DEF s
<1>5. LimiterTypes'
  BY <1>1, <1>2, <1>3, <1>4, NumbersAssumption DEF LimiterTypes
<1>6. StampInv'
  BY <1>1, <1>2, <1>3 DEF StampInv, Stamped
<1>7. ASSUME NEW v \in Users, NEW t \in 0..MaxTime, t < now
      PROVE  InWindow(restarts', t) = InWindow(restarts, t)
  BY <1>1, <1>2, <1>3, <1>7 DEF InWindow
<1>8. ASSUME NEW v \in Users, NEW t \in 0..MaxTime, ~(t < now)
      PROVE  Cardinality(InWindow(handled[v], t) \ history'[v])
               <= Limit * Cardinality(InWindow(restarts', t))
  <2>1. CASE t < now + Window
    <3>1. InWindow(restarts', t) = InWindow(restarts, t) \cup {s} /\ s \notin InWindow(restarts, t)
      BY <1>1, <1>2, <1>3, <1>8, <2>1 DEF InWindow
    <3>2. Cardinality(InWindow(restarts', t)) = Cardinality(InWindow(restarts, t)) + 1
          /\ Cardinality(InWindow(restarts, t)) \in Nat
      BY <1>1, <3>1, Windows, FS_AddElement
    <3>3. InWindow(handled[v], t) \ history'[v] = InWindow(handled[v], t)
      BY <1>2
    <3>4. 1 + Cardinality(InWindow(restarts, t)) = Cardinality(InWindow(restarts', t))
      BY <3>2
    <3> QED
      BY <1>8, <3>3, <3>4, OpenWindow
  <2>2. CASE ~(t < now + Window)
    <3>1. InWindow(handled[v], t) \ history'[v] = {}
      BY <1>1, <2>2, NumbersAssumption DEF InWindow, Stamped, Stamp
    <3>2. Stamped(restarts') /\ Cardinality(InWindow(restarts', t)) \in Nat
      BY <1>2, <1>3, Windows
    <3>3. Limit * Cardinality(InWindow(restarts', t)) \in Nat
      BY <3>2, OneMore
    <3>4. Cardinality(InWindow(handled[v], t) \ history'[v]) = 0
      BY <1>4, <3>1
    <3> QED
      BY <3>3, <3>4
  <2> QED
    BY <2>1, <2>2
<1>9. WindowInv'
  <2>1. ASSUME NEW v \in Users, NEW t \in 0..MaxTime, t < now
        PROVE  Cardinality(InWindow(handled[v], t))
                 <= Limit * (1 + Cardinality(InWindow(restarts', t)))
    BY <1>7, <2>1 DEF LimiterInv, WindowInv
  <2> QED
    BY <1>2, <1>8, <2>1 DEF WindowInv, InWindow
<1> QED
  BY <1>5, <1>6, <1>9 DEF LimiterInv
=============================================================================
