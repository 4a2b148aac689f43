--------------------------- MODULE Bookkeeping_proofs ---------------------------
(***************************************************************************)
(* Proofs about the four small accounts the backend keeps: the clocks of a *)
(* turn, the request quotas, the usage caps and the pinned section, each   *)
(* for every value of its constants.  They share no state; each part has   *)
(* its invariant, its inductive step and its theorems.                     *)
(***************************************************************************)
EXTENDS ProviderHeartbeat, RateLimits, UsageCaps, PinOrder, FiniteSetTheorems, TLAPS

-----------------------------------------------------------------------------
(***************************************************************************)
(* ProviderHeartbeat, for every idle timeout, hard cap and resolution of the *)
(* clock.  The bounds on the stored deadline are not inductive alone: they *)
(* need that the deadline is that of the last persisted event, and that the *)
(* last chunk came less than an interval after it.                         *)
(***************************************************************************)

\* The row is as of the last persisted event.
Stored ==
    /\ deadline = persisted + Idle
    /\ persisted <= heard /\ heard <= now
    /\ heard - persisted < Interval

ClocksInv == TypeOK /\ Stored

\* The constants the clocks are compared with are natural numbers, and a heartbeat
\* is due at least as often as the idle timeout (operations.py:377-393).
LEMMA Durations ==
    /\ Idle \in Nat /\ MaxRuntime \in Nat /\ Interval \in Nat
    /\ 0 < Interval /\ Interval <= Idle
<1>1. IntervalSeconds \in Nat /\ 0 < IntervalSeconds /\ IntervalSeconds <= IdleSeconds
  BY SettingsAssumption DEF IntervalSeconds, MaxIntervalSeconds
<1>2. \A x, y, t \in Nat : 0 < x /\ x <= y /\ 0 < t =>
          x * t \in Nat /\ 0 < x * t /\ x * t <= y * t
  BY SMT
<1>3. \A x, y \in Nat : x * y \in Nat
  BY SMT
<1> QED
  BY <1>1, <1>2, <1>3, SettingsAssumption DEF Idle, Interval, MaxRuntime

\* The initial state, with the deadline transition_operation sets, satisfies ClocksInv.
LEMMA ClocksInit == Init => ClocksInv
<1> SUFFICES ASSUME Init PROVE ClocksInv
  OBVIOUS
<1>1. TypeOK
  BY Durations DEF Init, TypeOK
<1>2. Stored
  BY Durations DEF Init, Stored
<1> QED
  BY <1>1, <1>2 DEF ClocksInv

\* Every step of the turn, of the clock and of whoever reclaims keeps ClocksInv.
LEMMA ClocksStep == ClocksInv /\ [Next]_vars => ClocksInv'
<1> USE Durations
<1> SUFFICES ASSUME ClocksInv, [Next]_vars PROVE ClocksInv'
  OBVIOUS
<1>1. CASE Chunk
  <2>1. CASE HeartbeatDue
    BY <1>1, <2>1 DEF Chunk, NextDeadline, ClocksInv, TypeOK, Stored
  <2>2. CASE ~HeartbeatDue
    BY <1>1, <2>2 DEF Chunk, HeartbeatDue, ClocksInv, TypeOK, Stored
  <2> QED
    BY <2>1, <2>2
<1>2. CASE Refused
  BY <1>2 DEF Refused, Ends, ClocksInv, TypeOK, Stored
<1>3. CASE TimesOut
  BY <1>3 DEF TimesOut, Ends, ClocksInv, TypeOK, Stored
<1>4. CASE ProviderFails
  BY <1>4 DEF ProviderFails, Ends, ClocksInv, TypeOK, Stored
<1>5. CASE ProviderEnds
  BY <1>5 DEF ProviderEnds, Ends, ClocksInv, TypeOK, Stored
<1>6. CASE Reclaim
  BY <1>6 DEF Reclaim, ClocksInv, TypeOK, Stored
<1>7. CASE Crash
  BY <1>7 DEF Crash, ClocksInv, TypeOK, Stored
<1>8. CASE Tick
  BY <1>8 DEF Tick, ClocksInv, TypeOK, Stored
<1>9. CASE UNCHANGED vars
  BY <1>9 DEF vars, ClocksInv, TypeOK, Stored
<1> QED
  BY <1>1, <1>2, <1>3, <1>4, <1>5, <1>6, <1>7, <1>8, <1>9 DEF Next

\* The clocks keep their types and the stored deadline its distance.
THEOREM ClocksInductive == Spec => []ClocksInv
  BY ClocksInit, ClocksStep, PTL DEF Spec

\* The type invariant of the clocks of a turn (operations.py:223-269).
THEOREM ClockTypes == Spec => []TypeOK
<1>1. ClocksInv => TypeOK
  BY DEF ClocksInv
<1> QED
  BY <1>1, ClocksInductive, PTL

\* For all settings the deadline in the row trails the last chunk by less than a
\* heartbeat interval and never runs ahead of it (operations.py:247-269, 389-393).
THEOREM DeadlineBounds == Spec => []DeadlineFollowsChunks
<1>1. ClocksInv => DeadlineFollowsChunks
  BY Durations DEF ClocksInv, TypeOK, Stored, DeadlineFollowsChunks
<1> QED
  BY <1>1, ClocksInductive, PTL

\* A step that times the turn out is one of the task or a reclaim, and finds either
\* of them past a deadline.
LEMMA TimeoutIsLate ==
    ASSUME ClocksInv, [Next]_vars, row # "timed_out", row' = "timed_out"
    PROVE  now - heard > Idle - Interval \/ now >= MaxRuntime
<1> USE Durations
<1>1. CASE Refused
  BY <1>1 DEF Refused, Ends, Current, Expired, ClocksInv, TypeOK, Stored
<1>2. CASE TimesOut
  BY <1>2 DEF TimesOut, ClocksInv, TypeOK, Stored
<1>3. CASE Reclaim
  BY <1>3 DEF Reclaim, Expired, ClocksInv, TypeOK, Stored
<1>4. ~(Chunk \/ ProviderFails \/ ProviderEnds \/ Crash \/ Tick \/ UNCHANGED vars)
  BY DEF Chunk, ProviderFails, ProviderEnds, Crash, Tick, vars, Ends
<1> QED
  BY <1>1, <1>2, <1>3, <1>4 DEF Next

\* For all settings, whoever times a turn out has waited longer than the idle timeout
\* less the heartbeat interval, or has met the hard cap: no chunk that comes in that
\* time finds its lease taken (operations.py:247-269, chat_execution_cleanup.py:96-110).
THEOREM HeardKeeps == Spec => HeardTurnKeepsLease
<1>1. ClocksInv /\ [Next]_vars =>
        [row # "timed_out" /\ row' = "timed_out" =>
            now - heard > Idle - Interval \/ now >= MaxRuntime]_vars
  BY TimeoutIsLate
<1> QED
  BY <1>1, ClocksInductive, PTL DEF Spec, HeardTurnKeepsLease

-----------------------------------------------------------------------------
(***************************************************************************)
(* RateLimits, for every clock resolution, window and limit.  A counter lives *)
(* at most twice in its calendar window.  As long as it has not lapsed it  *)
(* counts every request that got through, so no more than the limit did, and *)
(* it cannot lapse before the last second.  A counter born in the last second *)
(* outlives the window.                                                    *)
(***************************************************************************)

\* The counter has not lapsed since the window began.
FirstLife(w) ==
    /\ passed[w] <= count[w] /\ passed[w] <= Limit(w)
    /\ count[w] = 0 \/ until[w] > End(w) - Second

\* The counter has lapsed once, and was set anew in the last second.
SecondLife(w) ==
    /\ passed[w] <= Limit(w) + count[w] /\ passed[w] <= 2 * Limit(w)
    /\ until[w] >= End(w)
    /\ End(w) - utcNow < Second

Lives == \A w \in Windows : utcNow <= End(w) /\ (FirstLife(w) \/ SecondLife(w))

QuotasInv == RatesTypeOK /\ Lives


\* Windows are not empty, and their limits are positive.
LEMMA WindowFacts ==
    ASSUME NEW w \in Windows
    PROVE  /\ Length(w) \in Nat \ {0}
           /\ Limit(w) \in Nat \ {0}
BY ClockAssumption, LimitAssumption DEF Windows, Length, Limit

\* The expiry counts whole seconds, rounded down and at least one.
LEMMA TtlFacts ==
    ASSUME NEW w \in Windows, RatesTypeOK, utcNow < End(w)
    PROVE  /\ Ttl(w) \in Nat \ {0}
           /\ utcNow + Second * Ttl(w) \in Nat
           /\ utcNow + Second * Ttl(w) > End(w) - Second
           /\ End(w) - utcNow < Second => utcNow + Second * Ttl(w) >= End(w)
<1> DEFINE left == End(w) - utcNow
           whole == left \div Second
<1>1. left \in Nat /\ Second \in Nat \ {0} /\ utcNow \in Nat
  <2>1. Length(w) \in Nat
    BY WindowFacts
  <2>2. starts[w] \in Nat /\ utcNow \in Nat
    BY BoundAssumption DEF RatesTypeOK
  <2> QED BY <2>1, <2>2, ClockAssumption DEF End
<1>2. whole \in Nat /\ Second * whole <= left /\ left < Second * whole + Second
  <2> HIDE DEF left
  <2> QED BY <1>1, SMTT(30)
<1>3. End(w) \in Int /\ End(w) = utcNow + left
  BY <1>1, WindowFacts, BoundAssumption DEF left, RatesTypeOK, End
<1>4. Ttl(w) = IF whole < 1 THEN 1 ELSE whole
  BY DEF Ttl
<1> HIDE DEF left, whole
<1>5. CASE whole < 1
  <2>1. Ttl(w) = 1 /\ whole = 0
    BY <1>2, <1>4, <1>5
  <2>2. Second * whole = 0 /\ Second * Ttl(w) = Second
    BY <2>1, <1>1
  <2> QED BY <1>1, <1>2, <2>1, <2>2, <1>3 DEF left
<1>6. CASE ~(whole < 1)
  <2>1. Ttl(w) = whole /\ whole >= 1
    BY <1>2, <1>4, <1>6
  <2>2. PICK t \in Int : t = Second * whole
    BY <1>1, <1>2
  <2>3. t >= Second
    BY <1>1, <1>2, <2>1, <2>2
  <2> QED BY <1>1, <1>2, <1>3, <2>1, <2>2, <2>3
<1> QED BY <1>5, <1>6


LEMMA QuotasInit == RatesInit => QuotasInv
BY WindowFacts, BoundAssumption, ClockAssumption
   DEF RatesInit, QuotasInv, RatesTypeOK, Lives, FirstLife, End, Windows

LEMMA CountingKeeps == QuotasInv /\ CountsRequest => QuotasInv'
<1> SUFFICES ASSUME QuotasInv, CountsRequest PROVE QuotasInv'
  OBVIOUS
<1>1. RatesTypeOK /\ Lives
  BY DEF QuotasInv
<1>2. utcNow' = utcNow /\ starts' = starts
  BY DEF CountsRequest
<1>3. ASSUME NEW w \in Windows
      PROVE  /\ utcNow \in Nat /\ End(w) \in Nat /\ until[w] \in Nat /\ passed[w] \in Nat
             /\ count[w] \in Nat /\ Second \in Nat \ {0} /\ Limit(w) \in Nat \ {0}
             /\ End(w)' = End(w) /\ Limit(w)' = Limit(w)
  <2>1. starts[w] \in Nat /\ utcNow \in Nat /\ until[w] \in Nat /\ passed[w] \in Nat /\ count[w] \in Nat
    BY <1>1, BoundAssumption DEF RatesTypeOK
  <2> QED BY <2>1, <1>2, WindowFacts, ClockAssumption DEF End, Length, Limit
<1>4. ASSUME NEW w \in Windows
      PROVE  /\ utcNow < End(w)
             /\ Incremented(w) <= MaxCount
             /\ count'[w] = Incremented(w)
             /\ until'[w] = utcNow + Second * Ttl(w)
             /\ \/ passed'[w] = passed[w]
                \/ passed'[w] = passed[w] + 1 /\ Incremented(w) <= Limit(w)
  BY <1>3 DEF CountsRequest, IsOver, IsWithin
<1>5. RatesTypeOK'
  <2>1. ASSUME NEW w \in Windows
        PROVE  count'[w] \in 0..MaxCount /\ until'[w] \in Nat /\ passed'[w] \in Nat
    BY <1>1, <1>3, <1>4, TtlFacts, BoundAssumption DEF Incremented
  <2> QED BY <1>1, <1>2, <2>1 DEF RatesTypeOK, CountsRequest
<1>6. ASSUME NEW w \in Windows
      PROVE  (utcNow <= End(w) /\ (FirstLife(w) \/ SecondLife(w)))'
  <2>1. /\ utcNow + Second * Ttl(w) \in Nat
        /\ utcNow + Second * Ttl(w) > End(w) - Second
        /\ End(w) - utcNow < Second => utcNow + Second * Ttl(w) >= End(w)
    BY <1>1, <1>4, TtlFacts
  <2>2. CASE FirstLife(w) /\ utcNow < until[w]
    <3>1. count'[w] = count[w] + 1
      BY <1>3, <1>4, <2>2 DEF Incremented
    <3>2. FirstLife(w)'
      BY <1>3, <1>4, <2>1, <2>2, <3>1 DEF FirstLife
    <3> QED BY <1>2, <1>3, <1>4, <3>2
  <2>3. CASE FirstLife(w) /\ utcNow >= until[w] /\ count[w] = 0
    <3>1. count'[w] = 1
      BY <1>3, <1>4, <2>3 DEF Incremented
    <3>2. FirstLife(w)'
      BY <1>3, <1>4, <2>1, <2>3, <3>1 DEF FirstLife
    <3> QED BY <1>2, <1>3, <1>4, <3>2
  <2>4. CASE FirstLife(w) /\ utcNow >= until[w] /\ count[w] # 0
    <3>1. count'[w] = 1 /\ End(w) - utcNow < Second
      BY <1>3, <1>4, <2>4 DEF Incremented, FirstLife
    <3>2. SecondLife(w)'
      BY <1>2, <1>3, <1>4, <2>1, <2>4, <3>1 DEF FirstLife, SecondLife
    <3> QED BY <1>2, <1>3, <1>4, <3>2
  <2>5. CASE SecondLife(w)
    <3>1. count'[w] = count[w] + 1
      BY <1>3, <1>4, <2>5 DEF Incremented, SecondLife
    <3>2. SecondLife(w)'
      BY <1>2, <1>3, <1>4, <2>1, <2>5, <3>1 DEF SecondLife
    <3> QED BY <1>2, <1>3, <1>4, <3>2
  <2> QED BY <1>1, <1>3, <2>2, <2>3, <2>4, <2>5 DEF Lives
<1> QED BY <1>5, <1>6 DEF QuotasInv, Lives

LEMMA TurnsKeeps == ASSUME NEW v \in Windows PROVE QuotasInv /\ Turns(v) => QuotasInv'
<1> SUFFICES ASSUME QuotasInv, Turns(v) PROVE QuotasInv'
  OBVIOUS
<1>1. RatesTypeOK /\ Lives
  BY DEF QuotasInv
<1>2. utcNow' = utcNow /\ utcNow \in Nat /\ utcNow = End(v)
  BY <1>1, WindowFacts, BoundAssumption DEF Turns, IsOver, Lives, RatesTypeOK, End
<1>3. RatesTypeOK'
  BY <1>1, <1>2, WindowFacts, BoundAssumption DEF RatesTypeOK, Turns, End
<1>4. ASSUME NEW w \in Windows, w # v
      PROVE  (utcNow <= End(w) /\ (FirstLife(w) \/ SecondLife(w)))'
  <2>1. /\ starts'[w] = starts[w] /\ count'[w] = count[w]
        /\ until'[w] = until[w] /\ passed'[w] = passed[w]
    BY <1>1, <1>4 DEF RatesTypeOK, Turns
  <2> QED BY <1>1, <1>2, <2>1 DEF Lives, FirstLife, SecondLife, End, Length, Limit
<1>5. (utcNow <= End(v) /\ FirstLife(v))'
  <2>1. starts'[v] = utcNow /\ count'[v] = 0 /\ passed'[v] = 0
    BY <1>1, <1>2 DEF RatesTypeOK, Turns, End
  <2> QED BY <1>2, <2>1, WindowFacts DEF FirstLife, End, Length, Limit
<1> QED BY <1>3, <1>4, <1>5 DEF QuotasInv, Lives

LEMMA TickKeeps == QuotasInv /\ ClockTicks => QuotasInv'
<1> SUFFICES ASSUME QuotasInv, ClockTicks PROVE QuotasInv'
  OBVIOUS
<1>1. RatesTypeOK /\ Lives
  BY DEF QuotasInv
<1>2. RatesTypeOK'
  BY <1>1, BoundAssumption DEF RatesTypeOK, ClockTicks
<1>3. ASSUME NEW w \in Windows
      PROVE  (utcNow <= End(w) /\ (FirstLife(w) \/ SecondLife(w)))'
  <2>1. utcNow \in Nat /\ starts[w] \in Nat /\ utcNow' = utcNow + 1 /\ starts' = starts /\ utcNow < End(w)
    BY <1>1, <1>3, BoundAssumption, WindowFacts DEF RatesTypeOK, ClockTicks, IsOver, End
  <2> QED BY <1>1, <2>1, WindowFacts, ClockAssumption
          DEF Lives, FirstLife, SecondLife, ClockTicks, End, Length, Limit
<1> QED BY <1>2, <1>3 DEF QuotasInv, Lives

LEMMA QuotasStep == QuotasInv /\ [RatesNext]_rateVars => QuotasInv'
<1> SUFFICES ASSUME QuotasInv, [RatesNext]_rateVars PROVE QuotasInv'
  OBVIOUS
<1>1. CASE UNCHANGED rateVars
  BY <1>1 DEF QuotasInv, RatesTypeOK, Lives, FirstLife, SecondLife, End, Length, Limit, rateVars
<1> QED BY <1>1, CountingKeeps, TurnsKeeps, TickKeeps DEF RatesNext

\* Every counter holds what got through in the life of its key, and a key lives at most
\* two windows (chat_coordination.py:44-96).
THEOREM QuotasInductive == RatesSpec => []QuotasInv
BY QuotasInit, QuotasStep, PTL DEF RatesSpec

\* The types of the clock, the keys and the counters.
THEOREM QuotaTypes == RatesSpec => []RatesTypeOK
<1>1. QuotasInv => RatesTypeOK
  BY DEF QuotasInv
<1> QED BY <1>1, QuotasInductive, PTL

\* In no calendar minute or hour do more than twice the limit get through, for
\* every resolution of the clock, every limit and every spacing of the requests
\* (chat_coordination.py:44-96).
THEOREM NeverMoreThanTwice == RatesSpec => []AtMostTwice
<1>1. QuotasInv => AtMostTwice
  <2> SUFFICES ASSUME QuotasInv, NEW w \in Windows PROVE passed[w] <= 2 * Limit(w)
    BY DEF AtMostTwice
  <2>1. passed[w] \in Nat /\ Limit(w) \in Nat
    BY WindowFacts DEF QuotasInv, RatesTypeOK
  <2> QED BY <2>1 DEF QuotasInv, Lives, FirstLife, SecondLife
<1> QED BY <1>1, QuotasInductive, PTL

\* More than the limit gets through only in the last second of the window
\* (chat_coordination.py:89-96).
THEOREM HoldsUntilLastSecond == RatesSpec => []CountsUntilLastSecond
<1>1. QuotasInv => CountsUntilLastSecond
  <2> SUFFICES ASSUME QuotasInv, NEW w \in Windows, passed[w] > Limit(w)
               PROVE  End(w) - utcNow < Second
    BY DEF CountsUntilLastSecond
  <2>1. passed[w] \in Nat /\ Limit(w) \in Nat
    BY WindowFacts DEF QuotasInv, RatesTypeOK
  <2> QED BY <2>1 DEF QuotasInv, Lives, FirstLife, SecondLife
<1> QED BY <1>1, QuotasInductive, PTL

-----------------------------------------------------------------------------
(***************************************************************************)
(* PinOrder, for any histories and threads.  The lease serialises the edits *)
(* of one history, so a place that a pin has computed for a history that was *)
(* not pinned still finds it unpinned at the commit.                       *)
(***************************************************************************)

\* A current request is under way on a history.
Leasing ==
    \A t \in Thread : edit[t].current => edit[t].at # "idle" /\ edit[t].history \in History

\* At most one current request per history.
LeaseIsUnique ==
    \A t, u \in Thread :
        t # u /\ edit[t].current /\ edit[u].current => edit[t].history # edit[u].history

\* A computed place is for a history that is still unpinned.
PlaceIsFree ==
    \A t \in Thread :
        edit[t].current /\ edit[t].next # 0 =>
            edit[t].kind = "pin" /\ pin_order[edit[t].history] = 0

PlacesInv == PinsTypeOK /\ Leasing /\ LeaseIsUnique /\ PlaceIsFree

LEMMA PlacesInit == PinsInit => PlacesInv
<1> SUFFICES ASSUME PinsInit PROVE PlacesInv
    OBVIOUS
<1>1. NoEdit \in Edit
    BY PinOrderAssumption DEF NoEdit, Edit
<1>2. PinsTypeOK
    BY <1>1, PinOrderAssumption DEF PinsInit, PinsTypeOK
<1>3. Leasing /\ LeaseIsUnique /\ PlaceIsFree
    BY DEF PinsInit, NoEdit, Leasing, LeaseIsUnique, PlaceIsFree
<1> QED
    BY <1>2, <1>3 DEF PlacesInv

LEMMA PlacesStep == PlacesInv /\ [PinsNext]_pinVars => PlacesInv'
<1> SUFFICES ASSUME PlacesInv, [PinsNext]_pinVars PROVE PlacesInv'
    OBVIOUS
<1> USE DEF PlacesInv
<1>0. /\ pin_order \in [History -> 0 .. MaxPlace]
      /\ edit \in [Thread -> Edit]
    BY DEF PinsTypeOK
<1>1. ASSUME NEW t \in Thread, NEW h \in History, NEW kind \in {"pin", "unpin"},
             BeginEdit(t, h, kind)
      PROVE  PlacesInv'
    <2> DEFINE e == [NoEdit EXCEPT !.at = "begun", !.kind = kind, !.history = h, !.current = TRUE]
    <2>1. edit' = [edit EXCEPT ![t] = e] /\ pin_order' = pin_order
        BY <1>1 DEF BeginEdit, Becomes
    <2>2. e \in Edit /\ e.at = "begun" /\ e.history = h /\ e.next = 0
        <3>1. NoEdit \in Edit /\ NoEdit.next = 0
            BY PinOrderAssumption DEF Edit, NoEdit
        <3>2. e \in Edit
            BY <3>1 DEF Edit
        <3>3. e.at = "begun" /\ e.history = h /\ e.next = NoEdit.next
            BY <3>1 DEF Edit
        <3> QED
            BY <3>1, <3>2, <3>3
    <2> HIDE DEF e
    <2>3. \A u \in Thread : ~(edit[u].history = h /\ edit[u].current)
        BY <1>1 DEF BeginEdit, Leases
    <2> QED
        BY <1>0, <2>1, <2>2, <2>3 DEF PinsTypeOK, Leasing, LeaseIsUnique, PlaceIsFree
<1>2. ASSUME NEW t \in Thread, Computes(t)
      PROVE  PlacesInv'
    <2>1. PICK n \in 0 .. MaxPlace :
              /\ n = PlaceFor(edit[t])
              /\ edit' = [edit EXCEPT ![t] = [edit[t] EXCEPT !.at = "computed", !.next = n]]
        BY <1>2 DEF Computes, Becomes
    <2>2. pin_order' = pin_order /\ edit[t].current /\ edit[t].at = "begun"
        BY <1>2 DEF Computes
    <2>3. n # 0 => edit[t].kind = "pin" /\ pin_order[edit[t].history] = 0
        BY <2>1 DEF PlaceFor
    <2>4. [edit[t] EXCEPT !.at = "computed", !.next = n] \in Edit
        <3>1. \A e \in Edit, m \in 0 .. MaxPlace : [e EXCEPT !.at = "computed", !.next = m] \in Edit
            BY DEF Edit
        <3> QED
            BY <1>0, <2>1, <3>1
    <2> HIDE DEF PlaceFor
    <2>5. PinsTypeOK'
        BY <1>0, <2>1, <2>2, <2>4 DEF PinsTypeOK
    <2>6. edit[t] \in Edit
        BY <1>0
    <2>7. (Leasing /\ LeaseIsUnique /\ PlaceIsFree)'
        BY <1>0, <2>1, <2>2, <2>3, <2>6 DEF Leasing, LeaseIsUnique, PlaceIsFree, Edit
    <2> QED
        BY <2>5, <2>7
<1>3. ASSUME NEW t \in Thread, Commits(t)
      PROVE  PlacesInv'
    <2>1. /\ edit[t].at = "computed" /\ edit[t].current
          /\ pin_order' = [pin_order EXCEPT ![edit[t].history] = Written(edit[t])]
          /\ edit' = [edit EXCEPT ![t] = NoEdit]
        BY <1>3 DEF Commits, Becomes
    <2>2. edit[t] \in Edit /\ NoEdit \in Edit /\ NoEdit.current = FALSE
        BY <1>0, PinOrderAssumption DEF Edit, NoEdit
    <2>3. edit[t].history \in History
        BY <2>1 DEF Leasing
    <2>4. Written(edit[t]) \in 0 .. MaxPlace
        BY <1>0, <2>2, <2>3, PinOrderAssumption DEF Written, Edit
    <2>5. PinsTypeOK'
        BY <1>0, <2>1, <2>2, <2>4 DEF PinsTypeOK
    <2>6. \A u \in Thread : u # t /\ edit[u].current =>
              pin_order'[edit[u].history] = pin_order[edit[u].history]
        BY <1>0, <2>1 DEF LeaseIsUnique, Leasing
    <2>7. \A u \in Thread : edit'[u] = IF u = t THEN NoEdit ELSE edit[u]
        BY <1>0, <2>1
    <2>8. (Leasing /\ LeaseIsUnique /\ PlaceIsFree)'
        BY <2>2, <2>6, <2>7 DEF Leasing, LeaseIsUnique, PlaceIsFree
    <2> QED
        BY <2>5, <2>8
<1>4. ASSUME NEW t \in Thread, Expires(t)
      PROVE  PlacesInv'
    <2>1. edit' = [edit EXCEPT ![t] = [edit[t] EXCEPT !.current = FALSE]] /\ pin_order' = pin_order
        BY <1>4 DEF Expires, Becomes
    <2>2. edit[t] \in Edit
        BY <1>0
    <2>3. [edit[t] EXCEPT !.current = FALSE] \in Edit
        <3>1. \A e \in Edit, c \in BOOLEAN : [e EXCEPT !.current = c] \in Edit
            BY DEF Edit
        <3> QED
            BY <2>2, <3>1
    <2>4. PinsTypeOK'
        BY <1>0, <2>1, <2>3 DEF PinsTypeOK
    <2>5. (Leasing /\ LeaseIsUnique /\ PlaceIsFree)'
        BY <1>0, <2>1, <2>2 DEF Leasing, LeaseIsUnique, PlaceIsFree, Edit
    <2> QED
        BY <2>4, <2>5
<1>5. ASSUME NEW t \in Thread, RefusedEdit(t)
      PROVE  PlacesInv'
    <2>1. edit' = [edit EXCEPT ![t] = NoEdit] /\ pin_order' = pin_order
        BY <1>5 DEF RefusedEdit, Becomes
    <2>2. NoEdit \in Edit /\ NoEdit.current = FALSE
        BY PinOrderAssumption DEF NoEdit, Edit
    <2> QED
        BY <1>0, <2>1, <2>2 DEF PinsTypeOK, Leasing, LeaseIsUnique, PlaceIsFree
<1>6. CASE UNCHANGED pinVars
    BY <1>6 DEF pinVars, PinsTypeOK, Leasing, LeaseIsUnique, PlaceIsFree
<1> QED
    BY <1>1, <1>2, <1>3, <1>4, <1>5, <1>6 DEF PinsNext

\* What a commit writes leaves a pinned history its place, or none.
LEMMA StepKeepsPlaces ==
    ASSUME PlacesInv, [PinsNext]_pinVars, NEW h \in Pinned
    PROVE  pin_order'[h] \in {0, pin_order[h]}
<1>0. /\ pin_order \in [History -> 0 .. MaxPlace] /\ h \in History /\ pin_order[h] # 0
      /\ edit \in [Thread -> Edit]
    BY DEF Pinned, PlacesInv, PinsTypeOK
<1>1. ASSUME NEW t \in Thread, Commits(t)
      PROVE  pin_order'[h] \in {0, pin_order[h]}
    <2>1. /\ edit[t].current
          /\ pin_order' = [pin_order EXCEPT ![edit[t].history] = Written(edit[t])]
        BY <1>1 DEF Commits
    <2>2. edit[t].history = h => edit[t].next = 0
        BY <1>0, <2>1 DEF PlacesInv, PlaceIsFree
    <2>3. edit[t].history = h => Written(edit[t]) \in {0, pin_order[h]}
        BY <2>2 DEF Written
    <2> QED
        BY <1>0, <2>1, <2>3
<1>2. ASSUME pin_order' = pin_order
      PROVE  pin_order'[h] \in {0, pin_order[h]}
    BY <1>2
<1> QED
    BY <1>1, <1>2 DEF PinsNext, pinVars, BeginEdit, Computes, Expires, RefusedEdit

\* The places of pinned histories stay as an edit has computed them
\* (histories/service.py:100-165).
THEOREM PlacesInductive == PinsSpec => []PlacesInv
<1> QED
    BY PlacesInit, PlacesStep, PTL DEF PinsSpec

\* Edits keep the shape of the rows, for any histories and threads.
THEOREM PlaceTypes == PinsSpec => []PinsTypeOK
<1>1. PlacesInv => PinsTypeOK
    BY DEF PlacesInv
<1> QED
    BY <1>1, PlacesInductive, PTL

\* PlacesAreKept of the runs, for any histories and threads: no edit moves a history that
\* is pinned (histories/service.py:115-122).
THEOREM NoPinMovesAnother == PinsSpec => PlacesAreKept
<1>1. PlacesInv /\ [PinsNext]_pinVars => [\A h \in Pinned : pin_order'[h] \in {0, pin_order[h]}]_pinVars
    BY StepKeepsPlaces
<1> QED
    BY <1>1, PlacesInductive, PTL DEF PinsSpec, PlacesAreKept

-----------------------------------------------------------------------------
(***************************************************************************)
(* UsageCaps, for every set of users, requests and commands, and every unit. *)
(* What a command has read was spent then, the ledger only grows, and      *)
(* rounding keeps order: a baseline never exceeds what its user has spent. *)
(***************************************************************************)

\* What a command has read of a user is an amount the user has spent, and a row it
\* has read is still there.
ReadIsSpent ==
    \A o \in Operators : command[o] # NoCommand =>
        \A u \in Users :
            /\ command[o].usage[u] # Unread => command[o].usage[u] <= Usage(u)
            /\ command[o].row[u] \in CapRow => cap[u] \in CapRow /\ command[o].row[u].baseline <= Usage(u)

CapsInv == CapsTypeOK /\ ForgivesOnlyTheSpent /\ ReadIsSpent

\* Rounding half to even gives a natural number and keeps the order of sums.
LEMMA RoundedIsNatural == ASSUME NEW n \in Nat PROVE Rounded(n) \in Nat
BY AmountAssumption DEF Rounded

LEMMA RoundedMonotone ==
    ASSUME NEW a \in Nat, NEW b \in Nat, a <= b
    PROVE  Rounded(a) <= Rounded(b)
<1> DEFINE p == a \div Unit
           q == b \div Unit
           c == a % Unit
           d == b % Unit
<1>1. /\ p \in Nat /\ q \in Nat /\ c \in Nat /\ d \in Nat
      /\ c < Unit /\ d < Unit /\ Unit \in Nat
  BY AmountAssumption
<1>2. a = Unit * p + c /\ b = Unit * q + d
  BY AmountAssumption
<1>3. /\ Rounded(a) = IF 2 * c > Unit \/ (2 * c = Unit /\ p % 2 = 1) THEN p + 1 ELSE p
      /\ Rounded(b) = IF 2 * d > Unit \/ (2 * d = Unit /\ q % 2 = 1) THEN q + 1 ELSE q
  BY DEF Rounded
<1> HIDE DEF p, q, c, d
<1>4. p <= q
  <2> SUFFICES ASSUME q + 1 <= p PROVE FALSE
    BY <1>1
  <2>1. PICK k \in Nat : p = q + 1 + k
    <3>1. p - q - 1 \in Nat
      BY <1>1
    <3> QED BY <1>1, <3>1
  <2>2. Unit * p = Unit * q + Unit + Unit * k
    BY <1>1, <2>1
  <2>3. PICK x \in Nat, y \in Nat : x = Unit * q /\ y = Unit * k
    BY <1>1
  <2> QED BY <1>1, <1>2, <2>2, <2>3
<1>5. CASE p < q
  BY <1>1, <1>3, <1>5
<1>6. CASE p = q
  <2>1. PICK x \in Nat : x = Unit * p
    BY <1>1
  <2>2. c <= d
    BY <1>1, <1>2, <1>6, <2>1
  <2> QED BY <1>1, <1>3, <1>6, <2>2
<1> QED BY <1>1, <1>4, <1>5, <1>6

\* The states of CapsInv, with what one needs of them.
LEMMA StateFacts ==
    ASSUME CapsInv
    PROVE  /\ \A u \in Users : ledger[u] \in Nat /\ Usage(u) \in Nat
           /\ \A u \in Users : cap[u] \in CapRow \/ cap[u] = NoCap
           /\ \A u \in Users : cap[u] \in CapRow => cap[u].baseline <= Usage(u)
           /\ \A o \in Operators : command[o] \in Command
<1>1. CapsTypeOK /\ ForgivesOnlyTheSpent
  BY DEF CapsInv
<1>2. ASSUME NEW u \in Users PROVE ledger[u] \in Nat /\ Usage(u) \in Nat
  BY <1>1, AmountAssumption, RoundedIsNatural DEF CapsTypeOK, Usage
<1>3. ASSUME NEW u \in Users, cap[u] \in CapRow PROVE cap[u].baseline <= Usage(u)
  BY <1>1, <1>3, MissingAssumption DEF ForgivesOnlyTheSpent, StateOf
<1> QED BY <1>1, <1>2, <1>3 DEF CapsTypeOK

LEMMA CapsInitHolds == CapsInit => CapsInv
<1> SUFFICES ASSUME CapsInit PROVE CapsInv
  OBVIOUS
<1>1. CapsTypeOK
  BY AmountAssumption DEF CapsInit, CapsTypeOK, Command, ChatRequest
<1>2. ASSUME NEW u \in Users PROVE StateOf(u).baseline = 0 /\ Usage(u) \in Nat
  BY <1>1, RoundedIsNatural, AmountAssumption DEF CapsInit, StateOf, Usage
<1> QED BY <1>1, <1>2 DEF CapsInit, CapsInv, ForgivesOnlyTheSpent, ReadIsSpent

\* A step that leaves the commands and the caps alone and lets the ledger grow.
LEMMA SpendingKeeps ==
    ASSUME CapsInv, CapsTypeOK', UNCHANGED <<cap, command>>,
           \A u \in Users : ledger[u] <= ledger'[u]
    PROVE  CapsInv'
<1>1. ASSUME NEW u \in Users
      PROVE  Usage(u) \in Nat /\ Usage(u)' \in Nat /\ Usage(u) <= Usage(u)'
  <2>1. ledger[u] \in Nat /\ ledger'[u] \in Nat
    BY AmountAssumption DEF CapsInv, CapsTypeOK
  <2> QED BY <2>1, RoundedIsNatural, RoundedMonotone DEF Usage
<1>2. ForgivesOnlyTheSpent'
  <2> SUFFICES ASSUME NEW u \in Users PROVE (StateOf(u).baseline <= Usage(u))'
    BY DEF ForgivesOnlyTheSpent
  <2>1. StateOf(u).baseline <= Usage(u) /\ StateOf(u)' = StateOf(u)
    BY DEF CapsInv, ForgivesOnlyTheSpent, StateOf
  <2>2. StateOf(u).baseline \in Nat
    <3>1. cap[u] \in CapRow \/ cap[u] = NoCap
      BY StateFacts
    <3> QED BY <3>1 DEF StateOf, CapRow
  <2> QED BY <1>1, <2>1, <2>2
<1>3. ReadIsSpent'
  <2> SUFFICES ASSUME NEW o \in Operators, command[o] # NoCommand, NEW u \in Users
               PROVE  /\ command[o].usage[u] # Unread => command[o].usage[u] <= Usage(u)'
                      /\ command[o].row[u] \in CapRow => cap'[u] \in CapRow /\ command[o].row[u].baseline <= Usage(u)'
    BY DEF ReadIsSpent
  <2>1. command[o].usage[u] \in Nat \cup {Unread}
    BY StateFacts DEF Command
  <2>2. /\ command[o].usage[u] # Unread => command[o].usage[u] <= Usage(u)
        /\ command[o].row[u] \in CapRow => cap[u] \in CapRow /\ command[o].row[u].baseline <= Usage(u)
    BY DEF CapsInv, ReadIsSpent
  <2>3. command[o].row[u] \in CapRow => command[o].row[u].baseline \in Nat
    BY DEF CapRow
  <2> QED BY <1>1, <2>1, <2>2, <2>3
<1> QED BY <1>2, <1>3 DEF CapsInv

LEMMA SpendingStepKeeps ==
    ASSUME NEW r \in Requests
    PROVE  CapsInv /\ RequestStep(r) => CapsInv'
<1> SUFFICES ASSUME CapsInv, RequestStep(r) PROVE CapsInv'
  OBVIOUS
<1>1. CapsTypeOK
  BY DEF CapsInv
<1>2. UNCHANGED <<cap, granted, command>>
  BY DEF RequestStep, Validates, Compacts, Answers, Fails
<1>3. ASSUME NEW u \in Users, Pays(u, 0) \/ \E cost \in 0..MaxCost : Pays(u, cost)
      PROVE  /\ ledger' \in [Users -> 0..MaxLedger]
             /\ \A v \in Users : ledger[v] <= ledger'[v]
  <2>1. PICK cost \in Nat : Pays(u, cost)
    BY <1>3, AmountAssumption
  <2>2. ledger \in [Users -> 0..MaxLedger] /\ MaxLedger \in Nat
    BY <1>1, AmountAssumption DEF CapsTypeOK
  <2> QED BY <2>1, <2>2 DEF Pays
<1>4. request[r] \in ChatRequest /\ (request[r] # NoRequest => request[r].user \in Users)
  BY <1>1 DEF CapsTypeOK, ChatRequest
<1>5. /\ ledger' \in [Users -> 0..MaxLedger]
      /\ \A v \in Users : ledger[v] <= ledger'[v]
  <2>1. CASE UNCHANGED ledger
    BY <1>1, <2>1, AmountAssumption DEF CapsTypeOK
  <2>2. CASE request[r] # NoRequest /\ \E cost \in 0..MaxCost : Pays(request[r].user, cost)
    BY <1>3, <1>4, <2>2
  <2>3. Compacts(r) => request[r] # NoRequest
    BY DEF Compacts, NoRequest
  <2> QED BY <2>1, <2>2, <2>3 DEF RequestStep, Validates, Compacts, Answers, Fails
<1>6. request' \in [Requests -> ChatRequest]
  <2>1. CASE \E u \in Users : Validates(r, u)
    BY <1>1, <2>1 DEF CapsTypeOK, Validates, ChatRequest
  <2>2. CASE Compacts(r)
    <3>1. request[r] # NoRequest
      BY <2>2 DEF Compacts, NoRequest
    <3>2. request[r] \in [at : {"validated", "compacted"}, user : Users]
      BY <1>4, <3>1 DEF ChatRequest
    <3>3. [request[r] EXCEPT !.at = "compacted"] \in ChatRequest
      BY <3>2 DEF ChatRequest
    <3> QED BY <1>1, <2>2, <3>3 DEF CapsTypeOK, Compacts
  <2>3. CASE Answers(r) \/ Fails(r)
    BY <1>1, <2>3 DEF CapsTypeOK, Answers, Fails, ChatRequest
  <2> QED BY <2>1, <2>2, <2>3 DEF RequestStep
<1>7. CapsTypeOK'
  BY <1>1, <1>2, <1>5, <1>6 DEF CapsTypeOK
<1> QED BY <1>2, <1>5, <1>7, SpendingKeeps

\* A step of a command that only reads.
LEMMA ReadingKeeps ==
    ASSUME CapsInv, NEW o \in Operators, UNCHANGED <<ledger, cap, granted, request>>,
           NEW c \in Command, command' = [command EXCEPT ![o] = c],
           c # NoCommand => \A u \in Users :
              /\ c.usage[u] # Unread => c.usage[u] <= Usage(u)
              /\ c.row[u] \in CapRow => cap[u] \in CapRow /\ c.row[u].baseline <= Usage(u)
    PROVE  CapsInv'
<1>1. CapsTypeOK'
  BY DEF CapsInv, CapsTypeOK
<1>2. \A u \in Users : Usage(u)' = Usage(u) /\ StateOf(u)' = StateOf(u)
  BY DEF Usage, StateOf, Rounded
<1>3. ForgivesOnlyTheSpent'
  BY <1>2 DEF CapsInv, ForgivesOnlyTheSpent
<1>4. command \in [Operators -> Command]
  BY DEF CapsInv, CapsTypeOK
<1>5. ReadIsSpent'
  <2> SUFFICES ASSUME NEW p \in Operators, command'[p] # NoCommand, NEW u \in Users
               PROVE  /\ command'[p].usage[u] # Unread => command'[p].usage[u] <= Usage(u)
                      /\ command'[p].row[u] \in CapRow => cap'[u] \in CapRow /\ command'[p].row[u].baseline <= Usage(u)
    BY <1>2 DEF ReadIsSpent
  <2>1. CASE p = o
    BY <1>4, <2>1
  <2>2. CASE p # o
    <3>1. command'[p] = command[p]
      BY <1>4, <2>2
    <3> QED BY <3>1 DEF CapsInv, ReadIsSpent
  <2> QED BY <2>1, <2>2
<1> QED BY <1>1, <1>3, <1>5 DEF CapsInv

\* A command that has been given knows its users, and what it has read of them.
LEMMA CommandFacts ==
    ASSUME CapsInv, NEW o \in Operators, command[o] # NoCommand
    PROVE  /\ command[o] \in [name : Commands, scope : SUBSET Users, amount : Nat,
                               usage : [Users -> Nat \cup {Unread}],
                               row : [Users -> CapRow \cup {NoCap, Unread}]]
           /\ \A u \in Users :
                 /\ command[o].usage[u] # Unread => command[o].usage[u] <= Usage(u)
                 /\ command[o].row[u] \in CapRow => cap[u] \in CapRow /\ command[o].row[u].baseline <= Usage(u)
<1>1. command[o] \in Command
  BY StateFacts
<1> QED BY <1>1 DEF Command, CapsInv, ReadIsSpent

LEMMA GivesKeeps ==
    ASSUME NEW o \in Operators, NEW name \in Commands, NEW scope \in SUBSET Users,
           NEW amount \in NewCaps \cup {0}, CapsInv, Gives(o, name, scope, amount)
    PROVE  CapsInv'
<1> DEFINE c == [name |-> name, scope |-> scope, amount |-> amount,
                 usage |-> [u \in Users |-> Unread], row |-> [u \in Users |-> Unread]]
<1>1. c \in Command
  BY AmountAssumption DEF Command
<1>2. \A u \in Users : c.usage[u] = Unread /\ c.row[u] \notin CapRow
  BY MissingAssumption
<1>3. command' = [command EXCEPT ![o] = c] /\ UNCHANGED <<ledger, cap, granted, request>>
  BY DEF Gives
<1> HIDE DEF c
<1> QED BY <1>1, <1>2, <1>3, ReadingKeeps

LEMMA ReadsUsageKeeps ==
    ASSUME NEW o \in Operators, NEW u \in Users, CapsInv, ReadsUsage(o, u)
    PROVE  CapsInv'
<1> DEFINE c == [command[o] EXCEPT !.usage = [@ EXCEPT ![u] = Read(u)]]
<1>1. command[o] # NoCommand
  BY DEF ReadsUsage
<1>2. Read(u) \in Nat /\ Read(u) = Usage(u)
  BY StateFacts DEF Read
<1>3. c \in Command
  BY <1>1, <1>2, CommandFacts DEF Command
<1>4. ASSUME NEW v \in Users
      PROVE  /\ c.usage[v] = IF v = u THEN Usage(u) ELSE command[o].usage[v]
             /\ c.row[v] = command[o].row[v]
  BY <1>1, <1>2, CommandFacts
<1>5. \A v \in Users :
         /\ c.usage[v] # Unread => c.usage[v] <= Usage(v)
         /\ c.row[v] \in CapRow => cap[v] \in CapRow /\ c.row[v].baseline <= Usage(v)
  BY <1>1, <1>2, <1>4, CommandFacts
<1>6. command' = [command EXCEPT ![o] = c] /\ UNCHANGED <<ledger, cap, granted, request>>
  BY DEF ReadsUsage
<1> HIDE DEF c
<1> QED BY <1>3, <1>5, <1>6, ReadingKeeps

LEMMA ReadsRowKeeps ==
    ASSUME NEW o \in Operators, NEW u \in Users, CapsInv, ReadsRow(o, u)
    PROVE  CapsInv'
<1> DEFINE c == [command[o] EXCEPT !.row = [@ EXCEPT ![u] = cap[u]]]
<1>1. command[o] # NoCommand
  BY DEF ReadsRow
<1>2. cap[u] \in CapRow \cup {NoCap} /\ (cap[u] \in CapRow => cap[u].baseline <= Usage(u))
  BY StateFacts
<1>3. c \in Command
  BY <1>1, <1>2, CommandFacts DEF Command
<1>4. ASSUME NEW v \in Users
      PROVE  /\ c.usage[v] = command[o].usage[v]
             /\ c.row[v] = IF v = u THEN cap[u] ELSE command[o].row[v]
  BY <1>1, <1>2, CommandFacts
<1>5. \A v \in Users :
         /\ c.usage[v] # Unread => c.usage[v] <= Usage(v)
         /\ c.row[v] \in CapRow => cap[v] \in CapRow /\ c.row[v].baseline <= Usage(v)
  BY <1>1, <1>2, <1>4, CommandFacts
<1>6. command' = [command EXCEPT ![o] = c] /\ UNCHANGED <<ledger, cap, granted, request>>
  BY DEF ReadsRow
<1> HIDE DEF c
<1> QED BY <1>3, <1>5, <1>6, ReadingKeeps

\* What a ready command flushes is a row whose baseline has been spent.
LEMMA FlushedIsSpent ==
    ASSUME CapsInv, NEW o \in Operators, IsReady(o), ~Collides(o), NEW u \in command[o].scope
    PROVE  Flushed(o, u) \in CapRow /\ Flushed(o, u).baseline <= Usage(u)
<1>1. command[o] # NoCommand /\ u \in Users
  BY CommandFacts DEF IsReady
<1> DEFINE c == command[o]
           old == c.row[u]
<1>2. /\ c.name \in Commands /\ c.amount \in Nat
      /\ c.usage[u] \in Nat \cup {Unread} /\ old \in CapRow \cup {NoCap, Unread}
      /\ c.usage[u] # Unread => c.usage[u] <= Usage(u)
      /\ old \in CapRow => cap[u] \in CapRow /\ old.baseline <= Usage(u)
  BY <1>1, CommandFacts
<1>3. old # Unread /\ Usage(u) \in Nat
  BY <1>1, StateFacts DEF IsReady
<1>4. c.name \notin {"set-cap", "disable-cap"} => c.usage[u] # Unread
  BY <1>1, <1>2, CommandAssumption DEF IsReady, IsReset
<1>5. Wanted(o, u) \in CapRow /\ Wanted(o, u).baseline <= Usage(u)
  <2>1. CASE c.name = "set-cap"
    BY <1>2, <1>3, <2>1 DEF Wanted, CapRow
  <2>2. CASE c.name = "disable-cap"
    <3>1. old = NoCap => c.usage[u] \in Nat
      BY <1>1, <1>2, <2>2 DEF IsReady
    <3>2. old = NoCap => c.usage[u] <= Usage(u)
      BY <1>2, <3>1, MissingAssumption
    <3>3. CASE old = NoCap
      BY <1>2, <1>3, <2>2, <3>1, <3>2, <3>3, AmountAssumption DEF Wanted, CapRow
    <3>4. CASE old \in CapRow
      <4>1. old # NoCap
        BY <3>4, MissingAssumption
      <4> QED BY <1>2, <1>3, <2>2, <3>4, <4>1 DEF Wanted, CapRow
    <3> QED BY <1>2, <1>3, <3>3, <3>4
  <2>3. CASE c.name \notin {"set-cap", "disable-cap"}
    BY <1>2, <1>3, <1>4, <2>3, AmountAssumption DEF Wanted, CapRow
  <2> QED BY <2>1, <2>2, <2>3
<1>6. CASE old = NoCap
  BY <1>5, <1>6 DEF Flushed
<1>7. CASE old \in CapRow
  <2>1. cap[u] \in CapRow /\ cap[u].baseline <= Usage(u)
    BY <1>1, <1>2, <1>7, StateFacts
  <2> QED BY <1>5, <1>7, <2>1, MissingAssumption DEF Flushed, CapRow
<1> QED BY <1>2, <1>3, <1>6, <1>7

LEMMA CommitsKeeps ==
    ASSUME NEW o \in Operators, CapsInv, CommitsCommand(o)
    PROVE  CapsInv'
<1>1. CapsTypeOK /\ command[o] # NoCommand /\ IsReady(o) /\ ~Collides(o)
  BY DEF CapsInv, CommitsCommand, IsReady
<1>2. ASSUME NEW u \in Users
      PROVE  /\ cap[u] \in CapRow => cap'[u] \in CapRow
             /\ cap'[u] \in CapRow \cup {NoCap}
             /\ cap'[u] \in CapRow => cap'[u].baseline <= Usage(u)
             /\ Usage(u)' = Usage(u) /\ Usage(u) \in Nat
  <2>1. cap'[u] = IF u \in command[o].scope THEN Flushed(o, u) ELSE cap[u]
    BY DEF CommitsCommand
  <2>2. Usage(u)' = Usage(u)
    BY DEF CommitsCommand, Usage, Rounded
  <2> QED BY <1>1, <2>1, <2>2, FlushedIsSpent, StateFacts
<1>3. NoCommand \in Command /\ command' = [command EXCEPT ![o] = NoCommand]
  BY DEF Command, CommitsCommand
<1>4. cap' \in [Users -> CapRow \cup {NoCap}]
  <2> DEFINE F == [u \in Users |-> IF u \in command[o].scope THEN Flushed(o, u) ELSE cap[u]]
  <2>1. cap' = F
    BY DEF CommitsCommand
  <2>2. \A u \in Users : F[u] \in CapRow \cup {NoCap}
    BY <1>2, <2>1
  <2> QED BY <2>1, <2>2
<1>5. CapsTypeOK'
  <2>1. ASSUME NEW u \in Users PROVE Allowance(u)' \in Nat
    <3>1. cap'[u] # NoCap => cap'[u] \in CapRow
      BY <1>2
    <3>2. StateOf(u)'.baseline \in Nat /\ StateOf(u)'.amount \in Nat
      BY <3>1, AmountAssumption DEF StateOf, CapRow
    <3>3. PICK n \in Nat : n = StateOf(u)'.baseline + StateOf(u)'.amount
      BY <3>2
    <3>4. Unit * n \in Nat
      BY AmountAssumption
    <3> QED BY <3>3, <3>4 DEF Allowance
  <2>2. granted' \in [Users -> Nat \cup {NoCap}]
    BY <1>1, <2>1 DEF CapsTypeOK, CommitsCommand
  <2> QED BY <1>1, <1>3, <1>4, <2>2 DEF CapsTypeOK, CommitsCommand
<1>6. ForgivesOnlyTheSpent'
  <2> SUFFICES ASSUME NEW u \in Users PROVE (StateOf(u).baseline <= Usage(u))'
    BY DEF ForgivesOnlyTheSpent
  <2> QED BY <1>2 DEF StateOf
<1>7. ReadIsSpent'
  <2> SUFFICES ASSUME NEW p \in Operators, command'[p] # NoCommand, NEW u \in Users
               PROVE  /\ command'[p].usage[u] # Unread => command'[p].usage[u] <= Usage(u)
                      /\ command'[p].row[u] \in CapRow =>
                            cap'[u] \in CapRow /\ command'[p].row[u].baseline <= Usage(u)
    BY <1>2 DEF ReadIsSpent
  <2>1. command'[p] = command[p] /\ command[p] # NoCommand
    BY <1>1, <1>3 DEF CapsTypeOK
  <2> QED BY <1>2, <2>1, CommandFacts
<1> QED BY <1>5, <1>6, <1>7 DEF CapsInv

LEMMA RollsBackKeeps ==
    ASSUME NEW o \in Operators, CapsInv, RollsBack(o)
    PROVE  CapsInv'
<1>1. NoCommand \in Command
  BY DEF Command
<1> QED BY <1>1, ReadingKeeps DEF RollsBack

LEMMA CapsStep == CapsInv /\ [CapsNext]_capVars => CapsInv'
<1> SUFFICES ASSUME CapsInv, [CapsNext]_capVars PROVE CapsInv'
  OBVIOUS
<1>1. CASE UNCHANGED capVars
  <2>1. \A u \in Users : Usage(u)' = Usage(u) /\ StateOf(u)' = StateOf(u)
    BY <1>1 DEF capVars, Usage, StateOf, Rounded
  <2> QED BY <1>1, <2>1 DEF CapsInv, CapsTypeOK, ForgivesOnlyTheSpent, ReadIsSpent, capVars
<1>2. CASE \E r \in Requests : RequestStep(r)
  BY <1>2, SpendingStepKeeps
<1>3. CASE \E o \in Operators : CommandStep(o)
  <2>1. PICK o \in Operators : CommandStep(o)
    BY <1>3
  <2> QED BY <2>1, GivesKeeps, ReadsUsageKeeps, ReadsRowKeeps, CommitsKeeps, RollsBackKeeps
          DEF CommandStep
<1> QED BY <1>1, <1>2, <1>3 DEF CapsNext

\* What a command has read of a user was spent, and so is every baseline: the sum only
\* grows (usage_ledger.py, maintenance/usage_caps.py:140-182).
THEOREM CapsInductive == CapsSpec => []CapsInv
BY CapsInitHolds, CapsStep, PTL DEF CapsSpec

\* The types of the ledger, the caps, the requests and the commands.
THEOREM CapTypes == CapsSpec => []CapsTypeOK
<1>1. CapsInv => CapsTypeOK
  BY DEF CapsInv
<1> QED BY <1>1, CapsInductive, PTL

\* No command forgives what has not been spent yet, whatever commands and requests
\* do at the same time (maintenance/usage_caps.py:140-182).
THEOREM NothingForgivenAhead == CapsSpec => []ForgivesOnlyTheSpent
<1>1. CapsInv => ForgivesOnlyTheSpent
  BY DEF CapsInv
<1> QED BY <1>1, CapsInductive, PTL


-----------------------------------------------------------------------------
(* The overshoot of a cap.  A request at work owes the ledger an answer, and a   *)
(* compaction while it has made none.  A cap lets a request through only below   *)
(* it, so what is spent and what is owed stay within what was granted and the    *)
(* cost of every request at work.                                                *)

AtWork(u) == {r \in Requests : request[r] # NoRequest /\ request[r].user = u}

Uncompacted(u) == {r \in AtWork(u) : request[r].at = "validated"}

\* The provider calls of a user that are still to be paid for.
Owed(u) == Cardinality(AtWork(u)) + Cardinality(Uncompacted(u))

\* A user without a disabled cap in the past has a cap now, no higher than what was
\* granted, and nobody owes more than the grant covers.
WithinGrant ==
    \A u \in Users : granted[u] # NoCap =>
        /\ StateOf(u).enabled
        /\ Allowance(u) <= granted[u]
        /\ ledger[u] + MaxCost * Owed(u) <= granted[u] + 2 * MaxCost * Cardinality(Requests)

\* What the requests at work owe is a number, and no more than two calls each.
LEMMA OwedIsBounded ==
    ASSUME NEW u \in Users
    PROVE  /\ Cardinality(Requests) \in Nat /\ Owed(u) \in Nat
           /\ Owed(u) <= 2 * Cardinality(Requests)
           /\ IsFiniteSet(AtWork(u)) /\ IsFiniteSet(Uncompacted(u))
           /\ Cardinality(AtWork(u)) \in Nat /\ Cardinality(Uncompacted(u)) \in Nat
<1>1. AtWork(u) \in SUBSET Requests /\ Uncompacted(u) \in SUBSET Requests
  BY DEF AtWork, Uncompacted
<1>2. /\ IsFiniteSet(AtWork(u)) /\ Cardinality(AtWork(u)) <= Cardinality(Requests)
      /\ IsFiniteSet(Uncompacted(u)) /\ Cardinality(Uncompacted(u)) <= Cardinality(Requests)
  BY <1>1, RequestsFinite, FS_Subset
<1>3. /\ Cardinality(Requests) \in Nat
      /\ Cardinality(AtWork(u)) \in Nat /\ Cardinality(Uncompacted(u)) \in Nat
  BY <1>2, RequestsFinite, FS_CardinalityType
<1> QED BY <1>2, <1>3 DEF Owed

\* The cost of calls grows with their number.
LEMMA CostGrows ==
    ASSUME NEW m \in Nat, NEW n \in Nat
    PROVE  /\ MaxCost * m \in Nat
           /\ m <= n => MaxCost * m <= MaxCost * n
           /\ m + 1 <= n => MaxCost * m + MaxCost <= MaxCost * n
<1>1. MaxCost * m \in Nat
  BY AmountAssumption
<1>2. ASSUME m <= n PROVE MaxCost * m <= MaxCost * n
  <2>1. PICK k \in Nat : n = m + k
    <3>1. n - m \in Nat
      BY <1>2
    <3> QED BY <3>1
  <2>2. PICK x \in Nat, y \in Nat : x = MaxCost * m /\ y = MaxCost * k
    BY AmountAssumption
  <2>3. MaxCost * n = MaxCost * m + MaxCost * k
    BY <2>1, AmountAssumption
  <2> QED BY <2>2, <2>3
<1>3. ASSUME m + 1 <= n PROVE MaxCost * m + MaxCost <= MaxCost * n
  <2>1. PICK k \in Nat : n = m + 1 + k
    <3>1. n - m - 1 \in Nat
      BY <1>3
    <3> QED BY <3>1
  <2>2. PICK x \in Nat, y \in Nat : x = MaxCost * m /\ y = MaxCost * k
    BY AmountAssumption
  <2>3. MaxCost * n = MaxCost * m + MaxCost + MaxCost * k
    BY <2>1, AmountAssumption
  <2> QED BY <2>2, <2>3, AmountAssumption
<1> QED BY <1>1, <1>2, <1>3

\* The allowance of a cap is a number.
LEMMA AllowanceIsNatural ==
    ASSUME CapsInv, NEW u \in Users
    PROVE  /\ StateOf(u).baseline \in Nat /\ StateOf(u).amount \in Nat
           /\ Allowance(u) \in Nat
<1>1. cap[u] \in CapRow \/ cap[u] = NoCap
  BY StateFacts
<1>2. StateOf(u).baseline \in Nat /\ StateOf(u).amount \in Nat
  BY <1>1, AmountAssumption DEF StateOf, CapRow
<1>3. PICK n \in Nat : n = StateOf(u).baseline + StateOf(u).amount
  BY <1>2
<1>4. Unit * n \in Nat
  BY AmountAssumption
<1> QED BY <1>2, <1>3, <1>4 DEF Allowance

\* A user whose cap is enabled and not reached has spent no more than its allowance:
\* rounding takes away less than a unit.
LEMMA UnlockedIsWithin ==
    ASSUME CapsInv, NEW u \in Users, StateOf(u).enabled, ~Locked(u)
    PROVE  ledger[u] <= Allowance(u)
<1>1. /\ StateOf(u).baseline \in Nat /\ StateOf(u).amount \in Nat
      /\ ledger[u] \in Nat /\ Usage(u) \in Nat
  BY AllowanceIsNatural, StateFacts
<1>2. Usage(u) + 1 <= StateOf(u).baseline + StateOf(u).amount
  BY <1>1 DEF Locked, Effective
<1> DEFINE p == ledger[u] \div Unit
           c == ledger[u] % Unit
           n == StateOf(u).baseline + StateOf(u).amount
<1>3. p \in Nat /\ c \in Nat /\ c < Unit /\ Unit \in Nat /\ ledger[u] = Unit * p + c
  BY <1>1, AmountAssumption
<1>4. p <= Usage(u)
  BY <1>1, <1>3 DEF Usage, Rounded
<1>5. n \in Nat /\ p + 1 <= n /\ Allowance(u) = Unit * n
  BY <1>1, <1>2, <1>3, <1>4 DEF Allowance
<1> HIDE DEF p, c, n
<1>6. PICK k \in Nat : n = p + 1 + k
  <2>1. n - p - 1 \in Nat
    BY <1>3, <1>5
  <2> QED BY <1>3, <1>5, <2>1
<1>7. PICK x \in Nat, y \in Nat : x = Unit * p /\ y = Unit * k
  BY <1>3
<1>8. Unit * n = Unit * p + Unit + Unit * k
  BY <1>3, <1>6
<1> QED BY <1>3, <1>5, <1>7, <1>8

\* A request leaves other requests alone.
LEMMA OthersAtWork ==
    ASSUME CapsInv, NEW r \in Requests, NEW q \in ChatRequest, request' = [request EXCEPT ![r] = q],
           NEW u \in Users, request[r] # NoRequest => request[r].user # u,
           q # NoRequest => q.user # u
    PROVE  Owed(u)' = Owed(u)
<1>1. request \in [Requests -> ChatRequest]
  BY DEF CapsInv, CapsTypeOK
<1>2. AtWork(u)' = AtWork(u)
  BY <1>1 DEF AtWork
<1>3. Uncompacted(u)' = Uncompacted(u)
  BY <1>1, <1>2 DEF Uncompacted, AtWork
<1> QED BY <1>2, <1>3 DEF Owed

\* A compaction or an answer is one call less that is owed, and so is a request
\* given up.
LEMMA OwedFalls ==
    ASSUME CapsInv, NEW r \in Requests, request[r] # NoRequest,
           NEW u \in Users, u = request[r].user,
           \/ request[r].at = "validated" /\ request' = [request EXCEPT ![r].at = "compacted"]
           \/ request' = [request EXCEPT ![r] = NoRequest]
    PROVE  Owed(u)' + 1 <= Owed(u)
<1>1. /\ request \in [Requests -> ChatRequest] /\ u \in Users
      /\ request[r] \in [at : {"validated", "compacted"}, user : Users]
  BY DEF CapsInv, CapsTypeOK, ChatRequest
<1>2. r \in AtWork(u)
  BY <1>1 DEF AtWork
<1>3. CASE request[r].at = "validated" /\ request' = [request EXCEPT ![r].at = "compacted"]
  <2>1. /\ request'[r].at = "compacted" /\ request'[r].user = u /\ request'[r] # NoRequest
        /\ \A q \in Requests \ {r} : request'[q] = request[q]
    BY <1>1, <1>3 DEF NoRequest
  <2>2. AtWork(u)' = AtWork(u)
    BY <1>1, <1>2, <2>1 DEF AtWork
  <2>3. Uncompacted(u)' = Uncompacted(u) \ {r} /\ r \in Uncompacted(u)
    BY <1>1, <1>2, <1>3, <2>1, <2>2 DEF Uncompacted, AtWork
  <2>4. Cardinality(Uncompacted(u)') = Cardinality(Uncompacted(u)) - 1
    <3>1. IsFiniteSet(Uncompacted(u))
      BY <1>1, OwedIsBounded
    <3>2. Cardinality(Uncompacted(u) \ {r}) = Cardinality(Uncompacted(u)) - 1
      BY <2>3, <3>1, FS_RemoveElement
    <3> QED BY <2>3, <3>2
  <2> QED BY <1>1, <2>2, <2>4, OwedIsBounded DEF Owed
<1>4. CASE request' = [request EXCEPT ![r] = NoRequest]
  <2>1. request'[r] = NoRequest /\ \A q \in Requests \ {r} : request'[q] = request[q]
    BY <1>1, <1>4
  <2>2. AtWork(u)' = AtWork(u) \ {r}
    BY <2>1 DEF AtWork
  <2>3. Uncompacted(u)' = Uncompacted(u) \ {r}
    BY <2>1, <2>2 DEF Uncompacted, AtWork
  <2>4. /\ Cardinality(AtWork(u)') = Cardinality(AtWork(u)) - 1
        /\ Cardinality(Uncompacted(u)') <= Cardinality(Uncompacted(u))
    <3>1. Cardinality(AtWork(u)') = Cardinality(AtWork(u)) - 1
      <4>1. IsFiniteSet(AtWork(u))
        BY <1>1, OwedIsBounded
      <4>2. Cardinality(AtWork(u) \ {r}) = Cardinality(AtWork(u)) - 1
        BY <1>2, <4>1, FS_RemoveElement
      <4> QED BY <2>2, <4>2
    <3>2. Cardinality(Uncompacted(u)') <= Cardinality(Uncompacted(u))
      <4>1. Uncompacted(u)' \in SUBSET Uncompacted(u)
        BY <2>3
      <4> QED BY <4>1, OwedIsBounded, FS_Subset
    <3> QED BY <3>1, <3>2
  <2>5. Cardinality(Uncompacted(u)') \in Nat
    BY <1>1, <2>3, OwedIsBounded, FS_RemoveElement, FS_CardinalityType
  <2> QED BY <1>1, <2>4, <2>5, OwedIsBounded DEF Owed
<1> QED BY <1>3, <1>4

GrantCovers(u) == ledger[u] + MaxCost * Owed(u) <= granted[u] + 2 * MaxCost * Cardinality(Requests)

\* Whoever owes what, a user whose spending is within the grant is covered.
LEMMA WithinIsCovered ==
    ASSUME NEW u \in Users, NEW spent \in Nat, NEW grant \in Nat, NEW owed \in Nat, spent <= grant,
           owed <= 2 * Cardinality(Requests)
    PROVE  spent + MaxCost * owed <= grant + 2 * MaxCost * Cardinality(Requests)
<1>1. PICK n \in Nat : n = Cardinality(Requests)
  BY OwedIsBounded
<1>2. 2 * n \in Nat /\ MaxCost * (2 * n) = 2 * MaxCost * n
  BY AmountAssumption
<1>3. MaxCost * owed <= MaxCost * (2 * n) /\ MaxCost * owed \in Nat /\ MaxCost * (2 * n) \in Nat
  BY <1>1, <1>2, CostGrows
<1> QED BY <1>1, <1>2, <1>3

LEMMA ValidatesWithin ==
    ASSUME NEW r \in Requests, NEW v \in Users, CapsInv, CapsInv', WithinGrant, Validates(r, v),
           NEW u \in Users, granted[u] # NoCap
    PROVE  GrantCovers(u)'
<1>1. /\ granted[u] \in Nat /\ ledger[u] \in Nat
      /\ StateOf(u).enabled /\ Allowance(u) <= granted[u] /\ GrantCovers(u)
  BY StateFacts DEF CapsInv, CapsTypeOK, WithinGrant, GrantCovers
<1>2. UNCHANGED <<ledger, granted>>
  BY DEF Validates
<1>3. CASE u = v
  <2>1. ledger[u] <= granted[u]
    BY <1>1, <1>3, UnlockedIsWithin, AllowanceIsNatural DEF Validates
  <2>2. Owed(u)' \in Nat /\ Owed(u)' <= 2 * Cardinality(Requests)
    <3>1. (Owed(u) \in Nat /\ Owed(u) <= 2 * Cardinality(Requests))'
      BY OwedIsBounded, PTL
    <3> QED BY <3>1
  <2> QED BY <1>1, <1>2, <2>1, <2>2, WithinIsCovered DEF GrantCovers
<1>4. CASE u # v
  <2>1. [at |-> "validated", user |-> v] \in ChatRequest
    BY DEF ChatRequest
  <2>2. Owed(u)' = Owed(u)
    BY <1>4, <2>1, OthersAtWork DEF Validates
  <2> QED BY <1>1, <1>2, <2>2 DEF GrantCovers
<1> QED BY <1>3, <1>4

\* A step that pays for what is owed, or gives it up, and what it leaves to others.
LEMMA PaysWithin ==
    ASSUME NEW r \in Requests, CapsInv, WithinGrant, Compacts(r) \/ Answers(r) \/ Fails(r),
           NEW u \in Users, granted[u] # NoCap
    PROVE  GrantCovers(u)'
<1>1. /\ granted[u] \in Nat /\ ledger[u] \in Nat /\ GrantCovers(u) /\ request[r] \in ChatRequest
      /\ ledger \in [Users -> 0..MaxLedger] /\ request \in [Requests -> ChatRequest]
  BY StateFacts DEF CapsInv, CapsTypeOK, WithinGrant, GrantCovers
<1>2. request[r] # NoRequest /\ granted' = granted
  BY DEF Compacts, Answers, Fails, NoRequest
<1>3. request[r] \in [at : {"validated", "compacted"}, user : Users]
  BY <1>1, <1>2 DEF ChatRequest
<1> DEFINE q == IF Compacts(r) THEN [request[r] EXCEPT !.at = "compacted"] ELSE NoRequest
<1>4. q \in ChatRequest /\ (q # NoRequest => q.user = request[r].user)
  BY <1>3 DEF ChatRequest
<1>5. request' = [request EXCEPT ![r] = q]
  BY <1>1 DEF Compacts, Answers, Fails
<1>6. PICK cost \in 0..MaxCost :
          ledger' = [ledger EXCEPT ![request[r].user] = @ + cost] \/ (cost = 0 /\ ledger' = ledger)
  BY AmountAssumption DEF Compacts, Answers, Fails, Pays
<1> HIDE DEF q
<1>7. CASE u = request[r].user
  <2>1. ledger'[u] <= ledger[u] + MaxCost /\ ledger'[u] \in Nat
    BY <1>1, <1>6, <1>7, AmountAssumption
  <2>2. Owed(u)' + 1 <= Owed(u) /\ Owed(u) \in Nat
    BY <1>2, <1>7, OwedFalls, OwedIsBounded DEF Compacts, Answers, Fails
  <2>3. Owed(u)' \in Nat
    <3>1. (Owed(u) \in Nat)'
      BY OwedIsBounded, PTL
    <3> QED BY <3>1
  <2>4. /\ MaxCost * Owed(u)' + MaxCost <= MaxCost * Owed(u)
        /\ MaxCost * Owed(u)' \in Nat /\ MaxCost * Owed(u) \in Nat
    BY <2>2, <2>3, CostGrows
  <2>5. PICK n \in Nat : n = Cardinality(Requests)
    BY OwedIsBounded
  <2>6. 2 * MaxCost * n \in Nat
    BY AmountAssumption
  <2> QED BY <1>1, <1>2, <2>1, <2>4, <2>5, <2>6, AmountAssumption DEF GrantCovers
<1>8. CASE u # request[r].user
  <2>1. ledger'[u] = ledger[u]
    BY <1>1, <1>3, <1>6, <1>8
  <2>2. Owed(u)' = Owed(u)
    BY <1>2, <1>4, <1>5, <1>8, OthersAtWork
  <2> QED BY <1>1, <1>2, <2>1, <2>2 DEF GrantCovers
<1> QED BY <1>7, <1>8

\* A command spends nothing, and what it grants is on record before anybody spends it.
LEMMA CommandWithin ==
    ASSUME NEW o \in Operators, CapsInv, CapsInv', WithinGrant, CommandStep(o)
    PROVE  WithinGrant'
<1>1. UNCHANGED <<ledger, request>>
  BY DEF CommandStep, Gives, ReadsUsage, ReadsRow, CommitsCommand, RollsBack
<1>2. ASSUME NEW u \in Users PROVE Owed(u)' = Owed(u)
  BY <1>1 DEF Owed, AtWork, Uncompacted
<1>3. CASE CommitsCommand(o)
  <2> SUFFICES ASSUME NEW u \in Users, granted'[u] # NoCap
               PROVE  StateOf(u)'.enabled /\ Allowance(u)' <= granted'[u] /\ GrantCovers(u)'
    BY DEF WithinGrant, GrantCovers
  <2>1. /\ granted[u] # NoCap /\ StateOf(u)'.enabled
        /\ granted'[u] = IF granted[u] < Allowance(u)' THEN Allowance(u)' ELSE granted[u]
    BY <1>3 DEF CommitsCommand
  <2>2. granted[u] \in Nat /\ GrantCovers(u) /\ ledger[u] \in Nat
    BY <2>1, StateFacts DEF CapsInv, CapsTypeOK, WithinGrant, GrantCovers
  <2>3. (Allowance(u) \in Nat)'
    BY AllowanceIsNatural, PTL
  <2>4. PICK n \in Nat, m \in Nat : n = 2 * MaxCost * Cardinality(Requests) /\ m = MaxCost * Owed(u)
    <3>1. PICK k \in Nat : k = Cardinality(Requests)
      BY OwedIsBounded
    <3>2. 2 * MaxCost * k \in Nat /\ MaxCost * Owed(u) \in Nat
      BY OwedIsBounded, AmountAssumption
    <3> QED BY <3>1, <3>2
  <2> QED BY <1>1, <1>2, <2>1, <2>2, <2>3, <2>4 DEF GrantCovers
<1>4. CASE ~CommitsCommand(o)
  <2>1. UNCHANGED <<granted, cap>>
    BY <1>4 DEF CommandStep, Gives, ReadsUsage, ReadsRow, RollsBack
  <2>2. \A u \in Users : StateOf(u)' = StateOf(u) /\ Allowance(u)' = Allowance(u)
    BY <2>1 DEF StateOf, Allowance
  <2> QED BY <1>1, <1>2, <2>1, <2>2 DEF WithinGrant
<1> QED BY <1>3, <1>4

LEMMA GrantInit == CapsInit => WithinGrant
<1> SUFFICES ASSUME CapsInit, NEW u \in Users
             PROVE  StateOf(u).enabled /\ Allowance(u) <= granted[u] /\ GrantCovers(u)
  BY DEF WithinGrant, GrantCovers
<1>1. StateOf(u) = [amount |-> DefaultCap, baseline |-> 0, enabled |-> TRUE]
  BY DEF CapsInit, StateOf
<1>2. granted[u] = Unit * DefaultCap /\ ledger[u] = 0 /\ Unit * DefaultCap \in Nat
  BY AmountAssumption DEF CapsInit
<1>3. 0 + DefaultCap = DefaultCap
  BY AmountAssumption
<1>4. GrantCovers(u)
  BY <1>2, OwedIsBounded, WithinIsCovered DEF GrantCovers
<1> QED BY <1>1, <1>2, <1>3, <1>4 DEF Allowance

LEMMA GrantStep == CapsInv /\ CapsInv' /\ WithinGrant /\ [CapsNext]_capVars => WithinGrant'
<1> SUFFICES ASSUME CapsInv, CapsInv', WithinGrant, [CapsNext]_capVars PROVE WithinGrant'
  OBVIOUS
<1>1. CASE UNCHANGED capVars
  BY <1>1 DEF capVars, WithinGrant, StateOf, Allowance, Owed, AtWork, Uncompacted
<1>2. CASE \E r \in Requests : RequestStep(r)
  <2>1. PICK r \in Requests : RequestStep(r)
    BY <1>2
  <2> SUFFICES ASSUME NEW u \in Users, granted'[u] # NoCap
               PROVE  StateOf(u)'.enabled /\ Allowance(u)' <= granted'[u] /\ GrantCovers(u)'
    BY DEF WithinGrant, GrantCovers
  <2>2. UNCHANGED <<granted, cap>>
    BY <2>1 DEF RequestStep, Validates, Compacts, Answers, Fails
  <2>3. StateOf(u)' = StateOf(u) /\ Allowance(u)' = Allowance(u)
    BY <2>2 DEF StateOf, Allowance
  <2>4. GrantCovers(u)'
    BY <2>1, <2>2, ValidatesWithin, PaysWithin DEF RequestStep
  <2> QED BY <2>2, <2>3, <2>4 DEF WithinGrant
<1>3. CASE \E o \in Operators : CommandStep(o)
  BY <1>3, CommandWithin
<1> QED BY <1>1, <1>2, <1>3 DEF CapsNext

\* The overshoot docs/USAGE_CAPS.md admits is bounded, for any number of users, requests
\* and commands at work and any amounts: the check and the payments are not one step
\* (usage_caps.py:27-49), yet what is spent past the highest cap a user ever had is at
\* most an answer and a compaction of each request at work.
THEOREM OvershootStaysBounded == CapsSpec => []OvershootIsBounded
<1>1. CapsInv /\ WithinGrant => OvershootIsBounded
  <2> SUFFICES ASSUME CapsInv, WithinGrant, NEW u \in Users, granted[u] # NoCap
               PROVE  ledger[u] <= granted[u] + 2 * MaxCost * Cardinality(Requests)
    BY DEF OvershootIsBounded
  <2>1. granted[u] \in Nat /\ ledger[u] \in Nat /\ GrantCovers(u)
    BY StateFacts DEF CapsInv, CapsTypeOK, WithinGrant, GrantCovers
  <2>2. Owed(u) \in Nat /\ MaxCost * Owed(u) \in Nat
    BY OwedIsBounded, CostGrows
  <2>3. PICK n \in Nat : n = 2 * MaxCost * Cardinality(Requests)
    <3>1. PICK k \in Nat : k = Cardinality(Requests)
      BY OwedIsBounded
    <3> QED BY <3>1, AmountAssumption
  <2> QED BY <2>1, <2>2, <2>3 DEF GrantCovers
<1> QED BY <1>1, GrantInit, GrantStep, CapsInductive, PTL DEF CapsSpec

================================================================================
