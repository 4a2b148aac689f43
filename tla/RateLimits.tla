------------------------------ MODULE RateLimits ------------------------------
(***************************************************************************)
(* The request quotas of one user, db/redis/chat_coordination.py: a        *)
(* counter per calendar minute and one per calendar hour, both incremented *)
(* and given a new expiry by one MULTI of every chat request that passed   *)
(* the usage cap.                                                          *)
(*                                                                         *)
(* The key of a counter names its minute or hour, so a counter of an       *)
(* earlier one is never read again and only the latest is kept here.  The  *)
(* expiry is in whole seconds and the clock is finer than that: the        *)
(* lengths of a minute and of an hour, and what a second is, are           *)
(* constants.                                                              *)
(***************************************************************************)
EXTENDS Integers

CONSTANTS
    Second,       \* ticks of the clock in a second
    Minute,       \* ticks in a minute
    Hour,         \* ticks in an hour
    MinuteLimit,  \* CHAT_RATE_LIMIT_PER_MINUTE
    HourLimit,    \* CHAT_RATE_LIMIT_PER_HOUR
    MaxTime,      \* bound of the clock
    MaxCount      \* bound of a counter

ASSUME ClockAssumption ==
    /\ Second \in Nat \ {0}
    /\ Minute \in Nat \ {0} /\ Hour \in Nat \ {0}
    /\ Second <= Minute /\ Second <= Hour

ASSUME LimitAssumption ==
    MinuteLimit \in Nat \ {0} /\ HourLimit \in Nat \ {0}

ASSUME BoundAssumption == MaxTime \in Nat /\ MaxCount \in Nat

VARIABLES
    utcNow,     \* utc_now
    starts,     \* [window -> start of the calendar window of the latest key]
    count,      \* [window -> value of that key]
    until,      \* [window -> when that key expires]
    passed      \* [window -> requests let through in that calendar window]

rateVars == <<utcNow, starts, count, until, passed>>

Windows == {"minute", "hour"}

Length(w) == IF w = "minute" THEN Minute ELSE Hour
Limit(w) == IF w = "minute" THEN MinuteLimit ELSE HourLimit

RatesTypeOK ==
    /\ utcNow \in 0..MaxTime
    /\ starts \in [Windows -> 0..utcNow]
    /\ count \in [Windows -> 0..MaxCount]
    /\ until \in [Windows -> Nat]
    /\ passed \in [Windows -> Nat]

RatesInit ==
    /\ utcNow = 0
    /\ starts = [w \in Windows |-> 0]
    /\ count = [w \in Windows |-> 0]
    /\ until = [w \in Windows |-> 0]
    /\ passed = [w \in Windows |-> 0]

\* The calendar window of the latest key, and whether another has begun since.
End(w) == starts[w] + Length(w)

IsOver(w) == utcNow >= End(w)

\* Slip: the expiry is not kept above zero, and EXPIRE 0 deletes the key.
TtlUnclamped(w) == (End(w) - utcNow) \div Second

\* _seconds_until_next_minute, _seconds_until_next_hour.
Ttl(w) == LET whole == (End(w) - utcNow) \div Second
          IN  IF whole < 1 THEN 1 ELSE whole

\* INCR of a key that has expired starts again.
Incremented(w) == IF utcNow >= until[w] THEN 1 ELSE count[w] + 1

\* Slip: the counter a request must not exceed is that of the other requests.
IsWithinOthers == \A w \in Windows : Incremented(w) - 1 <= Limit(w)

IsWithin == \A w \in Windows : Incremented(w) <= Limit(w)

\* enforce_chat_rate_limits: a refused request is counted like any other, and
\* one that the minute refuses counts for the hour as well.  The windows have to
\* be current for their keys to be.
CountsRequest ==
    /\ \A w \in Windows : ~IsOver(w) /\ Incremented(w) <= MaxCount
    /\ count' = [w \in Windows |-> Incremented(w)]
    /\ until' = [w \in Windows |-> utcNow + Second * Ttl(w)]
    /\ passed' = [w \in Windows |-> IF IsWithin THEN passed[w] + 1 ELSE passed[w]]
    /\ UNCHANGED <<utcNow, starts>>

\* The name of the key changes with the calendar.
Turns(w) ==
    /\ IsOver(w)
    /\ starts' = [starts EXCEPT ![w] = @ + Length(w)]
    /\ count' = [count EXCEPT ![w] = 0]
    /\ until' = [until EXCEPT ![w] = 0]
    /\ passed' = [passed EXCEPT ![w] = 0]
    /\ UNCHANGED utcNow

ClockTicks ==
    /\ utcNow < MaxTime
    /\ \A w \in Windows : ~IsOver(w)
    /\ utcNow' = utcNow + 1
    /\ UNCHANGED <<starts, count, until, passed>>

RatesNext == CountsRequest \/ (\E w \in Windows : Turns(w)) \/ ClockTicks

RatesSpec == RatesInit /\ [][RatesNext]_rateVars

-----------------------------------------------------------------------------
(* Properties *)

\* However the requests of a calendar minute or hour are spaced, and although
\* every one of them moves the expiry of both counters, at most twice the limit
\* gets through (chat_coordination.py:44-96).
AtMostTwice == \A w \in Windows : passed[w] <= 2 * Limit(w)

\* The counter of a window does not lapse before its last second: a user who has
\* used up the window stays refused until then (chat_coordination.py:89-96).
CountsUntilLastSecond ==
    \A w \in Windows : passed[w] > Limit(w) => End(w) - utcNow < Second

=============================================================================
