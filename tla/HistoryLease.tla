---------------------------- MODULE HistoryLease ----------------------------
(***************************************************************************)
(* What the operation rows promise to the rest of the backend: a history is *)
(* leased to one operation at a time, an operation is leased one history   *)
(* once, it leaves the lease with one outcome, and that outcome stands.    *)
(***************************************************************************)
EXTENDS FiniteSets

CONSTANTS History, Op, NoOp

VARIABLES
    holder,   \* [History -> the operation that holds it, or NoOp]
    place,    \* [Op -> the history it was leased]
    outcome   \* [Op -> "unused", "held", how it ended, or "gone"]

leaseVars == <<holder, place, outcome>>

Held == {h \in History : holder[h] # NoOp}

LeaseInit ==
    /\ holder = [h \in History |-> NoOp]
    /\ outcome = [o \in Op |-> "unused"]

\* A fresh operation takes a free history, or one whose holder is timed out by
\* the same step.
Acquire(o, h) ==
    /\ outcome[o] = "unused"
    /\ outcome' = [p \in Op |-> CASE p = o -> "held"
                                  [] p # o /\ p = holder[h] -> "timed_out"
                                  [] OTHER -> outcome[p]]
    /\ holder' = [holder EXCEPT ![h] = o]
    /\ place' = [place EXCEPT ![o] = h]

\* The holder leaves with its outcome.
Release(h, result) ==
    /\ h \in Held
    /\ outcome' = [outcome EXCEPT ![holder[h]] = result]
    /\ holder' = [holder EXCEPT ![h] = NoOp]
    /\ UNCHANGED place

\* Several holders are timed out together.
TimeOut(H) ==
    /\ outcome' = [p \in Op |-> IF \E h \in H : p = holder[h] THEN "timed_out" ELSE outcome[p]]
    /\ holder' = [h \in History |-> IF h \in H THEN NoOp ELSE holder[h]]
    /\ UNCHANGED place

\* Histories are deleted, and the records of their operations with them.
Remove(H) ==
    /\ outcome' = [p \in Op |-> IF outcome[p] # "unused" /\ place[p] \in H THEN "gone" ELSE outcome[p]]
    /\ holder' = [h \in History |-> IF h \in H THEN NoOp ELSE holder[h]]
    /\ UNCHANGED place

LeaseNext ==
    \/ \E h \in History :
          \/ \E o \in Op : Acquire(o, h)
          \/ \E result \in {"succeeded", "failed", "timed_out"} : Release(h, result)
    \/ \E H \in SUBSET Held : TimeOut(H)
    \/ \E H \in SUBSET History : Remove(H)

LeaseSpec == LeaseInit /\ [][LeaseNext]_leaseVars
=============================================================================
