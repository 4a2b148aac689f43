--------------------------- MODULE ProviderHeartbeat ---------------------------
(***************************************************************************)
(* The clocks of one streaming turn: the idle timeout that                 *)
(* completions/provider_execution.py applies to the next chunk in memory,  *)
(* and the deadline that operations.py keeps in the operation row for the  *)
(* fence and for whoever may reclaim the lease.  The row is written only   *)
(* when a heartbeat is due, so the two clocks differ.                      *)
(*                                                                         *)
(* Time is a number of ticks; the settings are whole seconds of            *)
(* TicksPerSecond ticks.  The turn starts at 0, when transition_operation  *)
(* commits; the task reaches the provider without an await.  A chunk, a    *)
(* timer and the clean-up may all come late: a tick waits for nobody.      *)
(***************************************************************************)
EXTENDS Integers

CONSTANTS
    IdleSeconds,          \* chat_provider_event_idle_timeout_seconds
    MaxRuntimeSeconds,    \* chat_provider_max_runtime_seconds
    TicksPerSecond,
    Horizon               \* bound on time, for TLC

ASSUME SettingsAssumption ==
    /\ IdleSeconds \in Nat \ {0}
    /\ MaxRuntimeSeconds \in Nat \ {0}
    /\ TicksPerSecond \in Nat \ {0}
    /\ Horizon \in Nat

VARIABLES
    now,
    task,        \* the task that reads the provider stream
    heard,       \* when the last chunk came, or the wait for the first began
    first,       \* first_provider_event_at is set
    persisted,   \* last_provider_event_at
    deadline,    \* deadline_at
    row          \* state column of the operation

vars == <<now, task, heard, first, persisted, deadline, row>>

-----------------------------------------------------------------------------

MaxIntervalSeconds == 30

\* provider_heartbeat_interval_seconds: a third of the idle timeout, rounded down,
\* between one second and MaxIntervalSeconds.
IntervalSeconds ==
    LET third == IdleSeconds \div 3
    IN  IF third = 0 THEN 1
        ELSE IF third < MaxIntervalSeconds THEN third ELSE MaxIntervalSeconds

Idle == IdleSeconds * TicksPerSecond
Interval == IntervalSeconds * TicksPerSecond

\* provider_max_deadline_at, and the deadline the task keeps in memory.
MaxRuntime == MaxRuntimeSeconds * TicksPerSecond

TypeOK ==
    /\ now \in Nat /\ heard \in Nat /\ persisted \in Nat /\ deadline \in Nat
    /\ task \in {"streaming", "over", "gone"}
    /\ first \in BOOLEAN
    /\ row \in {"provider_streaming", "succeeded", "failed", "timed_out"}

Init ==
    /\ now = 0 /\ heard = 0 /\ persisted = 0
    /\ deadline = Idle
    /\ first = FALSE
    /\ task = "streaming"
    /\ row = "provider_streaming"

\* The deadlines assert_operation_current and the clean-up compare with utc_now.
Expired == deadline <= now \/ MaxRuntime <= now

\* assert_operation_current.
Current == row = "provider_streaming" /\ ~Expired

\* Slip: the heartbeat is throttled by the idle timeout itself.
HeartbeatDueAtIdle == ~first \/ now - persisted >= Idle

HeartbeatDue == ~first \/ now - persisted >= Interval

NextDeadline == now + Idle

\* The outcome is recorded past the deadline, unless the lease is gone.
Ends(outcome) ==
    /\ task' = "over"
    /\ row' = IF row = "provider_streaming" THEN outcome ELSE row
    /\ UNCHANGED <<now, heard, first, persisted, deadline>>

-----------------------------------------------------------------------------

\* record_provider_event_heartbeat on a chunk that finds the lease current.
Chunk ==
    /\ task = "streaming"
    /\ Current
    /\ heard' = now
    /\ IF HeartbeatDue
         THEN first' = TRUE /\ persisted' = now /\ deadline' = NextDeadline
         ELSE UNCHANGED <<first, persisted, deadline>>
    /\ UNCHANGED <<now, task, row>>

\* A chunk, or the end of the stream, that does not: persist_provider_timeout.
Refused ==
    /\ task = "streaming"
    /\ ~Current
    /\ Ends("timed_out")

\* wait_for gives up: no chunk for the idle timeout, or the hard cap is reached.
TimesOut ==
    /\ task = "streaming"
    /\ now >= heard + Idle \/ now >= MaxRuntime
    /\ Ends("timed_out")

ProviderFails ==
    /\ task = "streaming"
    /\ Ends("failed")

ProviderEnds ==
    /\ task = "streaming"
    /\ Current
    /\ Ends("succeeded")

\* Slip: whoever reclaims looks at the last persisted event.
ReclaimSincePersisted ==
    /\ row = "provider_streaming"
    /\ now >= persisted + Interval
    /\ row' = "timed_out"
    /\ UNCHANGED <<now, task, heard, first, persisted, deadline>>

\* The next operation of the history, or housekeeping, takes an expired lease.
Reclaim ==
    /\ row = "provider_streaming"
    /\ Expired
    /\ row' = "timed_out"
    /\ UNCHANGED <<now, task, heard, first, persisted, deadline>>

Crash ==
    /\ task = "streaming"
    /\ task' = "gone"
    /\ UNCHANGED <<now, heard, first, persisted, deadline, row>>

Tick ==
    /\ now < Horizon
    /\ now' = now + 1
    /\ UNCHANGED <<task, heard, first, persisted, deadline, row>>

Next ==
    \/ Chunk
    \/ Refused
    \/ TimesOut
    \/ ProviderFails
    \/ ProviderEnds
    \/ Reclaim
    \/ Crash
    \/ Tick

Spec == Init /\ [][Next]_vars

-----------------------------------------------------------------------------
(* Properties *)

\* The stored deadline trails the last chunk by less than the heartbeat interval,
\* and never runs ahead of it: a turn that stops is reclaimable within the idle
\* timeout, and one that is heard is not reclaimable early
\* (operations.py:247-269, 389-393).
DeadlineFollowsChunks ==
    /\ deadline <= heard + Idle
    /\ deadline > heard + Idle - Interval

\* A turn is only taken for timed out, by its own task or by anybody else, after a
\* silence longer than the idle timeout less the heartbeat interval, or at the
\* hard cap (provider_execution.py:62-241, operations.py:247-269,
\* chat_execution_cleanup.py:96-110).
HeardTurnKeepsLease ==
    [][row # "timed_out" /\ row' = "timed_out" =>
           now - heard > Idle - Interval \/ now >= MaxRuntime]_vars

=============================================================================
