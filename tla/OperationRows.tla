---------------------------- MODULE OperationRows ----------------------------
(***************************************************************************)
(* The rows of the chat lease: chat_operations and the owner columns of    *)
(* chat_histories (backend/app/db/postgres/models/chat_history.py), and    *)
(* what each transaction of backend/app/services/chat/operations.py does   *)
(* to them.  This module has no processes: it defines the row predicates   *)
(* and the row updates the modules that extend it schedule.                *)
(*                                                                         *)
(* Abstractions.  An operation id stands for the pair (id, owner_token):   *)
(* the token is drawn once with the id and the pair is always written and  *)
(* cleared together.  Time is qualitative: due[o] holds the names of the   *)
(* deadlines of o that are at or before utc_now(), so a deadline may pass  *)
(* between any two steps, and a heartbeat that moves a deadline removes    *)
(* its name.  All histories belong to one user.                            *)
(***************************************************************************)
EXTENDS FiniteSets

CONSTANTS
    History,    \* ids of chat_histories rows
    Op,         \* ids of chat_operations rows
    NoOp,       \* NULL of chat_histories.active_operation_id
    NoHistory   \* NULL of chat_operations.chat_history_id

ASSUME NullsAreNotIds == NoOp \notin Op /\ NoHistory \notin History

VARIABLES
    state,   \* [Op -> state column, or "absent" while there is no row]
    kind,    \* [Op -> operation_type column]
    scope,   \* [Op -> chat_history_id column]
    due,     \* [Op -> deadlines of the row that have passed]
    owner,   \* [History -> active_operation_id column]
    life,    \* [History -> lifecycle_state column, or no row yet / no more]
    filled   \* [History -> the history has a message or a file]

rows == <<state, kind, scope, due, owner, life, filled>>

-----------------------------------------------------------------------------

LiveStates == {"running", "provider_streaming"}
TerminalStates == {"succeeded", "failed", "timed_out"}
OperationTypes == {"send", "attach_file", "delete_file", "toggle_file",
                   "delete_history", "update_metadata"}

\* The two columns that hold a deadline: deadline_at, provider_max_deadline_at.
Deadlines == {"deadline", "max_runtime"}

HasRow(h) == life[h] \in {"active", "deleting"}

\* The columns, with the CHECK and foreign key constraints of chat_operations.
RowsTypeOK ==
    /\ state \in [Op -> LiveStates \cup TerminalStates \cup {"absent"}]
    /\ kind \in [Op -> OperationTypes \cup {"none"}]
    /\ scope \in [Op -> History \cup {NoHistory}]
    /\ due \in [Op -> SUBSET Deadlines]
    /\ owner \in [History -> Op \cup {NoOp}]
    /\ life \in [History -> {"unborn", "active", "deleting", "deleted"}]
    /\ filled \in [History -> BOOLEAN]
    /\ \A o \in Op : state[o] # "absent" =>
           scope[o] \in History /\ HasRow(scope[o]) /\ kind[o] \in OperationTypes

\* Some histories exist when the process starts, empty or not; none is owned.
RowsInit ==
    /\ state = [o \in Op |-> "absent"]
    /\ kind = [o \in Op |-> "none"]
    /\ scope = [o \in Op |-> NoHistory]
    /\ due = [o \in Op |-> {}]
    /\ owner = [h \in History |-> NoOp]
    /\ life \in [History -> {"unborn", "active"}]
    /\ filled \in {f \in [History -> BOOLEAN] :
                       \A h \in History : f[h] => life[h] = "active"}

-----------------------------------------------------------------------------
(* Row predicates *)

Live(o) == state[o] \in LiveStates
Expired(o) == due[o] # {}
\* Slip: the message and file counts are not taken.
EmptyUncounted(h) == TRUE

IsEmpty(h) == ~filled[h]

\* Slip: the fence compares the token of the row and nothing else.
CurrentByToken(o, allowExpired) == state[o] # "absent"

\* The fence: the row is live, not expired unless that is allowed, and the
\* history still names the operation as its owner.
Current(o, allowExpired) ==
    /\ Live(o)
    /\ allowExpired \/ ~Expired(o)
    /\ scope[o] \in History
    /\ owner[scope[o]] = o

\* Slip: the recovery does not look at the deadlines.
RecoverableAtOnce(h) == owner[h] # NoOp

\* The owner an operation start may clear: no row, ended, or past a deadline.
Recoverable(h) ==
    /\ owner[h] # NoOp
    /\ ~Live(owner[h]) \/ Expired(owner[h])

\* Slip: the partial unique index is missing.
NoLiveIndex(h, S) == TRUE

\* The partial unique index uq_chat_operations_live_history.
NoLiveExcept(h, S) ==
    \A p \in Op \ S : Live(p) => scope[p] # h

-----------------------------------------------------------------------------
(* Row updates, one per transaction *)

\* Slip: the recovery clears the owner columns and leaves the operation live.
RecoveredOwnerOnly(h) == state

\* State of the rows after the recovery of an expired owner: the owner that was
\* live is timed out.
Recovered(h) ==
    [p \in Op |-> IF p = owner[h] /\ Live(p) THEN "timed_out" ELSE state[p]]

\* A delete marks the history; recovering an owner unmarks it.
LifeAfterBegin(h, k) ==
    CASE k = "delete_history" -> "deleting"
      [] k # "delete_history" /\ owner[h] # NoOp /\ state[owner[h]] # "absent" -> "active"
      [] OTHER -> life[h]

\* begin_history_operation, with the history row locked FOR UPDATE throughout.
\* A conflict raises and changes nothing, so it is a step that is not taken.
BeginRows(o, h, k) ==
    /\ HasRow(h)
    /\ owner[h] = NoOp \/ Recoverable(h)
    /\ NoLiveExcept(h, {owner[h]})
    /\ state' = [Recovered(h) EXCEPT ![o] = "running"]
    /\ kind' = [kind EXCEPT ![o] = k]
    /\ scope' = [scope EXCEPT ![o] = h]
    /\ due' = [due EXCEPT ![o] = {}]
    /\ owner' = [owner EXCEPT ![h] = o]
    /\ life' = [life EXCEPT ![h] = LifeAfterBegin(h, k)]
    /\ UNCHANGED filled

\* begin_new_history_send_operation: history and owner appear together.
CreateRows(o, h) ==
    /\ life[h] = "unborn"
    /\ state' = [state EXCEPT ![o] = "running"]
    /\ kind' = [kind EXCEPT ![o] = "send"]
    /\ scope' = [scope EXCEPT ![o] = h]
    /\ due' = [due EXCEPT ![o] = {}]
    /\ owner' = [owner EXCEPT ![h] = o]
    /\ life' = [life EXCEPT ![h] = "active"]
    /\ UNCHANGED filled

\* transition_operation to provider_streaming: both deadlines are set anew.  The
\* unique index rejects a row that would be the second live one of its history.
TransitionRows(o) ==
    /\ NoLiveExcept(scope[o], {o})
    /\ state' = [state EXCEPT ![o] = "provider_streaming"]
    /\ due' = [due EXCEPT ![o] = {}]
    /\ UNCHANGED <<kind, scope, owner, life, filled>>

\* A persisted heartbeat moves deadline_at only; the state column is not dirty.
HeartbeatRows(o) ==
    /\ due' = [due EXCEPT ![o] = @ \ {"deadline"}]
    /\ UNCHANGED <<state, kind, scope, owner, life, filled>>

\* Slip: the owner columns stay set (clear_scope left off).
CompleteRowsKeepScope(o, outcome, reopen) ==
    /\ state' = [state EXCEPT ![o] = outcome]
    /\ UNCHANGED <<kind, scope, due, owner, life, filled>>

\* complete_operation: a terminal state, and the owner columns of the scope
\* cleared.  reopen: the lifecycle read with the fence was "deleting".
CompleteRows(o, outcome, reopen) ==
    /\ state' = [state EXCEPT ![o] = outcome]
    /\ owner' = [owner EXCEPT ![scope[o]] = NoOp]
    /\ life' = [life EXCEPT ![scope[o]] = IF reopen THEN "active" ELSE @]
    /\ UNCHANGED <<kind, scope, due, filled>>

\* Deleting history rows cascades to their operation rows.
RemoveRows(H) ==
    /\ life' = [h \in History |-> IF h \in H THEN "deleted" ELSE life[h]]
    /\ owner' = [h \in History |-> IF h \in H THEN NoOp ELSE owner[h]]
    /\ filled' = [h \in History |-> filled[h] /\ h \notin H]
    /\ state' = [p \in Op |-> IF scope[p] \in H THEN "absent" ELSE state[p]]
    /\ UNCHANGED <<kind, scope, due>>

\* Housekeeping closes a batch of expired operations at once, and clears the
\* owner columns it read as naming one of them.
CloseRows(stale, cleared, reopened) ==
    /\ state' = [p \in Op |-> IF p \in stale THEN "timed_out" ELSE state[p]]
    /\ owner' = [h \in History |-> IF h \in cleared THEN NoOp ELSE owner[h]]
    /\ life' = [h \in History |-> IF h \in reopened THEN "active" ELSE life[h]]
    /\ UNCHANGED <<kind, scope, due, filled>>

-----------------------------------------------------------------------------
(* Time *)

\* deadline_at of a live row is reached.
DeadlinePasses(o) ==
    /\ Live(o)
    /\ "deadline" \notin due[o]
    /\ due' = [due EXCEPT ![o] = @ \cup {"deadline"}]
    /\ UNCHANGED <<state, kind, scope, owner, life, filled>>

\* provider_max_deadline_at is reached; it is NULL until the transition.
MaxRuntimePasses(o) ==
    /\ state[o] = "provider_streaming"
    /\ "max_runtime" \notin due[o]
    /\ due' = [due EXCEPT ![o] = @ \cup {"max_runtime"}]
    /\ UNCHANGED <<state, kind, scope, owner, life, filled>>
=============================================================================
