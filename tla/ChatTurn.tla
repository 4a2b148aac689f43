------------------------------- MODULE ChatTurn -------------------------------
(***************************************************************************)
(* One chat turn from POST /chat/completions to its last SSE event: the    *)
(* pipeline task of services/chat/completions/orchestrator.py and          *)
(* provider_execution.py, the message rows of turn_persistence.py, the     *)
(* provider context of context/pipeline.py and the housekeeping of         *)
(* workers/chat_execution_cleanup.py, over the lease of OperationRows.     *)
(*                                                                         *)
(* A transaction is one step here; ChatOperations opens them up.  The two  *)
(* places where the loop does two transactions without an await between    *)
(* them, or asserts the lease twice, keep their two steps: the start of a  *)
(* turn and its success.  Only a request in the thread pool or a crash can *)
(* come between those.                                                     *)
(*                                                                         *)
(* Abstractions: a send stands for its user message and its assistant row; *)
(* a provider context is the set of the earlier messages in it; blocks,    *)
(* usage, attachments and compaction are left out, and so are failures of  *)
(* the database; a request refused by validation counts as a stream that   *)
(* ends with an error; every history exists, and is not deleted            *)
(* (ChatOperations has both).                                              *)
(***************************************************************************)
EXTENDS OperationRows

CONSTANTS
    Sends,     \* operations that are chat sends
    Renames    \* operations of the thread pool: title, pin, unpin

ASSUME RequestsPartition == Sends \cup Renames = Op /\ Sends \cap Renames = {}

VARIABLES
    pc,         \* [Op -> where the task of the request stands]
    context,    \* [Sends -> the stored messages its provider request is built from]
    answered,   \* [Sends -> the final answer was seen complete, with text]
    msg,        \* [Sends -> status of the assistant row]
    excluded,   \* [Sends -> excluded_from_context of both rows of the turn]
    late,       \* [Sends -> deadline_at of the assistant row has passed]
    sink        \* [Sends -> the last event of the SSE stream, or how it stands]

turns == <<pc, context, answered, msg, excluded, late, sink>>
vars == <<rows, turns>>

\* The user message and the assistant row of each send.
Messages == {"prompt", "answer"} \X Sends

Places == {"new", "preparing", "ready", "starting", "streaming", "finishing", "over"}

TypeOK ==
    /\ RowsTypeOK
    /\ pc \in [Op -> Places]
    /\ context \in [Sends -> SUBSET Messages]
    /\ answered \in [Sends -> BOOLEAN]
    /\ msg \in [Sends -> {"none", "streaming", "done", "error"}]
    /\ excluded \in [Sends -> BOOLEAN]
    /\ late \in [Sends -> BOOLEAN]
    /\ sink \in [Sends -> {"none", "open", "done", "error", "gone"}]

Init ==
    /\ RowsInit
    /\ \A h \in History : HasRow(h)
    /\ pc = [o \in Op |-> "new"]
    /\ context = [o \in Sends |-> {}]
    /\ answered = [o \in Sends |-> FALSE]
    /\ msg = [o \in Sends |-> "none"]
    /\ excluded = [o \in Sends |-> FALSE]
    /\ late = [o \in Sends |-> FALSE]
    /\ sink = [o \in Sends |-> "none"]

\* Between the two commits of a start, and the two assertions of a success, the
\* task does not leave the event loop.
LoopFree == \A o \in Sends : pc[o] \notin {"starting", "finishing"}

Goes(o, place) == pc' = [pc EXCEPT ![o] = place]

\* A closed sink drops what is emitted.
Emits(o, event) == sink' = [sink EXCEPT ![o] = IF @ = "open" THEN event ELSE @]

Ends(o, event) == Goes(o, "over") /\ Emits(o, event)

TouchesMessages == <<msg, excluded, late>>

-----------------------------------------------------------------------------
(* What the transactions do *)

\* The owner columns are cleared with the outcome.  (lifecycle_state is never
\* "deleting" here.)
Completes(o, outcome) == CompleteRows(o, outcome, FALSE)

\* The fence of complete_operation(allow_expired=True).
HoldsLease(o) == Current(o, TRUE)

\* The assistant row of one turn closed by its own task.
ClosesOwn(o, exclude) ==
    /\ msg' = [msg EXCEPT ![o] = "error"]
    /\ excluded' = [excluded EXCEPT ![o] = exclude]
    /\ late' = [late EXCEPT ![o] = FALSE]

\* _close_stale_streaming_message, on a set of turns.
ClosesStale(S) ==
    /\ msg' = [o \in Sends |-> IF o \in S THEN "error" ELSE msg[o]]
    /\ excluded' = [o \in Sends |-> o \in S \/ excluded[o]]
    /\ late' = [o \in Sends |-> late[o] /\ o \notin S]

\* Slip: text without the end of the final answer is enough.
IncludedWithAnyText(o) == TRUE

\* should_include_error_turn.
IncludedAfterError(o) == answered[o]

\* persist_chat_turn_failure: nothing at all unless the lease still holds and the
\* assistant row is still streaming.
RecordsFailure(o, outcome, exclude) ==
    IF HoldsLease(o) /\ msg[o] = "streaming"
      THEN Completes(o, outcome) /\ ClosesOwn(o, exclude)
      ELSE UNCHANGED <<rows, TouchesMessages>>

\* The messages a provider request is built from: an assistant row has no text
\* while it streams.
VisibleMessages(h) ==
    {m \in Messages :
        /\ scope[m[2]] = h /\ msg[m[2]] # "none" /\ ~excluded[m[2]]
        /\ m[1] = "answer" => msg[m[2]] # "streaming"}

-----------------------------------------------------------------------------
(* The pipeline of a send *)

\* create_chat_completion_stream: the operation begins and the task is created.
BeginSend(o, h) ==
    /\ pc[o] = "new" /\ LoopFree
    /\ BeginRows(o, h, "send")
    /\ Goes(o, "preparing")
    /\ sink' = [sink EXCEPT ![o] = "open"]
    /\ UNCHANGED <<context, answered, TouchesMessages>>

\* build_prepared_request reads the context; counting and attachments await.
BuildContext(o) ==
    /\ pc[o] = "preparing" /\ LoopFree
    /\ context' = [context EXCEPT ![o] = VisibleMessages(scope[o])]
    /\ Goes(o, "ready")
    /\ UNCHANGED <<rows, answered, TouchesMessages, sink>>

\* A failure before the turn exists, validation included, closes the operation
\* before its deadline; a timeout of the preparation closes it after as well.
PrestartFails(o, outcome) ==
    /\ pc[o] \in {"preparing", "ready"} /\ LoopFree
    /\ IF Current(o, outcome = "timed_out")
         THEN Completes(o, outcome)
         ELSE UNCHANGED rows
    /\ Ends(o, "error")
    /\ UNCHANGED <<context, answered, TouchesMessages>>

\* transition_operation commits; the task goes on without an await.
Transition(o) ==
    /\ pc[o] = "ready" /\ LoopFree
    /\ Current(o, FALSE)
    /\ TransitionRows(o)
    /\ Goes(o, "starting")
    /\ UNCHANGED <<context, answered, TouchesMessages, sink>>

\* persist_chat_turn_start: both rows, with the deadline of the operation.
PersistTurn(o) ==
    /\ pc[o] = "starting"
    /\ Current(o, FALSE)
    /\ msg' = [msg EXCEPT ![o] = "streaming"]
    /\ filled' = [filled EXCEPT ![scope[o]] = TRUE]
    /\ Goes(o, "streaming")
    /\ UNCHANGED <<state, kind, scope, due, owner, life, context, answered, excluded, late, sink>>

\* A fence of the start refuses: the operation is closed if it is still there.
StartRefused(o) ==
    /\ \/ pc[o] = "ready" /\ LoopFree
       \/ pc[o] = "starting"
    /\ ~Current(o, FALSE)
    /\ IF HoldsLease(o) THEN Completes(o, "timed_out") ELSE UNCHANGED rows
    /\ Ends(o, "error")
    /\ UNCHANGED <<context, answered, TouchesMessages>>

\* A provider chunk, which may carry the end of the final answer.  A heartbeat
\* moves the deadline of the operation and of the row together, and neither has
\* passed: in qualitative time it changes nothing.
ProviderEvent(o) ==
    /\ pc[o] = "streaming" /\ LoopFree
    /\ Current(o, FALSE)
    /\ ~answered[o]
    /\ answered' = [answered EXCEPT ![o] = TRUE]
    /\ UNCHANGED <<rows, pc, context, TouchesMessages, sink>>

\* Slip: no event for the client unless the failure was recorded.
ProviderTimesOutQuietly(o) ==
    /\ pc[o] = "streaming" /\ LoopFree
    /\ RecordsFailure(o, "timed_out", ~IncludedAfterError(o))
    /\ Goes(o, "over")
    /\ IF HoldsLease(o) THEN Emits(o, "error") ELSE UNCHANGED sink
    /\ UNCHANGED <<context, answered>>

\* No chunk in time, the hard cap, or a chunk that finds the lease lost:
\* persist_provider_timeout.
ProviderTimesOut(o) ==
    /\ pc[o] = "streaming" /\ LoopFree
    /\ RecordsFailure(o, "timed_out", ~IncludedAfterError(o))
    /\ Ends(o, "error")
    /\ UNCHANGED <<context, answered>>

\* The provider or a mapper raises: persist_turn_failure.  An exception nobody
\* expected excludes the turn in any case.
ProviderFails(o, expected) ==
    /\ pc[o] = "streaming" /\ LoopFree
    /\ RecordsFailure(o, "failed", ~(expected /\ IncludedAfterError(o)))
    /\ Ends(o, "error")
    /\ UNCHANGED <<context, answered>>

\* The stream ends.  persist_chat_turn_success asserts the lease once ...
ProviderEnds(o) ==
    /\ pc[o] = "streaming" /\ LoopFree
    /\ Current(o, FALSE)
    /\ Goes(o, "finishing")
    /\ UNCHANGED <<rows, context, answered, TouchesMessages, sink>>

\* Slip: the result of complete_operation is ignored.
PersistSuccessAnyway(o) ==
    /\ pc[o] = "finishing"
    /\ msg[o] = "streaming"
    /\ IF HoldsLease(o) THEN Completes(o, "succeeded") ELSE UNCHANGED rows
    /\ msg' = [msg EXCEPT ![o] = "done"]
    /\ late' = [late EXCEPT ![o] = FALSE]
    /\ Ends(o, "done")
    /\ UNCHANGED <<context, answered, excluded>>

\* ... and once more, past the deadline as well, when it completes it.
PersistSuccess(o) ==
    /\ pc[o] = "finishing"
    /\ msg[o] = "streaming" /\ HoldsLease(o)
    /\ Completes(o, "succeeded")
    /\ msg' = [msg EXCEPT ![o] = "done"]
    /\ late' = [late EXCEPT ![o] = FALSE]
    /\ Ends(o, "done")
    /\ UNCHANGED <<context, answered, excluded>>

\* Slip: the result of persist_chat_turn_success is ignored.
SuccessRefusedUnseen(o) ==
    /\ pc[o] = "finishing"
    /\ ~(msg[o] = "streaming" /\ HoldsLease(o))
    /\ Ends(o, "done")
    /\ UNCHANGED <<rows, context, answered, TouchesMessages>>

\* Then nothing is persisted, and nothing is emitted.
SuccessRefused(o) ==
    /\ pc[o] = "finishing"
    /\ ~(msg[o] = "streaming" /\ HoldsLease(o))
    /\ Goes(o, "over")
    /\ UNCHANGED <<rows, context, answered, TouchesMessages, sink>>

-----------------------------------------------------------------------------
(* The rest of the system *)

\* The client closes the response; the task goes on.
Disconnect(o) ==
    /\ sink[o] = "open"
    /\ sink' = [sink EXCEPT ![o] = "gone"]
    /\ UNCHANGED <<rows, pc, context, answered, TouchesMessages>>

\* A metadata request in the thread pool: begin, then change and complete.
BeginRename(o, h) ==
    /\ pc[o] = "new"
    /\ BeginRows(o, h, "update_metadata")
    /\ Goes(o, "streaming")
    /\ UNCHANGED <<context, answered, TouchesMessages, sink>>

EndRename(o) ==
    /\ pc[o] = "streaming"
    /\ IF Current(o, FALSE) THEN Completes(o, "succeeded") ELSE UNCHANGED rows
    /\ Goes(o, "over")
    /\ UNCHANGED <<context, answered, TouchesMessages, sink>>

\* cleanup_stale_chat_executions: first the expired operations, each with every
\* streaming message of its history, then the streaming messages past their own
\* deadline.
StaleOperations == {o \in Op : Live(o) /\ Expired(o)}
TurnsOfStale == {p \in Sends : msg[p] = "streaming" /\ \E o \in StaleOperations : scope[o] = scope[p]}

\* Slip: the rows of a recovered operation are not looked for.
NoLateTurns == {}

LateTurns == {p \in Sends : msg[p] = "streaming" /\ late[p]}

Housekeeping ==
    /\ LoopFree
    /\ CloseRows(StaleOperations, {h \in History : owner[h] \in StaleOperations}, {})
    /\ ClosesStale(TurnsOfStale \cup LateTurns)
    /\ UNCHANGED <<pc, context, answered, sink>>

\* The process dies, with every task and every connection.
Crash ==
    /\ pc' = [o \in Op |-> IF pc[o] = "new" THEN "new" ELSE "over"]
    /\ sink' = [o \in Sends |-> IF sink[o] = "open" THEN "gone" ELSE sink[o]]
    /\ UNCHANGED <<rows, context, answered, TouchesMessages>>

\* deadline_at of a streaming assistant row is that of its operation row as of the
\* start or the last heartbeat.
MessageLate(o) ==
    /\ msg[o] = "streaming" /\ ~late[o]
    /\ late' = [late EXCEPT ![o] = TRUE]
    /\ UNCHANGED <<pc, context, answered, msg, excluded, sink>>
    /\ IF "deadline" \in due[o] \/ ~Live(o)
         THEN UNCHANGED rows
         ELSE DeadlinePasses(o)

TimePasses(o) ==
    \/ /\ o \in Sends => msg[o] # "streaming"
       /\ DeadlinePasses(o)
       /\ UNCHANGED turns
    \/ MaxRuntimePasses(o) /\ UNCHANGED turns
    \/ o \in Sends /\ MessageLate(o)

-----------------------------------------------------------------------------

\* Code without an await in it runs on to its end.
RunsOn(o) == PersistTurn(o) \/ (pc[o] = "starting" /\ StartRefused(o))
             \/ PersistSuccess(o) \/ SuccessRefused(o)

SendStep(o) ==
    \/ \E h \in History : BeginSend(o, h)
    \/ BuildContext(o)
    \/ \E outcome \in {"failed", "timed_out"} : PrestartFails(o, outcome)
    \/ Transition(o)
    \/ PersistTurn(o)
    \/ StartRefused(o)
    \/ ProviderEvent(o)
    \/ ProviderTimesOut(o)
    \/ \E expected \in BOOLEAN : ProviderFails(o, expected)
    \/ ProviderEnds(o)
    \/ PersistSuccess(o)
    \/ SuccessRefused(o)
    \/ Disconnect(o)

RenameStep(o) ==
    \/ \E h \in History : BeginRename(o, h)
    \/ EndRename(o)

Next ==
    \/ \E o \in Sends : SendStep(o)
    \/ \E o \in Renames : RenameStep(o)
    \/ \E o \in Op : TimePasses(o)
    \/ Housekeeping
    \/ Crash

Spec == Init /\ [][Next]_vars

\* What the code and the runtime give: a preparation ends by itself or by
\* asyncio.wait_for, a provider stream ends by itself or by one of its two
\* timeouts, clocks advance and housekeeping runs.  Nothing is assumed of the
\* provider, the client or the thread pool.
Fairness ==
    /\ \A o \in Sends :
          /\ WF_vars(RunsOn(o))
          /\ WF_vars(PrestartFails(o, "timed_out"))
          /\ WF_vars(ProviderTimesOut(o))
          /\ WF_vars(MessageLate(o))
    /\ \A o \in Op : WF_vars(TimePasses(o))
    /\ WF_vars(Housekeeping)

FairSpec == Spec /\ Fairness

-----------------------------------------------------------------------------
(* Properties *)

\* The assistant row and the operation tell the same story: an answer is kept
\* exactly when the operation succeeded, and a failed turn never belongs to a
\* successful operation (turn_persistence.py:134-187, 251-307;
\* chat_execution_cleanup.py:96-259).
OutcomeMatchesMessage ==
    \A o \in Sends :
        /\ msg[o] = "done" <=> state[o] = "succeeded"
        /\ msg[o] = "error" => state[o] \in {"failed", "timed_out"}

\* The client is never told another outcome than the one that is stored: "done"
\* is shown only for a stored answer, and an answer is not stored after "error" was
\* shown (provider_execution.py:62-241).
ClientSeesOutcome ==
    \A o \in Sends :
        /\ sink[o] = "done" => msg[o] = "done"
        /\ sink[o] = "error" => msg[o] # "done"

\* A request that reaches the provider was built from every answer stored by
\* then: no turn is answered between the reading of the context and the start of
\* the turn, across all the awaits in between (orchestrator.py:233-314).
ContextIsComplete ==
    [][\A o \in Sends :
          PersistTurn(o) =>
              \A p \in Sends :
                  scope[p] = scope[o] /\ msg[p] = "done" => <<"answer", p>> \in context[o]]_vars

\* A turn closed as failed stays out of every context built later, unless its
\* final answer was complete (provider_execution.py:359-364, pipeline.py:109-126).
FailedTurnsStayOut ==
    [][\A o \in Sends :
          BuildContext(o) =>
              \A p \in Sends : <<"prompt", p>> \in context'[o] /\ msg[p] = "error" => answered[p]]_vars

\* No assistant row streams for ever, whatever crashed and whoever recovered its
\* operation (chat_execution_cleanup.py:40-57).
StreamingRowsClose ==
    \A o \in Sends : msg[o] = "streaming" ~> msg[o] # "streaming"

\* docs/API.md:218: every SSE stream ends, with done, error or the connection
\* (sse.py:35-45).
StreamsEnd ==
    \A o \in Sends : sink[o] = "open" ~> sink[o] # "open"

\* As long as no request of the thread pool has begun, every SSE stream ends: no way
\* out of the pipeline, past whatever failure or timeout, forgets the client
\* (orchestrator.py:137-230, provider_execution.py:62-241).
LoopStreamsEnd ==
    \A o \in Sends :
        sink[o] = "open" ~> sink[o] # "open" \/ \E r \in Renames : pc[r] # "new"
=============================================================================
