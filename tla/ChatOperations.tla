---------------------------- MODULE ChatOperations ----------------------------
(***************************************************************************)
(* Who may change a chat history, and when: every holder of an            *)
(* OperationHandle, housekeeping and process crashes over the rows of      *)
(* OperationRows.                                                          *)
(*                                                                         *)
(* Scheduling.  async endpoints, the chat pipeline and housekeeping run on *)
(* one event loop: between two awaits nothing else runs on it.  The plain  *)
(* def endpoints of api/v1/endpoints/chat.py (title, pin, unpin: type      *)
(* update_metadata) run in the thread pool, at the same time as the loop.  *)
(* assert_operation_current reads without a lock and the UPDATE is sent    *)
(* when the transaction commits, so a transaction is two steps here: a     *)
(* Check step, the fence, which opens window[o], and a Write step, the     *)
(* flush and commit, which closes it.  Loop steps exclude one another      *)
(* while a loop window is open; thread steps exclude nobody.  A begin locks *)
(* the history row first and stays one step.  The reads of one fence are   *)
(* taken together, at the instant of the last one.                         *)
(***************************************************************************)
EXTENDS OperationRows

CONSTANTS
    Kinds,        \* the operation types requested, a subset of OperationTypes
    ThreadKinds   \* the types whose endpoint runs in the thread pool

ASSUME KindsAssumption ==
    /\ Kinds \subseteq OperationTypes
    /\ ThreadKinds \subseteq {"update_metadata"}

VARIABLES
    task,     \* [Op -> where the holder of the handle stands]
    window,   \* [Op -> the write whose fence has passed, or "none"]
    seen,     \* [Op -> the lifecycle_state read with the last fence]
    created,  \* the operations that created their own history
    sweep     \* the housekeeping transaction: what it read, until it commits

tasks == <<task, window, seen, created, sweep>>
vars == <<rows, tasks>>

TaskStates == {"new", "running", "mutated", "starting", "streaming", "closing", "over"}
Outcomes == {"succeeded", "failed", "timed_out"}
Writes == Outcomes \cup {"transition", "heartbeat", "mutate", "delete"}
Jobs == {"none", "close", "remove"}
NoSweep == [job |-> "none", stale |-> {}, cleared |-> {}, reopened |-> {}, empty |-> {}]
FileKinds == {"attach_file", "delete_file", "toggle_file"}
AsyncKinds == OperationTypes \ {"update_metadata"}

TypeOK ==
    /\ RowsTypeOK
    /\ task \in [Op -> TaskStates]
    /\ window \in [Op -> Writes \cup {"none"}]
    /\ seen \in [Op -> {"unborn", "active", "deleting", "deleted"}]
    /\ created \in SUBSET Op
    /\ sweep \in [job : Jobs, stale : SUBSET Op, cleared : SUBSET History,
                  reopened : SUBSET History, empty : SUBSET History]

Init ==
    /\ RowsInit
    /\ task = [o \in Op |-> "new"]
    /\ window = [o \in Op |-> "none"]
    /\ seen = [o \in Op |-> "unborn"]
    /\ created = {}
    /\ sweep = NoSweep

-----------------------------------------------------------------------------
(* Scheduling *)

OnThread(o) == kind[o] \in ThreadKinds

\* p is between two awaits: its window is open, a send that has transitioned is
\* about to persist its turn, or a failed send to remove its empty history.
HoldsLoop(p) ==
    \/ window[p] # "none" /\ ~OnThread(p)
    \/ task[p] \in {"starting", "closing"}

\* Housekeeping holds the loop from its reads to its commit.
LoopFree == sweep.job = "none" /\ \A p \in Op : ~HoldsLoop(p)

MayRun(o) == OnThread(o) \/ (sweep.job = "none" /\ \A p \in Op \ {o} : ~HoldsLoop(p))

-----------------------------------------------------------------------------
(* The two halves of a transaction *)

OpenWindow(o, w) ==
    /\ window' = [window EXCEPT ![o] = w]
    /\ seen' = [seen EXCEPT ![o] = life[scope[o]]]
    /\ UNCHANGED <<rows, task, created, sweep>>

CloseWindow(o, next) ==
    /\ window' = [window EXCEPT ![o] = "none"]
    /\ seen' = [seen EXCEPT ![o] = "unborn"]
    /\ task' = [task EXCEPT ![o] = next]
    /\ UNCHANGED <<created, sweep>>

Moves(o, next) ==
    /\ task' = [task EXCEPT ![o] = next]
    /\ UNCHANGED <<rows, window, seen, created, sweep>>

\* A failed send that created its history goes on to remove it if it is empty.
AfterClose(o) ==
    IF task[o] \in {"running", "starting"} /\ o \in created THEN "closing" ELSE "over"

-----------------------------------------------------------------------------
(* Starting an operation *)

\* An endpoint starts an operation of type k on history h.
Begin(o, h, k) ==
    /\ task[o] = "new"
    /\ k \in ThreadKinds \/ LoopFree
    /\ BeginRows(o, h, k)
    /\ task' = [task EXCEPT ![o] = "running"]
    /\ UNCHANGED <<window, seen, created, sweep>>

\* A send without a history id creates the history with the operation.
BeginNewHistory(o, h) ==
    /\ "send" \in Kinds
    /\ task[o] = "new"
    /\ LoopFree
    /\ CreateRows(o, h)
    /\ task' = [task EXCEPT ![o] = "running"]
    /\ created' = created \cup {o}
    /\ UNCHANGED <<window, seen, sweep>>

-----------------------------------------------------------------------------
(* Fences: a loop task or a thread reads its rows and may go on to write *)

\* A running send whose preparation is done moves on to the provider.
CheckTransition(o) ==
    /\ kind[o] = "send" /\ task[o] = "running" /\ window[o] = "none"
    /\ MayRun(o)
    /\ Current(o, FALSE)
    /\ OpenWindow(o, "transition")

\* A provider event of a streaming send whose heartbeat is due.
CheckHeartbeat(o) ==
    /\ task[o] = "streaming" /\ window[o] = "none"
    /\ MayRun(o)
    /\ Current(o, FALSE)
    /\ OpenWindow(o, "heartbeat")

\* Slip: the second assertion after the awaits is missing.
UnfencedAfterAwait(o) == TRUE

\* A file operation or a history deletion asserts the lease once more after its
\* awaits, on the history object it loaded before them: it sees that its row has
\* ended, not that the history has lost it.
HeldFence(o) == Live(o) /\ ~Expired(o)

\* A file operation is about to commit its change; there is a file to delete or
\* to toggle.
CheckMutate(o) ==
    /\ kind[o] \in FileKinds /\ task[o] = "running" /\ window[o] = "none"
    /\ kind[o] # "attach_file" => ~IsEmpty(scope[o])
    /\ MayRun(o)
    /\ HeldFence(o)
    /\ OpenWindow(o, "mutate")

\* A send is about to persist the start of its turn or a completed block.
CheckMessage(o) ==
    /\ task[o] \in {"starting", "streaming"} /\ window[o] = "none"
    /\ MayRun(o)
    /\ Current(o, FALSE)
    /\ OpenWindow(o, "mutate")

\* The last fence before a history is deleted, by delete_history or by the
\* deletion of the last file of a history without messages.
CheckDelete(o) ==
    /\ kind[o] = "delete_history" \/ (kind[o] = "delete_file" /\ ~IsEmpty(scope[o]))
    /\ task[o] = "running" /\ window[o] = "none"
    /\ MayRun(o)
    /\ HeldFence(o)
    /\ OpenWindow(o, "delete")

\* The result is persisted: a finished provider stream, a metadata change, or
\* a file operation whose change is committed and may be late.
CheckSucceed(o) ==
    /\ \/ task[o] = "streaming" /\ Current(o, FALSE)
       \/ kind[o] = "update_metadata" /\ task[o] = "running" /\ Current(o, FALSE)
       \/ task[o] = "mutated" /\ Current(o, TRUE)
    /\ window[o] = "none"
    /\ MayRun(o)
    /\ OpenWindow(o, "succeeded")

\* A task gives up.  A timeout and a failed provider turn are recorded past the
\* deadline as well, a failure before the provider only before it.  A toggle
\* awaits nothing and has no timeout.
CheckClose(o, outcome) ==
    /\ kind[o] \in AsyncKinds
    /\ task[o] \in {"running", "starting", "streaming"} /\ window[o] = "none"
    /\ kind[o] = "toggle_file" => outcome = "failed"
    /\ MayRun(o)
    /\ Current(o, outcome = "timed_out" \/ task[o] = "streaming")
    /\ OpenWindow(o, outcome)

\* The fence refuses and the task leaves the rows as they are.  What a streaming
\* send or a committed file change still records, it records past its deadline.
Abandon(o) ==
    /\ task[o] \in {"running", "mutated", "starting", "streaming"}
    /\ window[o] = "none"
    /\ MayRun(o)
    /\ ~Current(o, task[o] \in {"streaming", "mutated"})
    /\ Moves(o, AfterClose(o))

-----------------------------------------------------------------------------
(* Writes: the flush and commit that the fence allowed *)

WriteTransition(o) ==
    /\ window[o] = "transition"
    /\ TransitionRows(o)
    /\ CloseWindow(o, "starting")

WriteHeartbeat(o) ==
    /\ window[o] = "heartbeat"
    /\ HeartbeatRows(o)
    /\ CloseWindow(o, "streaming")

\* An attached file or a persisted message makes the history non-empty.
WriteMutate(o) ==
    /\ window[o] = "mutate"
    /\ filled' = [filled EXCEPT ![scope[o]] = @ \/ kind[o] \in {"send", "attach_file"}]
    /\ UNCHANGED <<state, kind, scope, due, owner, life>>
    /\ CloseWindow(o, IF kind[o] = "send" THEN "streaming" ELSE "mutated")

WriteDelete(o) ==
    /\ window[o] = "delete"
    /\ RemoveRows({scope[o]})
    /\ CloseWindow(o, "over")

WriteOutcome(o) ==
    /\ window[o] \in Outcomes
    /\ CompleteRows(o, window[o], seen[o] = "deleting")
    /\ CloseWindow(o, AfterClose(o))

\* The flush fails: the rows are gone (StaleDataError), or the operation would
\* be a second live one of its history (IntegrityError).  The session rolls
\* back; a send goes on to its failure path, a metadata change is over.
WriteAborts(o) ==
    /\ window[o] # "none"
    /\ \/ state[o] = "absent"
       \/ window[o] = "transition" /\ ~NoLiveExcept(scope[o], {o})
    /\ UNCHANGED rows
    /\ CloseWindow(o, IF window[o] = "transition" THEN "running" ELSE "over")

\* delete_empty_history_for_operation: only the operation row is looked up, and
\* the history goes if it has no message and no file.
DeleteEmptyHistory(o) ==
    /\ task[o] = "closing"
    /\ IF state[o] # "absent" /\ IsEmpty(scope[o])
         THEN RemoveRows({scope[o]})
         ELSE UNCHANGED rows
    /\ task' = [task EXCEPT ![o] = "over"]
    /\ UNCHANGED <<window, seen, created, sweep>>

-----------------------------------------------------------------------------
(* Housekeeping and crashes *)

\* Slip: the query only looks for operations that reached the provider.
StaleStreamsOnly == {o \in Op : state[o] = "provider_streaming" /\ Expired(o)}

\* cleanup_stale_chat_executions reads the expired operations and the histories
\* that name them.
StaleOperations == {o \in Op : Live(o) /\ Expired(o)}

SweepRead ==
    LET cleared == {h \in History : HasRow(h) /\ owner[h] \in StaleOperations}
    IN  /\ LoopFree
        /\ sweep' = [NoSweep EXCEPT !.job = "close", !.stale = StaleOperations,
                                  !.cleared = cleared,
                                  !.reopened = {h \in cleared : life[h] = "deleting"}]
        /\ UNCHANGED <<rows, task, window, seen, created>>

SweepWrite ==
    /\ sweep.job = "close"
    /\ CloseRows(sweep.stale, sweep.cleared, sweep.reopened)
    /\ sweep' = NoSweep
    /\ UNCHANGED <<task, window, seen, created>>

\* delete_stale_empty_histories: old histories nobody owns or filled.  Their age
\* is not modelled: any unowned empty history may be old enough.
EmptyRead ==
    /\ LoopFree
    /\ \E H \in SUBSET {h \in History : HasRow(h) /\ owner[h] = NoOp /\ IsEmpty(h)} :
          sweep' = [NoSweep EXCEPT !.job = "remove", !.empty = H]
    /\ UNCHANGED <<rows, task, window, seen, created>>

EmptyWrite ==
    /\ sweep.job = "remove"
    /\ RemoveRows(sweep.empty)
    /\ sweep' = NoSweep
    /\ UNCHANGED <<task, window, seen, created>>

\* The process dies: every task, every open transaction and the sweep are gone.
Crash ==
    /\ task' = [o \in Op |-> IF task[o] = "new" THEN "new" ELSE "over"]
    /\ window' = [o \in Op |-> "none"]
    /\ seen' = [o \in Op |-> "unborn"]
    /\ sweep' = NoSweep
    /\ UNCHANGED <<rows, created>>

-----------------------------------------------------------------------------

TimePasses(o) ==
    /\ DeadlinePasses(o) \/ MaxRuntimePasses(o)
    /\ UNCHANGED tasks

Commit(o) ==
    /\ state[o] # "absent"
    /\ \/ WriteTransition(o) \/ WriteHeartbeat(o) \/ WriteMutate(o)
       \/ WriteDelete(o) \/ WriteOutcome(o)

\* Code without an await in it runs on to its end.
RunsOn(o) ==
    \/ Commit(o) \/ WriteAborts(o) \/ DeleteEmptyHistory(o)
    \/ task[o] = "starting" /\ (CheckMessage(o) \/ Abandon(o))

Step(o) ==
    \/ \E h \in History, k \in Kinds : Begin(o, h, k)
    \/ \E h \in History : BeginNewHistory(o, h)
    \/ CheckTransition(o)
    \/ CheckHeartbeat(o)
    \/ CheckMutate(o)
    \/ CheckMessage(o)
    \/ CheckDelete(o)
    \/ CheckSucceed(o)
    \/ \E outcome \in {"failed", "timed_out"} : CheckClose(o, outcome)
    \/ Abandon(o)
    \/ Commit(o)
    \/ WriteAborts(o)
    \/ DeleteEmptyHistory(o)

Next ==
    \/ \E o \in Op : Step(o) \/ TimePasses(o)
    \/ SweepRead
    \/ SweepWrite
    \/ EmptyRead
    \/ EmptyWrite
    \/ Crash

Spec == Init /\ [][Next]_vars

\* What the runtime gives: clocks advance, an opened transaction commits or
\* aborts, and the housekeeping task gets its turn on the loop.  Its turn may be
\* taken from it again and again by other ready tasks, but the ready queue of
\* asyncio is first in first out, hence strong fairness on its read; and on its
\* commit, because a process is not killed in the middle of every sweep for ever.
\* Nothing is assumed of users, providers or the holders of handles.
Fairness ==
    /\ SF_vars(SweepRead)
    /\ SF_vars(SweepWrite)
    /\ WF_vars(EmptyWrite)
    /\ \A o \in Op :
          /\ WF_vars(DeadlinePasses(o) /\ UNCHANGED tasks)
          /\ WF_vars(MaxRuntimePasses(o) /\ UNCHANGED tasks)
          /\ WF_vars(RunsOn(o))

FairSpec == Spec /\ Fairness

-----------------------------------------------------------------------------
(* Properties *)

\* The owner columns of a history never dangle: they name a live operation row
\* whose scope is that very history.  begin, complete_operation, recovery,
\* housekeeping and both deletions each write one side or both of the pair.
OwnerIsLive ==
    \A h \in History : owner[h] # NoOp =>
        Live(owner[h]) /\ scope[owner[h]] = h /\ HasRow(h)

\* No two live operations work on one history, whatever the interleaving of
\* begins, late commits and housekeeping (operations.py:52-82, the live index of
\* chat_history.py:138-145).
OneLiveOperation ==
    \A o, p \in Op : Live(o) /\ Live(p) /\ scope[o] = scope[p] => o = p

\* An operation that is live and before its deadlines only ends by a write of its
\* own: neither a later begin nor housekeeping takes its lease early.  The removal
\* of an empty history by another operation is the exception
\* (operations.py:345-364).
LeaseLostOnlyPastDeadline ==
    [][\A o \in Op :
          Live(o) /\ ~Expired(o) /\ ~Live(o)' =>
              Commit(o) \/ EmptyWrite \/ \E p \in Op : DeleteEmptyHistory(p)]_vars

\* A history with a message or a file only goes when a delete operation on it
\* commits; no clean-up path removes it (operations.py:345-364,
\* chat_history_cleanup.py:14-40).
ContentOnlyDeletedOnRequest ==
    [][\A h \in History :
          filled[h] /\ life'[h] = "deleted" =>
              \E o \in Op : WriteDelete(o) /\ scope[o] = h
                              /\ kind[o] \in {"delete_file", "delete_history"}]_vars

\* Whatever crashes or is abandoned, no operation stays live: it commits, or its
\* deadline passes and housekeeping closes it.
LiveOperationEnds ==
    \A o \in Op : Live(o) ~> ~Live(o)

\* Every commit of a handle holder is made while the history still names the
\* operation (the deadline may pass between the fence and the commit).
FencedWrites ==
    [][\A o \in Op : Commit(o) => Current(o, TRUE)]_vars

\* The lease the rows promise, seen through their columns: an absent row was
\* either not requested yet or deleted with its history.
LeaseOutcome ==
    [o \in Op |->
        CASE Live(o) -> "held"
          [] state[o] = "absent" /\ task[o] = "new" -> "unused"
          [] state[o] = "absent" /\ task[o] # "new" -> "gone"
          [] OTHER -> state[o]]

Lease == INSTANCE HistoryLease WITH holder <- owner, place <- scope, outcome <- LeaseOutcome

\* While no operation runs in the thread pool the rows implement the abstract
\* lease: one holder per history, one outcome per operation, and it stands.
ImplementsLease == Lease!LeaseSpec
=============================================================================
