--------------------------- MODULE BlankPageUploads ---------------------------
(***************************************************************************)
(* A file uploaded from a page without a history (POST /chat/files with no *)
(* id: api/v1/endpoints/chat.py, services/chat/operations.py): the         *)
(* operation leases a staging draft, the file is stored under it, and the  *)
(* draft is promoted to a history of the same id.  Housekeeping closes     *)
(* what an upload leaves behind (workers/chat_execution_cleanup.py).       *)
(*                                                                         *)
(* All uploads are of one auth session; each has a draft and an operation  *)
(* of its own, so an upload names its draft, its operation and its         *)
(* history.  Everything runs on the event loop, and an action is a stretch *)
(* without an await.  While housekeeping awaits a provider it keeps the    *)
(* rows it has flushed locked; a request that writes one of them then      *)
(* stops the loop.  The stored files themselves are in StoredFiles.        *)
(***************************************************************************)
EXTENDS Naturals, FiniteSets

CONSTANT Upload

VARIABLES
    operation,  \* [Upload -> chat_operations row]
    draft,      \* [Upload -> chat_drafts row with its chat_draft_files]
    history,    \* [Upload -> chat_histories row with its chat_history_files]
    at,         \* [Upload -> where the request is]
    reply,      \* [Upload -> what the client was told]
    house,      \* what a suspended housekeeping round has flushed
    frozen      \* the loop waits for a row housekeeping has locked

vars == <<operation, draft, history, at, reply, house, frozen>>

Operation ==
    [state : {"absent", "running", "succeeded", "failed", "timed_out"},
     scope : {"none", "draft", "history"}, due : BOOLEAN]
Draft == [state : {"absent", "active", "expired"}, owned : BOOLEAN,
          file : BOOLEAN, due : BOOLEAN]
History == [there : BOOLEAN, owned : BOOLEAN, file : BOOLEAN]

NoOperation == [state |-> "absent", scope |-> "none", due |-> FALSE]
NoDraft == [state |-> "absent", owned |-> FALSE, file |-> FALSE, due |-> FALSE]
NoHistory == [there |-> FALSE, owned |-> FALSE, file |-> FALSE]
Resting == [closes |-> {}, expires |-> {}, deletes |-> {}]

\* An operation has exactly one scope (chat_history.py:112-119).
TypeOK ==
    /\ operation \in [Upload -> Operation]
    /\ \A u \in Upload : operation[u].state = "absent" <=> operation[u].scope = "none"
    /\ draft \in [Upload -> Draft]
    /\ history \in [Upload -> History]
    /\ at \in [Upload -> {"new", "storing", "stored", "refused", "over"}]
    /\ reply \in [Upload -> {"none", "created", "error"}]
    /\ house \in [closes : SUBSET Upload, expires : SUBSET Upload, deletes : SUBSET Upload]
    /\ frozen \in BOOLEAN

Init ==
    /\ operation = [u \in Upload |-> NoOperation]
    /\ draft = [u \in Upload |-> NoDraft]
    /\ history = [u \in Upload |-> NoHistory]
    /\ at = [u \in Upload |-> "new"]
    /\ reply = [u \in Upload |-> "none"]
    /\ house = Resting
    /\ frozen = FALSE

-----------------------------------------------------------------------------

HasDraft(u) == draft[u].state # "absent"
Live(u) == operation[u].state = "running"
LiveOnDraft(u) == Live(u) /\ operation[u].scope = "draft"

\* assert_operation_current.  The draft is the object loaded when the operation
\* began, so it is always found to own it; the operation row is read anew.
Current(u) == Live(u) /\ ~operation[u].due

\* complete_operation after a rollback: the draft is read anew as well.
Completes(u, allowExpired) ==
    Live(u) /\ (allowExpired \/ ~operation[u].due) /\ draft[u].owned

\* Rows a suspended housekeeping round keeps locked: the operations it closes with
\* their drafts, and the files of the drafts it deletes.
OwnerLocked(u) == u \in house.closes
FilesLocked(u) == u \in house.deletes /\ draft[u].file

Freezes == frozen' = TRUE /\ UNCHANGED <<operation, draft, history, at, reply, house>>

Goes(u, place) == at' = [at EXCEPT ![u] = place] /\ UNCHANGED <<house, frozen>>
Answers(u, text) ==
    Goes(u, "over") /\ reply' = [reply EXCEPT ![u] = text]

\* Slip: only the owner of the draft is cleared.
ClosedOwnerOnly(U) == operation

\* A terminal operation gives its draft up.
Closed(U) ==
    [u \in Upload |->
        IF u \in U THEN [operation[u] EXCEPT !.state = "timed_out"] ELSE operation[u]]
Released(U) ==
    [u \in Upload |-> IF u \in U THEN [draft[u] EXCEPT !.owned = FALSE] ELSE draft[u]]

\* Deleting a draft deletes its files and the operations that are scoped to it.
Undrafted(U) == [u \in Upload |-> IF u \in U THEN NoDraft ELSE draft[u]]
Cascaded(U, rows) ==
    [u \in Upload |->
        IF u \in U /\ rows[u].scope = "draft" THEN NoOperation ELSE rows[u]]

-----------------------------------------------------------------------------

\* begin_draft_operation: the expired operations of the session that own their
\* draft are recovered first; the new one is refused while another is live, by the
\* check or by the index uq_chat_operations_live_session_draft_attach.
Begin(u) ==
    LET expired == {v \in Upload : LiveOnDraft(v) /\ operation[v].due /\ draft[v].owned}
        live == {v \in Upload : LiveOnDraft(v)}
    IN  /\ ~frozen /\ at[u] = "new"
        /\ IF \E v \in live : OwnerLocked(v)
             THEN Freezes
             ELSE /\ live \subseteq expired
                  /\ operation' = [Closed(expired) EXCEPT ![u] =
                         [state |-> "running", scope |-> "draft", due |-> FALSE]]
                  /\ draft' = [Released(expired) EXCEPT ![u] =
                         [NoDraft EXCEPT !.state = "active", !.owned = TRUE]]
                  /\ Goes(u, "storing")
                  /\ UNCHANGED <<history, reply>>

\* attach_file_to_history, after the last await: fenced, it stages the file and
\* gives the draft its time anew.
Stores(u) ==
    /\ ~frozen /\ at[u] = "storing"
    /\ Current(u)
    /\ draft' = [draft EXCEPT ![u].file = TRUE, ![u].due = FALSE]
    /\ Goes(u, "stored")
    /\ UNCHANGED <<operation, history, reply>>

\* Slip: draft_id is cleared in the flush that deletes the draft, when the
\* operation is already marked for deletion with it.
PromotedAtOnce(u) == NoOperation

\* reassign_operation_to_history and complete_operation: the operation has left the
\* draft, in a flush of its own, before the draft goes.
Promoted(u) == [operation[u] EXCEPT !.scope = "history", !.state = "succeeded"]

\* promote_draft_to_history, reassign and complete, in one transaction.  There is
\* no await between staging and this, but time passes.
Promotes(u) ==
    /\ ~frozen /\ at[u] = "stored"
    /\ Current(u)
    /\ history' = [history EXCEPT ![u] = [there |-> TRUE, owned |-> FALSE, file |-> draft[u].file]]
    /\ operation' = Cascaded({u}, [operation EXCEPT ![u] = Promoted(u)])
    /\ draft' = Undrafted({u})
    /\ Answers(u, "created")

\* A fence refuses: the transaction is rolled back and no row is closed.
Expires(u) ==
    /\ ~frozen /\ at[u] \in {"storing", "stored"}
    /\ ~Current(u)
    /\ Goes(u, "refused")
    /\ UNCHANGED <<operation, draft, history, reply>>

\* _rollback_and_timeout, _rollback_and_fail: a timeout is recorded past the
\* deadline as well.
Fails(u, outcome) ==
    /\ ~frozen /\ at[u] = "storing"
    /\ IF ~Completes(u, outcome = "timed_out")
         THEN Goes(u, "refused") /\ UNCHANGED <<operation, draft>>
         ELSE IF OwnerLocked(u)
         THEN Freezes
         ELSE /\ operation' = [operation EXCEPT ![u].state = outcome]
              /\ draft' = [draft EXCEPT ![u].owned = FALSE]
              /\ Goes(u, "refused")
    /\ UNCHANGED <<history, reply>>

\* _cleanup_staging_draft: the draft goes, and its operation with it, unless that
\* fails in its turn.  The client has its error either way.
Discards(u, works) ==
    /\ ~frozen /\ at[u] = "refused"
    /\ IF OwnerLocked(u) \/ FilesLocked(u)
         THEN Freezes
         ELSE /\ draft' = IF works THEN Undrafted({u}) ELSE draft
              /\ operation' = IF works THEN Cascaded({u}, operation) ELSE operation
              /\ Answers(u, "error")
              /\ UNCHANGED history

\* An error nothing catches: the transaction is rolled back, the rows stay.
Breaks(u) ==
    /\ ~frozen /\ at[u] \in {"storing", "stored"}
    /\ Answers(u, "error")
    /\ UNCHANGED <<operation, draft, history>>

-----------------------------------------------------------------------------
(* Housekeeping, time and crashes *)

\* Slip: only drafts an earlier round marked are looked for.
DueDraftsMarked == {u \in Upload : draft[u].state = "expired" /\ ~draft[u].owned}

DueDrafts == {u \in Upload : HasDraft(u) /\ ~draft[u].owned /\ draft[u].due}

StaleOperations == {u \in Upload : Live(u) /\ operation[u].due}

\* The rows of a round: draft-scoped operations are closed, with a draft past its
\* time marked, and drafts nobody owns past theirs are deleted.
Round ==
    [closes |-> StaleOperations, expires |-> {u \in StaleOperations : draft[u].due},
     deletes |-> DueDrafts]

Tidied(round) ==
    /\ operation' = Cascaded(round.deletes, Closed(round.closes))
    /\ draft' = [u \in Upload |->
           IF u \in round.deletes THEN NoDraft
           ELSE IF u \in round.expires THEN [Released(round.closes)[u] EXCEPT !.state = "expired"]
           ELSE Released(round.closes)[u]]

\* cleanup_stale_chat_executions.  With staged files to delete it awaits their
\* providers, after the flush and before the commit.
HouseStarts ==
    /\ ~frozen /\ house = Resting
    /\ Round # Resting
    /\ IF \E u \in DueDrafts : draft[u].file
         THEN house' = Round /\ UNCHANGED <<operation, draft>>
         ELSE Tidied(Round) /\ UNCHANGED house
    /\ UNCHANGED <<history, at, reply, frozen>>

HouseCommits ==
    /\ ~frozen /\ house # Resting
    /\ Tidied(house)
    /\ house' = Resting
    /\ UNCHANGED <<history, at, reply, frozen>>

\* Requests, the open transactions and the locks are gone.
Crash ==
    /\ at' = [u \in Upload |-> IF at[u] = "new" THEN "new" ELSE "over"]
    /\ house' = Resting
    /\ frozen' = FALSE
    /\ UNCHANGED <<operation, draft, history, reply>>

OperationDue(u) ==
    /\ Live(u) /\ ~operation[u].due
    /\ operation' = [operation EXCEPT ![u].due = TRUE]
    /\ UNCHANGED <<draft, history, at, reply, house, frozen>>

DraftDue(u) ==
    /\ HasDraft(u) /\ ~draft[u].due
    /\ draft' = [draft EXCEPT ![u].due = TRUE]
    /\ UNCHANGED <<operation, history, at, reply, house, frozen>>

UploadNext(u) ==
    \/ Begin(u)
    \/ Stores(u)
    \/ Promotes(u)
    \/ Expires(u)
    \/ \E outcome \in {"failed", "timed_out"} : Fails(u, outcome)
    \/ \E works \in BOOLEAN : Discards(u, works)
    \/ Breaks(u)

Next ==
    \/ \E u \in Upload : UploadNext(u) \/ OperationDue(u) \/ DraftDue(u)
    \/ HouseStarts
    \/ HouseCommits
    \/ Crash

Spec == Init /\ [][Next]_vars

\* Clocks advance; housekeeping gets its turn, and its calls of providers return
\* (they have timeouts).  A request that is under way goes on.
Fairness ==
    /\ SF_vars(HouseStarts) /\ SF_vars(HouseCommits)
    /\ \A u \in Upload :
          /\ WF_vars(OperationDue(u)) /\ WF_vars(DraftDue(u))
          /\ WF_vars(Expires(u) \/ Discards(u, TRUE) \/ Fails(u, "timed_out"))

FairSpec == Spec /\ Fairness

-----------------------------------------------------------------------------
(* Properties *)

\* The next upload of a session is never refused because of one that died: a live
\* draft operation always owns its draft, which is what the recovery in
\* begin_draft_operation goes by, whatever was promoted, discarded, closed or
\* crashed in between (operations.py:117-159, 442-489).
DeadUploadsYield ==
    \A u \in Upload : LiveOnDraft(u) => HasDraft(u) /\ draft[u].owned

\* The answer is true: after 201 the history is there with its file, free for the
\* next operation, its operation has succeeded and nothing is staged; after an
\* error there is no history (chat.py:240-287, operations.py:196-220, 272-342).
AnswerIsTrue ==
    \A u \in Upload :
        /\ reply[u] = "created" =>
              /\ history[u] = [there |-> TRUE, owned |-> FALSE, file |-> TRUE]
              /\ operation[u].state = "succeeded" /\ ~HasDraft(u)
        /\ reply[u] = "error" => ~history[u].there

\* docs/ARCHITECTURE.md:124: a staging draft does not stay for ever: it is promoted
\* or discarded, or its time passes and housekeeping deletes it; unless the process
\* is frozen.
DraftsGo == \A u \in Upload : HasDraft(u) ~> (~HasDraft(u) \/ frozen)
=============================================================================
