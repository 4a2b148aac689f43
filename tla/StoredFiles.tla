----------------------------- MODULE StoredFiles -----------------------------
(***************************************************************************)
(* The stored files of one user and one content (services/chat/attachments *)
(* and workers/chat_attachment_cleanup.py): the row that keeps the bytes,  *)
(* the histories and drafts that are attached to it, and the copies the    *)
(* model providers hold.  UNIQUE(user_id, sha256) leaves at most one row.  *)
(*                                                                         *)
(* Every function here is a coroutine of one event loop: it runs without   *)
(* interruption from one await of a provider to the next, and each action  *)
(* is such a stretch, or what the provider does meanwhile.  PostgreSQL is  *)
(* called synchronously, so a statement that must wait for a row locked by *)
(* a suspended coroutine stops the loop, and that coroutine with it: the   *)
(* process is frozen until it is restarted.                                *)
(***************************************************************************)
EXTENDS Naturals, FiniteSets

CONSTANTS
    Holder,    \* histories and drafts of the user
    Provider,
    Keyed,     \* providers that name a copy after the row (Vertex)
    Request,   \* coroutines that serve requests
    House,     \* the housekeeping coroutine
    NoHolder,
    Chores,    \* what housekeeping does: reconcile, purge, retry
    Faults,    \* what may go wrong: see the actions
    MaxFile,   \* bound on row ids in use at one time
    MaxCopy    \* bound on provider file ids in use at one time

ASSUME StoredFilesAssumption ==
    /\ House \notin Request /\ NoHolder \notin Holder
    /\ Keyed \subseteq Provider
    /\ Chores \subseteq {"reconcile", "purge", "retry"}
    /\ Faults \subseteq {"upload", "delete", "vanish", "timeout", "crash"}
    /\ MaxFile \in Nat \ {0} /\ MaxCopy \in Nat /\ MaxFile <= MaxCopy

VARIABLES
    row,      \* stored_files with stored_file_provider_states
    holds,    \* chat_history_files, chat_draft_files: the row each holder refers to
    remote,   \* the copies each provider has
    work,     \* what each coroutine has in hand
    frozen    \* the loop waits for a lock one of its own coroutines holds

vars == <<row, holds, remote, work, frozen>>

-----------------------------------------------------------------------------

File == 1 .. MaxFile
Task == Request \cup {House}

\* provider_file_id, 0 when there is none.
Copies == [Provider -> 0 .. MaxCopy]
NoCopies == [p \in Provider |-> 0]

\* stale: the providers whose last_used_at is past the remote TTL.
StoredFile ==
    [state : {"none", "active", "pending_delete", "delete_failed"},
     copy : Copies, stale : SUBSET Provider]
NoRow == [state |-> "none", copy |-> NoCopies, stale |-> {}]

\* A coroutine: where it is suspended, on whose behalf, the row and the copies it
\* read or made, the providers it still calls, those whose call failed (or, for a
\* check, found nothing), and whether its operation has expired.  A send that uploads
\* for a row that had an id has the verdict "keep".
Work ==
    [at : {"idle", "uploading", "uploaded", "undoing", "checking", "answered",
           "deleting", "deleted", "batch", "sweeping"},
     kind : {"none", "attach", "send", "remove", "discard",
             "reconcile", "purge", "retry"},
     holder : Holder \cup {NoHolder}, file : 0 .. MaxFile, copy : Copies,
     todo : SUBSET Provider, failed : SUBSET Provider,
     verdict : {"none", "keep", "fail", "drop"}, late : BOOLEAN]
Idle ==
    [at |-> "idle", kind |-> "none", holder |-> NoHolder, file |-> 0,
     copy |-> NoCopies, todo |-> {}, failed |-> {}, verdict |-> "none", late |-> FALSE]

TypeOK ==
    /\ row \in [File -> StoredFile]
    /\ holds \in [Holder -> 0 .. MaxFile]
    /\ remote \in [Provider -> SUBSET (1 .. MaxCopy)]
    /\ work \in [Task -> Work]
    /\ frozen \in BOOLEAN

Init ==
    /\ row = [f \in File |-> NoRow]
    /\ holds = [h \in Holder |-> 0]
    /\ remote = [p \in Provider |-> {}]
    /\ work = [t \in Task |-> Idle]
    /\ frozen = FALSE

-----------------------------------------------------------------------------

Present(f) == row[f].state # "none"
Rows == {f \in File : Present(f)}

\* count_stored_file_references, of the committed rows.
References(f) == {h \in Holder : holds[h] = f}

\* cleanup_orphan_stored_file keeps the row FOR UPDATE until its transaction ends.
Locks(t) == work[t].at \in {"deleting", "deleted", "batch"}
\* Slip: the row is read without FOR UPDATE.
LockedNever(t, f) == FALSE
Locked(t, f) == \E u \in Task \ {t} : Locks(u) /\ work[u].file = f

\* A row deleted in a transaction that is still open holds off the insert of
\* the same content; one that is only locked makes it fail at once.
Deleted(t, f) ==
    \E u \in Task \ {t} : work[u].at = "batch" /\ work[u].verdict = "drop" /\ work[u].file = f

\* The copies of a row that such a transaction has written may be locked as well: they
\* are once a later file of the batch has made it flush.
Flushed(t, f) ==
    \E u \in Task \ {t} :
      work[u].at = "batch" /\ work[u].verdict \in {"drop", "fail"} /\ work[u].file = f

\* The operation of a request leases its holder until it expires.
Leased(h) ==
    \E t \in Request : work[t].at # "idle" /\ work[t].holder = h /\ ~work[t].late
Starts(t, h) == ~frozen /\ work[t].at = "idle" /\ ~Leased(h)

Becomes(t, w) == work' = [work EXCEPT ![t] = w]
Suspends(t, at) == Becomes(t, [work[t] EXCEPT !.at = at])
Ends(t) == Becomes(t, Idle)

Freezes == frozen' = TRUE /\ UNCHANGED <<row, holds, remote, work>>

\* assert_operation_current.
Current(t) == ~work[t].late

\* Some of the calls fail, when the provider is one that fails them.
MayFail(fault, providers) == IF fault \in Faults THEN SUBSET providers ELSE {{}}

Named(copy) == {p \in Provider : copy[p] # 0}
Without(copy, providers) == [p \in Provider |-> IF p \in providers THEN 0 ELSE copy[p]]

\* uuid4, and the ids OpenAI and Anthropic give.  An id is free again once nothing
\* in the model mentions it.
FreshFile(f) ==
    /\ f \notin Rows /\ \A t \in Task : work[t].file # f
    /\ \A p \in Keyed : f \notin remote[p]
FreeCopies(p) ==
    {n \in 1 .. MaxCopy : /\ n \notin remote[p]
                          /\ \A f \in File : row[f].copy[p] # n
                          /\ \A t \in Task : work[t].copy[p] # n}
NewCopy(t, p) ==
    IF p \in Keyed THEN {work[t].file}
    ELSE FreeCopies(p)

-----------------------------------------------------------------------------
(* attach_file_to_history.  Content the user has already is attached without *)
(* an await; new content is uploaded to every provider before its row is     *)
(* inserted.                                                                 *)

\* Slip: a row waiting to be deleted is taken up as it is.
ReusesAsItIs(t, h, f) ==
    IF Locked(t, f)
      THEN Freezes
      ELSE /\ holds' = [holds EXCEPT ![h] = f]
           /\ Ends(t)
           /\ UNCHANGED <<row, remote, frozen>>

\* mark_stored_file_active, the reference and the commit.  The update and the
\* foreign key both wait for the lock of the row.
Reuses(t, h, f) ==
    IF Locked(t, f)
      THEN Freezes
      ELSE /\ holds' = [holds EXCEPT ![h] = f]
           /\ row' = [row EXCEPT ![f].state = "active"]
           /\ Ends(t)
           /\ UNCHANGED <<remote, frozen>>

AttachKnown(t, h) ==
    /\ Starts(t, h) /\ holds[h] = 0
    /\ \E f \in Rows : Reuses(t, h, f)

AttachNew(t, h) ==
    /\ Starts(t, h) /\ holds[h] = 0
    /\ Rows = {}
    /\ \E f \in File :
         /\ FreshFile(f)
         /\ Becomes(t, [Idle EXCEPT !.at = "uploading", !.kind = "attach", !.holder = h,
                                    !.file = f, !.todo = Provider])
    /\ UNCHANGED <<row, holds, remote, frozen>>

\* upload_and_count_provider_file for each provider.  A copy that cannot be counted
\* is deleted, unless that fails too.
CopiesArrive(t) ==
    /\ work[t].at = "uploading"
    /\ \E bad \in MayFail("upload", work[t].todo) :
       \E left \in MayFail("delete", bad) :
       \E new \in Copies :
         /\ \A p \in Provider :
              IF p \in (work[t].todo \ bad) \cup left THEN new[p] \in NewCopy(t, p) ELSE new[p] = 0
         /\ remote' = [p \in Provider |-> remote[p] \cup ({new[p]} \ {0})]
         /\ Becomes(t, [work[t] EXCEPT !.at = "uploaded", !.failed = bad,
                                       !.copy = Without(new, bad)])
    /\ UNCHANGED <<row, holds, frozen>>

\* Slip: the copies of an attachment that fails are left.
LeavesCopies(t, lost) == Ends(t)
UndoesCopies(t, lost) ==
    Becomes(t, [work[t] EXCEPT !.at = "undoing", !.verdict = IF lost THEN "keep" ELSE "none"])

\* The insert, the reference and the commit are one stretch.  Another row of the
\* same content, a failed upload or an expired operation undoes the copies.
AttachResumes(t) ==
    /\ ~frozen
    /\ work[t].at = "uploaded" /\ work[t].kind = "attach"
    /\ LET f == work[t].file
           h == work[t].holder
       IN IF work[t].failed = {} /\ \E g \in Rows : Deleted(t, g)
            THEN Freezes
          ELSE IF work[t].failed = {} /\ Rows = {} /\ Current(t) /\ holds[h] = 0
            THEN /\ row' = [row EXCEPT ![f] = [state |-> "active", copy |-> work[t].copy,
                                               stale |-> {}]]
                 /\ holds' = [holds EXCEPT ![h] = f]
                 /\ Ends(t)
                 /\ UNCHANGED <<remote, frozen>>
          ELSE /\ UndoesCopies(t, work[t].failed = {} /\ Rows # {})
               /\ UNCHANGED <<row, holds, remote, frozen>>

\* best_effort_delete_remote_provider_file and best_effort_delete_provider_files.
\* After a lost insert the row of the winner is looked up, and used.
Undoes(t) ==
    /\ ~frozen
    /\ work[t].at = "undoing"
    /\ \E left \in MayFail("delete", Named(work[t].copy)) :
         LET kept == [p \in Provider |-> IF p \in left THEN remote[p]
                                         ELSE remote[p] \ {work[t].copy[p]}]
             h == work[t].holder
         IN IF work[t].verdict = "keep" /\ Rows # {} /\ Current(t) /\ holds[h] = 0
              THEN \E f \in Rows :
                     IF Locked(t, f)
                       THEN /\ frozen' = TRUE /\ remote' = kept
                            /\ UNCHANGED <<row, holds, work>>
                       ELSE /\ holds' = [holds EXCEPT ![h] = f]
                            /\ row' = [row EXCEPT ![f].state = "active"]
                            /\ Ends(t)
                            /\ remote' = kept
                            /\ UNCHANGED frozen
              ELSE /\ remote' = kept
                   /\ Ends(t)
                   /\ UNCHANGED <<row, holds, frozen>>

-----------------------------------------------------------------------------
(* prepare_history_attachments_for_provider: a send makes sure the provider *)
(* of its model has a copy, and dispatches the turn with its id.            *)

SendStarts(t, h, p) ==
    /\ Starts(t, h) /\ holds[h] # 0
    /\ LET copy == [NoCopies EXCEPT ![p] = row[holds[h]].copy[p]]
       IN Becomes(t, [Idle EXCEPT !.at = IF copy[p] = 0 THEN "uploading" ELSE "checking",
                                  !.kind = "send", !.holder = h, !.file = holds[h],
                                  !.copy = copy, !.todo = {p}])
    /\ UNCHANGED <<row, holds, remote, frozen>>

\* Slip: the id of the row is believed.
ChecksNothing(t) ==
    /\ work[t].at = "checking"
    /\ Suspends(t, "answered")
    /\ UNCHANGED <<row, holds, remote, frozen>>

\* remote_provider_file_exists answers as things are at the provider.
CheckAnswers(t) ==
    /\ work[t].at = "checking"
    /\ Becomes(t, [work[t] EXCEPT !.at = "answered",
                     !.failed = {p \in work[t].todo : work[t].copy[p] \notin remote[p]}])
    /\ UNCHANGED <<row, holds, remote, frozen>>

\* The copy is gone: upload another.  Where copies are named after the row that brings
\* the same id back, and it is not a new one ("keep").
SendReuploads(t) ==
    /\ ~frozen
    /\ work[t].at = "answered" /\ work[t].failed # {}
    /\ Becomes(t, [work[t] EXCEPT !.at = "uploading", !.failed = {}, !.copy = NoCopies,
                                    !.verdict = "keep"])
    /\ UNCHANGED <<row, holds, remote, frozen>>

\* A check or an upload that failed ends the send, and so does an expired operation
\* that has uploaded nothing.
SendFails(t) ==
    /\ ~frozen /\ work[t].kind = "send"
    /\ \/ work[t].at = "checking"
       \/ work[t].at = "uploaded" /\ work[t].failed # {}
       \/ work[t].at = "answered" /\ work[t].failed = {} /\ ~Current(t)
    /\ Ends(t)
    /\ UNCHANGED <<row, holds, remote, frozen>>

\* newly_uploaded_provider_ids: those that differ from the id the row had.
NewlyUploaded(w) == Without(w.copy, IF w.verdict = "keep" THEN Keyed ELSE {})

\* The fence fails after an upload: roll back and delete the new copy, if it is one.
SendUndoes(t) ==
    /\ ~frozen /\ work[t].kind = "send"
    /\ work[t].at = "uploaded" /\ work[t].failed = {} /\ ~Current(t)
    /\ IF Named(NewlyUploaded(work[t])) = {}
         THEN Ends(t)
         ELSE Becomes(t, [work[t] EXCEPT !.at = "undoing", !.copy = NewlyUploaded(work[t]),
                                         !.verdict = "none"])
    /\ UNCHANGED <<row, holds, remote, frozen>>

\* The commit writes the id only if the send changed it, over whatever is there, and
\* last_used_at in any case.  The turn goes to the provider.
MayDispatch(t) ==
    /\ ~frozen /\ work[t].kind = "send"
    /\ work[t].at \in {"answered", "uploaded"} /\ work[t].failed = {} /\ Current(t)
    /\ Present(work[t].file)

Dispatches(t) ==
    /\ MayDispatch(t) /\ ~Deleted(t, work[t].file)
    /\ LET f == work[t].file
       IN row' = [row EXCEPT ![f].copy = [p \in Provider |->
                                 IF work[t].at = "uploaded" /\ p \in work[t].todo
                                   THEN work[t].copy[p] ELSE row[f].copy[p]],
                             ![f].stale = row[f].stale \ work[t].todo]
    /\ Ends(t)
    /\ UNCHANGED <<holds, remote, frozen>>

-----------------------------------------------------------------------------
(* cleanup_orphan_stored_file, for delete_file_from_history and              *)
(* delete_history_with_files ("remove"), for drafts ("discard") and for      *)
(* cleanup_due_orphan_stored_files ("retry").                                *)

\* The transaction goes on to another file, or commits.
Decides(t, w) ==
    \/ Becomes(t, [w EXCEPT !.at = "batch"]) /\ UNCHANGED <<row, holds, remote, frozen>>
    \/ /\ LET f == w.file
              left == IF w.kind = "retry" THEN holds
                      ELSE [holds EXCEPT ![w.holder] = 0]
          IN IF w.kind = "remove" /\ w.late
               THEN UNCHANGED <<row, holds>>
             ELSE IF w.verdict = "drop"
               THEN /\ row' = [row EXCEPT ![f] = NoRow]
                    /\ holds' = [h \in Holder |-> IF left[h] = f THEN 0 ELSE left[h]]
             ELSE IF w.verdict = "fail"
               THEN /\ row' = [row EXCEPT ![f].state = "delete_failed",
                                          ![f].copy = Without(row[f].copy, Named(w.copy) \ w.failed)]
                    /\ holds' = left
               ELSE /\ row' = [row EXCEPT ![f].state = "active"]
                    /\ holds' = left
       /\ Ends(t)
       /\ UNCHANGED <<remote, frozen>>

CleanUpStarts(t, kind, h, f, others) ==
    LET w == [Idle EXCEPT !.kind = kind, !.holder = h, !.file = f]
    IN IF Locked(t, f)
         THEN Freezes
       ELSE IF others # {}
         THEN Decides(t, [w EXCEPT !.verdict = "keep"])
       ELSE /\ Becomes(t, [w EXCEPT !.at = "deleting", !.copy = row[f].copy])
            /\ UNCHANGED <<row, holds, remote, frozen>>

RemoveStarts(t, h) ==
    /\ Starts(t, h) /\ holds[h] # 0
    /\ \E kind \in {"remove", "discard"} :
         CleanUpStarts(t, kind, h, holds[h], References(holds[h]) \ {h})

\* Slip: only rows whose deletion never failed are due.
DueOnce(f) == row[f].state = "pending_delete"
Due(f) == row[f].state \in {"pending_delete", "delete_failed"}

\* Housekeeping retries rows whose deletion was left; active ones it never visits.
RetryStarts ==
    /\ ~frozen /\ work[House].at = "idle" /\ "retry" \in Chores
    /\ \E f \in Rows :
         /\ Due(f)
         /\ CleanUpStarts(House, "retry", NoHolder, f, References(f))

\* delete_provider_files_for_stored_file.
CopiesGo(t) ==
    /\ work[t].at = "deleting"
    /\ \E bad \in MayFail("delete", Named(work[t].copy)) :
         /\ remote' = [p \in Provider |-> IF p \in bad THEN remote[p]
                                          ELSE remote[p] \ {work[t].copy[p]}]
         /\ Becomes(t, [work[t] EXCEPT !.at = "deleted", !.failed = bad])
    /\ UNCHANGED <<row, holds, frozen>>

CleanUpResumes(t) ==
    /\ ~frozen
    /\ \/ /\ work[t].at = "deleted"
          /\ Decides(t, [work[t] EXCEPT !.verdict = IF work[t].failed = {} THEN "drop" ELSE "fail"])
       \/ /\ work[t].at = "batch"
          /\ Decides(t, work[t])

-----------------------------------------------------------------------------
(* reconcile_attachment_remote_files and purge_stale_remote_attachment_files *)
(* read the ids of every active row, call the provider for one after the     *)
(* other, and write the rows they read at the end.                           *)

SweepStarts(kind) ==
    /\ ~frozen /\ work[House].at = "idle" /\ kind \in Chores
    /\ \E f \in Rows :
         LET read == IF kind = "purge" THEN Named(row[f].copy) \cap row[f].stale
                     ELSE Named(row[f].copy)
         IN /\ row[f].state = "active" /\ read # {}
            /\ Becomes(House, [Idle EXCEPT !.at = "sweeping", !.kind = kind, !.file = f,
                                 !.copy = Without(row[f].copy, Provider \ read),
                                 !.todo = read])
    /\ UNCHANGED <<row, holds, remote, frozen>>

\* A copy that is not there, or that was purged, is marked; a copy whose call fails, be
\* it a check or a deletion, is left as it was.
SweepCalls ==
    /\ ~frozen /\ work[House].at = "sweeping"
    /\ \E p \in work[House].todo :
         LET id == work[House].copy[p]
             marked == [work[House] EXCEPT !.todo = @ \ {p}, !.failed = @ \cup {p}]
             skipped == [work[House] EXCEPT !.todo = @ \ {p}]
         IN IF work[House].kind = "purge"
              THEN \/ /\ remote' = [remote EXCEPT ![p] = @ \ {id}]
                      /\ Becomes(House, marked)
                   \/ /\ "delete" \in Faults
                      /\ Becomes(House, skipped) /\ UNCHANGED remote
              ELSE /\ \/ Becomes(House, skipped)
                      \/ id \notin remote[p] /\ Becomes(House, marked)
                   /\ UNCHANGED remote
    /\ UNCHANGED <<row, holds, frozen>>

\* Updates by primary key: what a request wrote since is overwritten, and a row that
\* went away (StaleDataError) rolls everything back.
Unmarks(f, w) == row' = [row EXCEPT ![f].copy = Without(row[f].copy, w.failed)]

SweepEnds == ~frozen /\ work[House].at = "sweeping" /\ work[House].todo = {}

SweepCommits ==
    /\ SweepEnds
    /\ work[House].failed = {} \/ ~Deleted(House, work[House].file)
    /\ IF Present(work[House].file)
         THEN Unmarks(work[House].file, work[House])
         ELSE UNCHANGED row
    /\ Ends(House)
    /\ UNCHANGED <<holds, remote, frozen>>

\* Writing the copies of a row that another transaction has written.
CopiesBlock(t) ==
    /\ \/ t \in Request /\ MayDispatch(t)
       \/ t = House /\ SweepEnds /\ work[House].failed # {}
    /\ Flushed(t, work[t].file)
    /\ Freezes

-----------------------------------------------------------------------------
(* The world. *)

Ages(f, p) ==
    /\ "purge" \in Chores
    /\ row[f].copy[p] # 0 /\ p \notin row[f].stale
    /\ row' = [row EXCEPT ![f].stale = @ \cup {p}]
    /\ UNCHANGED <<holds, remote, work, frozen>>

Vanishes(p) ==
    /\ "vanish" \in Faults
    /\ \E n \in remote[p] : remote' = [remote EXCEPT ![p] = @ \ {n}]
    /\ UNCHANGED <<row, holds, work, frozen>>

Expires(t) ==
    /\ "timeout" \in Faults
    /\ work[t].kind \in {"attach", "send", "remove"} /\ ~work[t].late
    /\ Becomes(t, [work[t] EXCEPT !.late = TRUE])
    /\ UNCHANGED <<row, holds, remote, frozen>>

\* What the calls of a coroutine that dies have done by then.
Abandoned(t, then) ==
    CASE work[t].at = "uploading" ->
           \E landed \in SUBSET work[t].todo :
           \E new \in Copies :
             /\ \A p \in Provider : IF p \in landed THEN new[p] \in NewCopy(t, p) ELSE new[p] = 0
             /\ then = [p \in Provider |-> remote[p] \cup ({new[p]} \ {0})]
      [] work[t].at \in {"deleting", "undoing"} ->
           \E done \in SUBSET Named(work[t].copy) :
             then = [p \in Provider |-> IF p \in done THEN remote[p] \ {work[t].copy[p]}
                                        ELSE remote[p]]
      [] OTHER -> then = remote

\* asyncio.wait_for cancels the request; its transaction is rolled back.
TimesOut(t) ==
    /\ ~frozen
    /\ work[t].kind \in {"attach", "send", "remove"} /\ work[t].late
    /\ Abandoned(t, remote')
    /\ Ends(t)
    /\ UNCHANGED <<row, holds, frozen>>

\* The process dies and is started again.
Restarts ==
    /\ "crash" \in Faults
    /\ \E t \in Task : work[t].at # "idle" /\ Abandoned(t, remote')
    /\ work' = [t \in Task |-> Idle]
    /\ frozen' = FALSE
    /\ UNCHANGED <<row, holds>>

-----------------------------------------------------------------------------

RequestNext(t) ==
    \/ \E h \in Holder :
         \/ AttachKnown(t, h) \/ AttachNew(t, h) \/ RemoveStarts(t, h)
         \/ \E p \in Provider : SendStarts(t, h, p)
    \/ AttachResumes(t) \/ Undoes(t)
    \/ SendReuploads(t) \/ SendFails(t) \/ SendUndoes(t) \/ Dispatches(t)
    \/ TimesOut(t)

HouseNext ==
    \/ RetryStarts
    \/ \E kind \in {"reconcile", "purge"} : SweepStarts(kind)
    \/ SweepCalls \/ SweepCommits

ProviderNext(t) == CopiesArrive(t) \/ CheckAnswers(t) \/ CopiesGo(t)

World ==
    \/ Restarts
    \/ \E p \in Provider : Vanishes(p) \/ \E f \in File : Ages(f, p)
    \/ \E t \in Request : Expires(t)

Next ==
    \/ \E t \in Request : RequestNext(t)
    \/ \E t \in Task : ProviderNext(t) \/ CleanUpResumes(t) \/ CopiesBlock(t)
    \/ HouseNext
    \/ World

Spec == Init /\ [][Next]_vars

\* The loop runs every coroutine that can go on, and the providers answer; the deletions
\* housekeeping asks for do not fail for ever, and when they have not, the process is not
\* killed each time before it commits.
Fairness ==
    /\ \A t \in Request :
         /\ WF_vars(AttachResumes(t)) /\ WF_vars(Undoes(t))
         /\ WF_vars(SendReuploads(t) \/ SendFails(t) \/ SendUndoes(t) \/ Dispatches(t))
         /\ WF_vars(TimesOut(t)) /\ WF_vars(Expires(t))
    /\ \A t \in Task : WF_vars(ProviderNext(t)) /\ WF_vars(CleanUpResumes(t))
    /\ SF_vars(CopiesGo(House) /\ work'[House].failed = {})
    /\ SF_vars(CleanUpResumes(House) /\ work[House].failed = {} /\ work'[House] = Idle)
    /\ WF_vars(RetryStarts) /\ WF_vars(SweepCalls) /\ WF_vars(SweepCommits)

FairSpec == Spec /\ Fairness

-----------------------------------------------------------------------------

\* A row is active exactly while something is attached to it: reconciliation, purge and
\* sends pass over the others, and housekeeping retries only those that are not active,
\* so an active row nothing is attached to would keep its bytes for ever.
ActiveIffAttached ==
    /\ \A h \in Holder : holds[h] # 0 => row[holds[h]].state = "active"
    /\ \A f \in Rows : References(f) = {} => row[f].state = "delete_failed"

\* Whether the row names a copy, or a coroutine is about to record or to delete it.
Tracked(p, n) ==
    \/ \E f \in File : row[f].copy[p] = n
    \/ \E t \in Task : work[t].copy[p] = n
CopiesAreTracked == \A p \in Provider : \A n \in remote[p] : Tracked(p, n)

\* A turn that is dispatched names copies the provider has.
DispatchIsFounded ==
    \A t \in Request : Dispatches(t) =>
        \A p \in work[t].todo : work[t].copy[p] \in remote[p]

\* A blob nothing is attached to goes in the end, or is taken up again, whatever calls
\* fail, time out or are rolled back on the way (workers/chat_attachment_cleanup.py).
OrphansGo ==
    \A f \in File : (Present(f) /\ References(f) = {})
                      ~> (~Present(f) \/ References(f) # {} \/ frozen)

\* Every request is answered, within the timeout of its operation.
EveryRequestEnds == \A t \in Request : (work[t].at # "idle") ~> (work[t].at = "idle")

-----------------------------------------------------------------------------

Attached == {h \in Holder : holds[h] # 0}
Shared == INSTANCE SharedFile WITH attached <- Attached, kept <- (Rows # {})

\* No attachment is lost to a deletion that was under way when it was made, and no bytes
\* go while something is attached: the rows keep the promise of SharedFile.
KeepsWhatIsAttached == Shared!SharedSpec
=============================================================================
