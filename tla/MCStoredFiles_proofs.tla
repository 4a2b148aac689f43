-------------------------- MODULE MCStoredFiles_proofs --------------------------
(***************************************************************************)
(* The two properties of the parts of MCStoredFiles, for any values of its *)
(* constants: a part makes the steps of StoredFiles with fewer faults or   *)
(* chores, or with other providers, so what StoredFiles_proofs proves of   *)
(* every constant holds in it.                                             *)
(***************************************************************************)
EXTENDS MCStoredFiles, TLAPS

\* The theorems about each of the two parts.  No operator's tool runs.
InTimeProved ==
    INSTANCE StoredFiles_proofs WITH
        Faults <- Faults \ {"timeout", "vanish"}, Chores <- Chores \ {"purge"},
        Commands <- {}, tool <- 0, alone <- TRUE

UploadingProved ==
    INSTANCE StoredFiles_proofs WITH
        Provider <- CopyProvider, Keyed <- CopyKeyed,
        Faults <- {"upload"}, Chores <- Chores \ {"purge"},
        Commands <- {}, tool <- 0, alone <- TRUE

-----------------------------------------------------------------------------
(* The parts make the steps the theorems are about *)

LEMMA InTimeConstants ==
    /\ House \notin Request /\ NoHolder \notin Holder
    /\ Keyed \subseteq Provider
    /\ Chores \ {"purge"} \subseteq {"reconcile", "purge", "retry"}
    /\ Faults \ {"timeout", "vanish"} \subseteq {"upload", "delete", "vanish", "timeout", "crash"}
    /\ MaxFile \in Nat \ {0} /\ MaxCopy \in Nat /\ MaxFile <= MaxCopy
BY StoredFilesAssumption

LEMMA UploadingConstants ==
    /\ House \notin Request /\ NoHolder \notin Holder
    /\ CopyKeyed \subseteq CopyProvider
    /\ Chores \ {"purge"} \subseteq {"reconcile", "purge", "retry"}
    /\ {"upload"} \subseteq {"upload", "delete", "vanish", "timeout", "crash"}
    /\ MaxFile \in Nat \ {0} /\ MaxCopy \in Nat /\ MaxFile <= MaxCopy
BY StoredFilesAssumption, CopyAssumption

LEMMA NoCommands == {} \subseteq {"reconcile", "filename", "file_id"}
OBVIOUS

LEMMA InTimeStarts == Init <=> InTimeProved!Init
BY DEF
   Init, InTimeProved!Init, File, InTimeProved!File, Task,
   InTimeProved!Task, NoCopies, InTimeProved!NoCopies, NoRow,
   InTimeProved!NoRow, Idle, InTimeProved!Idle

LEMMA InTimeSteps == InTime!Next <=> InTimeProved!Next
BY DEF
   InTime!File, InTimeProved!File, InTime!Task, InTimeProved!Task, InTime!Copies,
   InTimeProved!Copies, InTime!NoCopies, InTimeProved!NoCopies, InTime!StoredFile,
   InTimeProved!StoredFile, InTime!NoRow, InTimeProved!NoRow, InTime!Work,
   InTimeProved!Work, InTime!Idle, InTimeProved!Idle, InTime!Present,
   InTimeProved!Present, InTime!Rows, InTimeProved!Rows, InTime!References,
   InTimeProved!References, InTime!Locks, InTimeProved!Locks, InTime!Locked,
   InTimeProved!Locked, InTime!Deleted, InTimeProved!Deleted, InTime!Flushed,
   InTimeProved!Flushed, InTime!Leased, InTimeProved!Leased, InTime!Starts,
   InTimeProved!Starts, InTime!Becomes, InTimeProved!Becomes, InTime!Suspends,
   InTimeProved!Suspends, InTime!Ends, InTimeProved!Ends, InTime!Freezes,
   InTimeProved!Freezes, InTime!Current, InTimeProved!Current, InTime!MayFail,
   InTimeProved!MayFail, InTime!Named, InTimeProved!Named, InTime!Without,
   InTimeProved!Without, InTime!FreshFile, InTimeProved!FreshFile, InTime!FreeCopies,
   InTimeProved!FreeCopies, InTime!NewCopy, InTimeProved!NewCopy, InTime!Reuses,
   InTimeProved!Reuses, InTime!AttachKnown, InTimeProved!AttachKnown, InTime!AttachNew,
   InTimeProved!AttachNew, InTime!CopiesArrive, InTimeProved!CopiesArrive,
   InTime!UndoesCopies, InTimeProved!UndoesCopies, InTime!AttachResumes,
   InTimeProved!AttachResumes, InTime!Undoes, InTimeProved!Undoes, InTime!SendStarts,
   InTimeProved!SendStarts, InTime!CheckAnswers, InTimeProved!CheckAnswers,
   InTime!SendReuploads, InTimeProved!SendReuploads, InTime!SendFails,
   InTimeProved!SendFails, InTime!NewlyUploaded, InTimeProved!NewlyUploaded,
   InTime!SendUndoes, InTimeProved!SendUndoes,
   InTime!MayDispatch, InTimeProved!MayDispatch, InTime!Dispatches,
   InTimeProved!Dispatches, InTime!Decides, InTimeProved!Decides, InTime!CleanUpStarts,
   InTimeProved!CleanUpStarts, InTime!RemoveStarts, InTimeProved!RemoveStarts,
   InTime!Due, InTimeProved!Due, InTime!RetryStarts, InTimeProved!RetryStarts,
   InTime!CopiesGo, InTimeProved!CopiesGo, InTime!CleanUpResumes,
   InTimeProved!CleanUpResumes, InTime!SweepStarts, InTimeProved!SweepStarts,
   InTime!SweepCalls, InTimeProved!SweepCalls, InTime!Unmarks, InTimeProved!Unmarks,
   InTime!SweepEnds, InTimeProved!SweepEnds, InTime!SweepCommits,
   InTimeProved!SweepCommits, InTime!CopiesBlock, InTimeProved!CopiesBlock, InTime!Ages,
   InTimeProved!Ages, InTime!Vanishes, InTimeProved!Vanishes, InTime!Expires,
   InTimeProved!Expires, InTime!Abandoned, InTimeProved!Abandoned, InTime!TimesOut,
   InTimeProved!TimesOut, InTime!Restarts, InTimeProved!Restarts, InTime!RequestNext,
   InTimeProved!RequestNext, InTime!HouseNext, InTimeProved!HouseNext,
   InTime!ProviderNext, InTimeProved!ProviderNext, InTime!World, InTimeProved!World,
   InTime!Next, InTimeProved!Next

LEMMA UploadingStarts == Uploading!Init <=> UploadingProved!Init
BY DEF
   Uploading!Init, UploadingProved!Init, Uploading!File, UploadingProved!File,
   Uploading!Task, UploadingProved!Task, Uploading!NoCopies, UploadingProved!NoCopies,
   Uploading!NoRow, UploadingProved!NoRow, Uploading!Idle, UploadingProved!Idle

LEMMA UploadingSteps == Uploading!Next <=> UploadingProved!Next
BY DEF
   Uploading!File, UploadingProved!File, Uploading!Task, UploadingProved!Task,
   Uploading!Copies, UploadingProved!Copies, Uploading!NoCopies,
   UploadingProved!NoCopies, Uploading!StoredFile, UploadingProved!StoredFile,
   Uploading!NoRow, UploadingProved!NoRow, Uploading!Work, UploadingProved!Work,
   Uploading!Idle, UploadingProved!Idle, Uploading!Present, UploadingProved!Present,
   Uploading!Rows, UploadingProved!Rows, Uploading!References,
   UploadingProved!References, Uploading!Locks, UploadingProved!Locks, Uploading!Locked,
   UploadingProved!Locked, Uploading!Deleted, UploadingProved!Deleted,
   Uploading!Flushed, UploadingProved!Flushed, Uploading!Leased, UploadingProved!Leased,
   Uploading!Starts, UploadingProved!Starts, Uploading!Becomes, UploadingProved!Becomes,
   Uploading!Suspends, UploadingProved!Suspends, Uploading!Ends, UploadingProved!Ends,
   Uploading!Freezes, UploadingProved!Freezes, Uploading!Current,
   UploadingProved!Current, Uploading!MayFail, UploadingProved!MayFail, Uploading!Named,
   UploadingProved!Named, Uploading!Without, UploadingProved!Without,
   Uploading!FreshFile, UploadingProved!FreshFile, Uploading!FreeCopies,
   UploadingProved!FreeCopies, Uploading!NewCopy, UploadingProved!NewCopy,
   Uploading!Reuses, UploadingProved!Reuses, Uploading!AttachKnown,
   UploadingProved!AttachKnown, Uploading!AttachNew, UploadingProved!AttachNew,
   Uploading!CopiesArrive, UploadingProved!CopiesArrive, Uploading!UndoesCopies,
   UploadingProved!UndoesCopies, Uploading!AttachResumes, UploadingProved!AttachResumes,
   Uploading!Undoes, UploadingProved!Undoes, Uploading!SendStarts,
   UploadingProved!SendStarts, Uploading!CheckAnswers, UploadingProved!CheckAnswers,
   Uploading!SendReuploads, UploadingProved!SendReuploads, Uploading!SendFails,
   UploadingProved!SendFails, Uploading!NewlyUploaded, UploadingProved!NewlyUploaded,
   Uploading!SendUndoes, UploadingProved!SendUndoes,
   Uploading!MayDispatch, UploadingProved!MayDispatch, Uploading!Dispatches,
   UploadingProved!Dispatches, Uploading!Decides, UploadingProved!Decides,
   Uploading!CleanUpStarts, UploadingProved!CleanUpStarts, Uploading!RemoveStarts,
   UploadingProved!RemoveStarts, Uploading!Due, UploadingProved!Due,
   Uploading!RetryStarts, UploadingProved!RetryStarts, Uploading!CopiesGo,
   UploadingProved!CopiesGo, Uploading!CleanUpResumes, UploadingProved!CleanUpResumes,
   Uploading!SweepStarts, UploadingProved!SweepStarts, Uploading!SweepCalls,
   UploadingProved!SweepCalls, Uploading!Unmarks, UploadingProved!Unmarks,
   Uploading!SweepEnds, UploadingProved!SweepEnds, Uploading!SweepCommits,
   UploadingProved!SweepCommits, Uploading!CopiesBlock, UploadingProved!CopiesBlock,
   Uploading!Ages, UploadingProved!Ages, Uploading!Vanishes, UploadingProved!Vanishes,
   Uploading!Expires, UploadingProved!Expires, Uploading!Abandoned,
   UploadingProved!Abandoned, Uploading!TimesOut, UploadingProved!TimesOut,
   Uploading!Restarts, UploadingProved!Restarts, Uploading!RequestNext,
   UploadingProved!RequestNext, Uploading!HouseNext, UploadingProved!HouseNext,
   Uploading!ProviderNext, UploadingProved!ProviderNext, Uploading!World,
   UploadingProved!World, Uploading!Next, UploadingProved!Next

-----------------------------------------------------------------------------
(* What the parts keep *)

InTimeInv ==
    part = "in_time" =>
        InTimeProved!FilesInv /\ InTimeProved!Apart /\ InTimeProved!Founded

UploadingInv ==
    part = "uploads" =>
        /\ UploadingProved!FilesInv /\ UploadingProved!Apart /\ UploadingProved!Founded
        /\ UploadingProved!Followed

LEMMA InTimeInvStarts == PartsInit => InTimeInv
<1> SUFFICES ASSUME PartsInit, part = "in_time"
             PROVE  InTimeProved!FilesInv /\ InTimeProved!Apart /\ InTimeProved!Founded
  BY DEF InTimeInv
<1>1. InTimeProved!Init
  BY InTimeStarts DEF PartsInit
<1>2. InTimeProved!FilesInv
  BY <1>1, InTimeConstants, NoCommands, InTimeProved!InitFilesInv
<1>3. InTimeProved!Apart /\ InTimeProved!Founded
  BY <1>1, InTimeConstants, NoCommands, InTimeProved!InitApart, InTimeProved!InitFounded
<1> QED BY <1>2, <1>3

LEMMA InTimeInvKept == InTimeInv /\ [PartsNext]_<<part, vars>> => InTimeInv'
<1> SUFFICES ASSUME InTimeInv, [PartsNext]_<<part, vars>>, part' = "in_time"
             PROVE  (InTimeProved!FilesInv /\ InTimeProved!Apart /\ InTimeProved!Founded)'
  BY DEF InTimeInv
<1>1. part = "in_time" /\ (InTime!Next \/ UNCHANGED vars)
  BY DEF PartsNext
<1>2. InTimeProved!FilesInv /\ InTimeProved!Apart /\ InTimeProved!Founded
  BY <1>1 DEF InTimeInv
<1>3. InTimeProved!Next \/ UNCHANGED InTimeProved!vars
  BY <1>1, InTimeSteps DEF vars, InTimeProved!vars
<1>4. InTimeProved!FilesInv'
  BY <1>2, <1>3, InTimeConstants, NoCommands, InTimeProved!StepKeepsFilesInv
     DEF InTimeProved!Keeps
<1>5. InTimeProved!Apart'
  BY <1>2, <1>3, InTimeConstants, NoCommands, InTimeProved!ApartInductive
<1>6. InTimeProved!Founded'
  BY <1>2, <1>3, InTimeConstants, NoCommands, InTimeProved!FoundedInductive
<1> QED BY <1>4, <1>5, <1>6

LEMMA UploadingInvStarts == PartsInit => UploadingInv
<1> SUFFICES ASSUME PartsInit, part = "uploads"
             PROVE  /\ UploadingProved!FilesInv /\ UploadingProved!Apart
                    /\ UploadingProved!Founded /\ UploadingProved!Followed
  BY DEF UploadingInv
<1>1. UploadingProved!Init
  BY UploadingStarts DEF PartsInit
<1>2. UploadingProved!FilesInv
  BY <1>1, UploadingConstants, NoCommands, UploadingProved!InitFilesInv
<1>3. UploadingProved!Apart /\ UploadingProved!Founded /\ UploadingProved!Followed
  BY <1>1, UploadingConstants, NoCommands, UploadingProved!InitApart,
     UploadingProved!InitFounded, UploadingProved!InitFollowed
<1> QED BY <1>2, <1>3

LEMMA UploadingInvKept == UploadingInv /\ [PartsNext]_<<part, vars>> => UploadingInv'
<1> SUFFICES ASSUME UploadingInv, [PartsNext]_<<part, vars>>, part' = "uploads"
             PROVE  (/\ UploadingProved!FilesInv /\ UploadingProved!Apart
                     /\ UploadingProved!Founded /\ UploadingProved!Followed)'
  BY DEF UploadingInv
<1>1. part = "uploads" /\ (Uploading!Next \/ UNCHANGED vars)
  BY DEF PartsNext
<1>2. /\ UploadingProved!FilesInv /\ UploadingProved!Apart
      /\ UploadingProved!Founded /\ UploadingProved!Followed
  BY <1>1 DEF UploadingInv
<1>3. UploadingProved!Next \/ UNCHANGED UploadingProved!vars
  BY <1>1, UploadingSteps DEF vars, UploadingProved!vars
<1>4. UploadingProved!FilesInv'
  BY <1>2, <1>3, UploadingConstants, NoCommands, UploadingProved!StepKeepsFilesInv
     DEF UploadingProved!Keeps
<1>5. UploadingProved!Apart'
  BY <1>2, <1>3, UploadingConstants, NoCommands, UploadingProved!ApartInductive
<1>6. UploadingProved!Founded'
  BY <1>2, <1>3, UploadingConstants, NoCommands, UploadingProved!FoundedInductive
<1>7. UploadingProved!Followed'
  BY <1>2, <1>3, UploadingConstants, NoCommands, UploadingProved!FollowedInductive
     DEF UploadingProved!OnlyUploadsFail
<1> QED BY <1>4, <1>5, <1>6, <1>7

\* The run's invariant, for any providers whose uploads fail: a copy at a provider is one
\* that a row names, or that a coroutine is about to record or to delete
\* (service.py:58-170, storage.py:92-160).
THEOREM NothingIsForgotten == PartsSpec => []NoCopyIsForgotten
<1>1. UploadingInv => NoCopyIsForgotten
  <2> SUFFICES ASSUME UploadingInv, part = "uploads" PROVE Uploading!CopiesAreTracked
    BY DEF NoCopyIsForgotten
  <2>1. UploadingProved!CopiesAreTracked
    BY UploadingConstants, NoCommands, UploadingProved!FollowedTracks DEF UploadingInv
  <2> QED BY <2>1 DEF UploadingProved!CopiesAreTracked, UploadingProved!Tracked,
            UploadingProved!File, UploadingProved!Task, Uploading!CopiesAreTracked,
            Uploading!Tracked, Uploading!File, Uploading!Task
<1> QED BY <1>1, UploadingInvStarts, UploadingInvKept, PTL DEF PartsSpec

\* The run's action property, whatever else fails and however the process is restarted: a
\* turn is dispatched with copies the provider has (service.py:172-309).
THEOREM NothingMissingIsDispatched == PartsSpec => DispatchedCopyIsThere
<1>1. InTimeInv => (part = "in_time" => DispatchIsFounded)
  <2> SUFFICES ASSUME InTimeInv, part = "in_time" PROVE DispatchIsFounded
    OBVIOUS
  <2>1. InTimeProved!Founded
    BY DEF InTimeInv
  <2>2. InTimeProved!DispatchIsFounded
    BY <2>1, InTimeConstants, NoCommands, InTimeProved!FoundedDispatches
  <2>3. ASSUME NEW t \in Request, Dispatches(t) PROVE InTimeProved!Dispatches(t)
    BY <2>3 DEF Dispatches, MayDispatch, Current, Present, Deleted, Task, Ends, Becomes, Idle,
         NoCopies, InTimeProved!Dispatches, InTimeProved!MayDispatch, InTimeProved!Current,
         InTimeProved!Present, InTimeProved!Deleted, InTimeProved!Task, InTimeProved!Ends,
         InTimeProved!Becomes, InTimeProved!Idle, InTimeProved!NoCopies
  <2> QED BY <2>2, <2>3 DEF DispatchIsFounded, InTimeProved!DispatchIsFounded
<1> QED BY <1>1, InTimeInvStarts, InTimeInvKept, PTL DEF PartsSpec, DispatchedCopyIsThere

=============================================================================
