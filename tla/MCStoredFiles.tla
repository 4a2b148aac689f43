----------------------------- MODULE MCStoredFiles -----------------------------
(***************************************************************************)
(* Instances of StoredFiles for TLC, which the run takes in turn: one in   *)
(* which whatever may fail fails, operations expire and the process is     *)
(* restarted; one in which every operation ends in its time; and one with  *)
(* two providers in which uploads fail and nothing else does.              *)
(***************************************************************************)
EXTENDS StoredFiles, TLC

CONSTANTS CopyProvider, CopyKeyed  \* the providers of the last

ASSUME CopyAssumption == CopyKeyed \subseteq CopyProvider

VARIABLE part

\* Nothing but what the application does takes a copy away from a send.
InTime ==
    INSTANCE StoredFiles WITH
        Faults <- Faults \ {"timeout", "vanish"}, Chores <- Chores \ {"purge"}

Uploading ==
    INSTANCE StoredFiles WITH
        Provider <- CopyProvider, Keyed <- CopyKeyed,
        Faults <- {"upload"}, Chores <- Chores \ {"purge"}

PartsInit == \/ part \in {"faults", "in_time"} /\ Init
             \/ part = "uploads" /\ Uploading!Init

PartsNext ==
    /\ \/ part = "faults" /\ Next
       \/ part = "in_time" /\ InTime!Next
       \/ part = "uploads" /\ Uploading!Next
    /\ UNCHANGED part

PartsSpec == PartsInit /\ [][PartsNext]_<<part, vars>>

\* A copy at a provider stays one that a row names, or that a coroutine is about to
\* record or to delete, whatever uploads fail and attachments lose to one another, as
\* long as the calls that delete copies succeed: nothing ever deletes another copy
\* (service.py:58-170, storage.py:92-160).
NoCopyIsForgotten == part = "uploads" => Uploading!CopiesAreTracked

\* As long as no operation outlives its deadline, no copy vanishes by itself and none is
\* purged, a turn is dispatched with the id of a copy the provider has, whatever deletions
\* and restarts come between: the send has verified the id of the row, or uploaded a copy
\* of its own.
DispatchedCopyIsThere == [][part = "in_time" => DispatchIsFounded]_<<part, vars>>

Symmetry == Permutations(Holder) \cup Permutations(Request)
=============================================================================
