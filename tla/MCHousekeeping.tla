----------------------------- MODULE MCHousekeeping -----------------------------
(***************************************************************************)
(* An instance of BlankPageUploads for TLC, and beside it one of           *)
(* StoredFiles in which everything may fail: what is left behind by        *)
(* uploads and by deletions, and is housekeeping's to clear up.            *)
(* The run takes the two in turn; they share no state but the loop.        *)
(***************************************************************************)
EXTENDS BlankPageUploads

CONSTANTS
    Holder, Provider, Keyed, Request, House, NoHolder, MaxFile, MaxCopy

VARIABLES part, row, holds, remote, work

files == <<row, holds, remote, work, frozen>>

Files ==
    INSTANCE StoredFiles WITH
        Request <- Request, Chores <- {"reconcile", "purge", "retry"},
        Faults <- {"upload", "delete", "vanish", "timeout", "crash"}

HousekeepingInit == part \in {"uploads", "files"} /\ Init /\ Files!Init

UploadsNext == part = "uploads" /\ Next /\ UNCHANGED <<part, row, holds, remote, work>>

FilesNext ==
    /\ part = "files" /\ Files!Next
    /\ UNCHANGED <<part, operation, draft, history, at, reply, house>>

HousekeepingNext == UploadsNext \/ FilesNext

HousekeepingSpec ==
    /\ HousekeepingInit
    /\ [][HousekeepingNext]_<<part, vars, files>>
    /\ \/ part = "uploads" /\ Fairness
       \/ part = "files" /\ Files!Fairness

OrphansGo == Files!OrphansGo
=============================================================================
