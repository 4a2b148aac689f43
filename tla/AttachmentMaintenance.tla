------------------------ MODULE AttachmentMaintenance ------------------------
(***************************************************************************)
(* app/maintenance/attachment_provider_files.py, run by an operator in a   *)
(* process of its own while the application serves requests: it compares   *)
(* the ids in the database with what the providers list, and mends what    *)
(* differs; or it deletes the copies of a file name, or one copy.          *)
(*                                                                         *)
(* The tool takes no lock and no lease.  The database is read in one       *)
(* statement, a listing is taken as one instant, and each call of a        *)
(* provider or transaction is a step.                                      *)
(***************************************************************************)
EXTENDS StoredFiles

CONSTANT Commands  \* what the operator runs: reconcile, filename, file_id

ASSUME MaintenanceAssumption == Commands \subseteq {"reconcile", "filename", "file_id"}

VARIABLES
    tool,   \* what the running command has read, and what is left of it
    alone   \* nothing else has taken a step since it started (history)

maintenanceVars == <<row, holds, remote, work, frozen, tool, alone>>

Ids == [Provider -> SUBSET (1 .. MaxCopy)]
NoIds == [p \in Provider |-> {}]

\* scope: the providers asked for, providers: those not listed yet; refs: the ids of the
\* database; listed: those of the providers.  clears and deletes are what the command is
\* still to do, errors whether a call has failed.
Tool ==
    [at : {"idle", "reading", "listing", "clearing", "deleting", "done"},
     command : {"reconcile", "filename", "file_id"},
     scope : SUBSET Provider, providers : SUBSET Provider,
     refs : Ids, listed : Ids, clears : Ids, deletes : Ids, errors : BOOLEAN]
Unused ==
    [at |-> "idle", command |-> "reconcile", scope |-> {}, providers |-> {},
     refs |-> NoIds, listed |-> NoIds, clears |-> NoIds, deletes |-> NoIds,
     errors |-> FALSE]

MaintenanceTypeOK ==
    /\ tool \in Tool
    /\ alone \in BOOLEAN

MaintenanceInit == Init /\ tool = Unused /\ alone = FALSE

\* list_all_db_provider_states: of every row, whatever its state.
Recorded(p) == {row[f].copy[p] : f \in File} \ {0}

IdsOf(providers, ids) == [p \in Provider |-> IF p \in providers THEN ids[p] ELSE {}]

ToolBecomes(w) == tool' = w /\ UNCHANGED <<row, holds, work, frozen>>
Pending(ids) == {p \in Provider : ids[p] # {}}

-----------------------------------------------------------------------------
(* reconcile-consistency --apply *)

\* _collect_consistency_state reads the database first, and lists after it.
ReadsDatabase ==
    /\ tool.at = "reading"
    /\ ToolBecomes([tool EXCEPT !.at = "listing",
                      !.refs = IdsOf(tool.providers, [p \in Provider |-> Recorded(p)])])
    /\ UNCHANGED <<remote, alone>>

Dangling(listed) == [p \in Provider |-> tool.refs[p] \ listed[p]]
\* Slip: the ids of all providers are thrown together.
UnrecordedAnywhere(listed) ==
    [p \in Provider |-> listed[p] \ UNION {tool.refs[q] : q \in Provider}]
Unrecorded(listed) == [p \in Provider |-> listed[p] \ tool.refs[p]]

\* Slip: the first page only.
FirstPage(p) == {n \in remote[p] : \A m \in remote[p] : n <= m}
\* _collect_remote_files without max_items.
Listing(p) == remote[p]

\* One provider after the other, to the last page.  What only one side has is planned
\* once all are listed: a reference whose copy is not listed is to be cleared, a copy
\* no reference named is to be deleted.
ListsProvider(p) ==
    /\ tool.at = "listing" /\ tool.command = "reconcile"
    /\ p \in tool.providers
    /\ LET listed == [tool.listed EXCEPT ![p] = Listing(p)]
           rest == tool.providers \ {p}
       IN ToolBecomes([tool EXCEPT
            !.at = IF rest = {} THEN "clearing" ELSE "listing",
            !.providers = rest,
            !.listed = listed,
            !.clears = IF rest = {} THEN Dangling(listed) ELSE @,
            !.deletes = IF rest = {} THEN Unrecorded(listed) ELSE @])
    /\ UNCHANGED <<remote, alone>>

\* clear_db_provider_refs: whatever row has one of the ids now.
Cleared(p, ids) ==
    [f \in File |-> IF row[f].copy[p] \in ids THEN [row[f] EXCEPT !.copy = Without(@, {p})]
                    ELSE row[f]]

\* The update waits, in its own process, for a row another transaction has deleted.
BeingDeleted(f) ==
    \E t \in Task : work[t].at = "batch" /\ work[t].verdict = "drop" /\ work[t].file = f

NextProvider == IF tool.providers = {} THEN "done" ELSE "listing"

ClearsReferences(p) ==
    /\ tool.at = "clearing"
    /\ tool.clears[p] # {}
    /\ \A f \in File : row[f].copy[p] \in tool.clears[p] => ~BeingDeleted(f)
    /\ row' = Cleared(p, tool.clears[p])
    /\ tool' = [tool EXCEPT !.clears[p] = {},
                            !.at = IF tool.command = "reconcile" THEN @ ELSE NextProvider]
    /\ UNCHANGED <<holds, remote, work, frozen, alone>>

NothingToClear ==
    /\ tool.at = "clearing" /\ tool.command = "reconcile" /\ Pending(tool.clears) = {}
    /\ ToolBecomes([tool EXCEPT !.at = "deleting"])
    /\ UNCHANGED <<remote, alone>>

\* A deletion that fails, also because the copy is gone, is reported and passed over;
\* GCS does not mind a copy that is gone.
DeletesOrphan(p) ==
    /\ tool.at = "deleting" /\ tool.command = "reconcile"
    /\ \E n \in tool.deletes[p] :
         \/ /\ n \in remote[p] \cup {m \in 1 .. MaxCopy : p \in Keyed}
            /\ remote' = [remote EXCEPT ![p] = @ \ {n}]
            /\ ToolBecomes([tool EXCEPT !.deletes[p] = @ \ {n}])
         \/ /\ \/ n \notin remote[p] /\ p \notin Keyed
               \/ "delete" \in Faults
            /\ ToolBecomes([tool EXCEPT !.deletes[p] = @ \ {n}, !.errors = TRUE])
            /\ UNCHANGED remote
    /\ UNCHANGED alone

NothingToDelete ==
    /\ tool.at = "deleting" /\ tool.command = "reconcile" /\ Pending(tool.deletes) = {}
    /\ ToolBecomes([tool EXCEPT !.at = "done"])
    /\ UNCHANGED <<remote, alone>>

-----------------------------------------------------------------------------
(* cleanup-filename and cleanup-file-id *)

\* The copies of a provider with the name: the contents of one name are not told apart,
\* and a copy may have been uploaded under another.
ListsByName(p) ==
    /\ tool.at = "listing" /\ tool.command = "filename"
    /\ p \in tool.providers
    /\ \E named \in SUBSET Listing(p) :
         ToolBecomes([tool EXCEPT
            !.providers = @ \ {p},
            !.deletes = [@ EXCEPT ![p] = named], !.clears = [@ EXCEPT ![p] = named],
            !.at = IF named # {} THEN "deleting"
                   ELSE IF tool.providers = {p} THEN "done" ELSE "listing"])
    /\ UNCHANGED <<remote, alone>>

\* Here a failure ends the command: the references of the copies deleted so far stay.
\* With --skip-db-clear they stay in any case.
DeletesCopy(p) ==
    /\ tool.at = "deleting" /\ tool.command # "reconcile"
    /\ \E n \in tool.deletes[p] :
         \/ /\ n \in remote[p] \cup {m \in 1 .. MaxCopy : p \in Keyed}
            /\ remote' = [remote EXCEPT ![p] = @ \ {n}]
            /\ \/ /\ tool.deletes[p] # {n}
                  /\ ToolBecomes([tool EXCEPT !.deletes[p] = @ \ {n}])
               \/ /\ tool.deletes[p] = {n}
                  /\ ToolBecomes([tool EXCEPT !.deletes[p] = {}, !.at = "clearing"])
               \/ /\ tool.deletes[p] = {n}
                  /\ ToolBecomes([tool EXCEPT !.deletes[p] = {}, !.clears[p] = {},
                                              !.at = NextProvider])
         \/ /\ \/ n \notin remote[p] /\ p \notin Keyed
               \/ "delete" \in Faults
            /\ ToolBecomes([tool EXCEPT !.at = "done", !.errors = TRUE])
            /\ UNCHANGED remote
    /\ UNCHANGED alone

-----------------------------------------------------------------------------

Starting(command, providers) ==
    /\ tool.at = "idle" /\ command \in Commands
    /\ alone' = \A t \in Task : work[t].at = "idle"

RunsReconcile ==
    /\ \E providers \in {Provider} \cup {{p} : p \in Provider} :
         /\ Starting("reconcile", providers)
         /\ ToolBecomes([Unused EXCEPT !.at = "reading", !.scope = providers,
                                       !.providers = providers])
    /\ UNCHANGED remote

RunsFilename ==
    /\ Starting("filename", Provider)
    /\ ToolBecomes([Unused EXCEPT !.at = "listing", !.command = "filename",
                                  !.providers = Provider])
    /\ UNCHANGED remote

RunsFileId(p) ==
    /\ \E n \in 1 .. MaxCopy :
         /\ Starting("file_id", {p})
         /\ n \in remote[p] \cup Recorded(p)
         /\ ToolBecomes([Unused EXCEPT !.at = "deleting", !.command = "file_id",
                           !.deletes = [@ EXCEPT ![p] = {n}],
                           !.clears = [@ EXCEPT ![p] = {n}]])
    /\ UNCHANGED remote

Leaves == /\ tool.at = "done"
          /\ tool' = Unused /\ alone' = FALSE
          /\ UNCHANGED vars

ToolNext ==
    \/ RunsReconcile \/ RunsFilename \/ ReadsDatabase \/ NothingToClear \/ NothingToDelete
    \/ \E p \in Provider :
         \/ RunsFileId(p) \/ ListsProvider(p) \/ ListsByName(p)
         \/ ClearsReferences(p) \/ DeletesOrphan(p) \/ DeletesCopy(p)
    \/ Leaves

\* The ids the providers give are never given again: not while the tool has them.
Remembered(p) == IF p \in Keyed THEN {} ELSE tool.refs[p] \cup tool.listed[p] \cup tool.clears[p]
AppNext ==
    /\ Next
    /\ \A p \in Provider : (remote'[p] \ remote[p]) \cap Remembered(p) = {}
    /\ alone' = FALSE
    /\ UNCHANGED tool

MaintenanceNext == AppNext \/ ToolNext
MaintenanceSpec == MaintenanceInit /\ [][MaintenanceNext]_maintenanceVars

-----------------------------------------------------------------------------

\* A reconciliation that runs while nothing else does, and meets no failure, leaves the
\* database and the providers it covers in agreement.
ReconcilesFully ==
    tool.at = "done" /\ tool.command = "reconcile" /\ alone /\ ~tool.errors =>
      \A p \in tool.scope : remote[p] = Recorded(p)

\* A reconciliation clears a reference only to a copy the provider no longer has, also
\* when requests upload and record copies meanwhile.  It is so where the provider
\* names the copies: one that is named after the row may be there again by then
\* (attachment_provider_files.py:490-500).
ClearsOnlyTheDead ==
    [][\A p \in Provider \ Keyed : tool.command = "reconcile" /\ ClearsReferences(p) =>
         \A n \in Recorded(p) : n \in remote[p] => n \in Recorded(p)']_maintenanceVars
===============================================================================
