------------------------------ MODULE SharedFile ------------------------------
(***************************************************************************)
(* What the stored files promise to the histories and drafts of a user:    *)
(* one content is kept as long as any of them is attached to it, it is     *)
(* detached from one of them at a time, and it goes only when it is        *)
(* attached to none.                                                       *)
(***************************************************************************)
CONSTANTS Holder

VARIABLES
    attached,  \* the histories and drafts the content is attached to
    kept       \* whether the database still has its bytes

sharedVars == <<attached, kept>>

SharedInit == attached = {} /\ kept = FALSE

Attach(h) ==
    /\ h \notin attached
    /\ attached' = attached \cup {h}
    /\ kept' = TRUE

\* The bytes may go with the last attachment, or wait for a later Collect.
Detach(h) ==
    /\ h \in attached
    /\ attached' = attached \ {h}
    /\ kept' \in BOOLEAN
    /\ ~kept' => attached' = {}

Collect ==
    /\ kept /\ attached = {}
    /\ kept' = FALSE
    /\ UNCHANGED attached

SharedNext == Collect \/ \E h \in Holder : Attach(h) \/ Detach(h)

SharedSpec == SharedInit /\ [][SharedNext]_sharedVars
===============================================================================
