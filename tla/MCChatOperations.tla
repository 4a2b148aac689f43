---------------------------- MODULE MCChatOperations ----------------------------
(* Instances of ChatOperations for TLC. *)
EXTENDS ChatOperations, TLC

\* Requests of the event loop only: a deletion of a file differs from a deletion
\* of the history, and a toggle from an attachment, in their guards.
LoopKinds == {"send", "attach_file", "delete_file", "toggle_file", "delete_history"}

\* Every type; metadata changes run in the thread pool.
AllKinds == OperationTypes

Threads == {"update_metadata"}

Symmetry == Permutations(Op) \cup Permutations(History)
=============================================================================
