------------------------------- MODULE PinOrder -------------------------------
(***************************************************************************)
(* The pinned section of one user's histories: PUT and DELETE              *)
(* /histories/{id}/pin (services/chat/histories/service.py).  Both run in  *)
(* the thread pool, each in a transaction of its own; the operation they   *)
(* begin leases one history, and the next place is computed over all of    *)
(* them.  The fence between lease and commit is in ChatOperations.         *)
(***************************************************************************)
EXTENDS Integers, FiniteSetsExt

CONSTANTS
    History,
    Thread,
    NoHistory,
    MaxPlace    \* bound on pin_order

ASSUME PinOrderAssumption == NoHistory \notin History /\ MaxPlace \in Nat \ {0}

VARIABLES
    pin_order,  \* [History -> chat_histories.pin_order, 0 for NULL]
    edit        \* [Thread -> the request it serves]

pinVars == <<pin_order, edit>>

\* next: the place a pin has computed, 0 when it leaves the row as it is.
Edit ==
    [at : {"idle", "begun", "computed"}, kind : {"none", "pin", "unpin"},
     history : History \cup {NoHistory}, next : 0 .. MaxPlace, current : BOOLEAN]
NoEdit == [at |-> "idle", kind |-> "none", history |-> NoHistory, next |-> 0, current |-> FALSE]

PinsTypeOK ==
    /\ pin_order \in [History -> 0 .. MaxPlace]
    /\ edit \in [Thread -> Edit]

PinsInit ==
    /\ pin_order = [h \in History |-> 0]
    /\ edit = [t \in Thread |-> NoEdit]

-----------------------------------------------------------------------------

Pinned == {h \in History : pin_order[h] # 0}

\* Holder of the history's active operation, while that has not expired.
Leases(t, h) == edit[t].history = h /\ edit[t].current

Becomes(t, e) == edit' = [edit EXCEPT ![t] = e]

\* The place after the last.
AfterTheLast == Max({pin_order[h] : h \in Pinned} \cup {0}) + 1

\* What a pin writes; a history that is pinned already is left alone.
PlaceFor(e) == IF e.kind = "pin" /\ pin_order[e.history] = 0 THEN AfterTheLast ELSE 0

\* begin_history_operation.
BeginEdit(t, h, kind) ==
    /\ edit[t] = NoEdit
    /\ \A u \in Thread : ~Leases(u, h)
    /\ Becomes(t, [NoEdit EXCEPT !.at = "begun", !.kind = kind, !.history = h, !.current = TRUE])
    /\ UNCHANGED pin_order

\* The fence, and for a history that is not pinned the place after the last.
Computes(t) ==
    /\ edit[t].at = "begun" /\ edit[t].current
    /\ \E n \in 0 .. MaxPlace :
          /\ n = PlaceFor(edit[t])
          /\ Becomes(t, [edit[t] EXCEPT !.at = "computed", !.next = n])
    /\ UNCHANGED pin_order

\* pin_order of the edited row after the commit.
Written(e) ==
    CASE e.kind = "unpin" -> 0
      [] e.next # 0 -> e.next
      [] OTHER -> pin_order[e.history]

\* Slip: complete_operation does not ask the fence again.
CommitsUnfenced(t) ==
    /\ edit[t].at = "computed"
    /\ pin_order' = [pin_order EXCEPT ![edit[t].history] = Written(edit[t])]
    /\ Becomes(t, NoEdit)

\* complete_operation asks the fence again; order and outcome commit together.
Commits(t) ==
    /\ edit[t].at = "computed" /\ edit[t].current
    /\ pin_order' = [pin_order EXCEPT ![edit[t].history] = Written(edit[t])]
    /\ Becomes(t, NoEdit)

\* The deadline passes; what the request then meets is a fence that refuses.
Expires(t) ==
    /\ edit[t].current
    /\ Becomes(t, [edit[t] EXCEPT !.current = FALSE])
    /\ UNCHANGED pin_order

RefusedEdit(t) ==
    /\ edit[t].at # "idle" /\ ~edit[t].current
    /\ Becomes(t, NoEdit)
    /\ UNCHANGED pin_order

PinsNext ==
    \E t \in Thread :
        \/ \E h \in History, kind \in {"pin", "unpin"} : BeginEdit(t, h, kind)
        \/ Computes(t)
        \/ Commits(t)
        \/ Expires(t)
        \/ RefusedEdit(t)

PinsSpec == PinsInit /\ [][PinsNext]_pinVars

-----------------------------------------------------------------------------
(* Properties *)

\* A history keeps its place as long as it is pinned, however often it is pinned
\* again and by whom: a request that lost its lease after it had computed a place does
\* not write it over the later one of another (service.py:103-131).
PlacesAreKept ==
    [][\A h \in Pinned : pin_order'[h] \in {0, pin_order[h]}]_pinVars
=============================================================================
