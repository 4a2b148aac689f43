------------------------ MODULE ContextCompaction_proofs ------------------------
(***************************************************************************)
(* Safety of ChatTurn and of ContextCompaction, for every set of sends,    *)
(* metadata requests and histories: rows, operations, contexts and streams *)
(* agree, and compaction forgets no answer.                                *)
(***************************************************************************)
EXTENDS ContextCompaction, FiniteSetTheorems, WellFoundedInduction, TLAPS

-----------------------------------------------------------------------------
(***************************************************************************)
(* Safety of ChatTurn for every set of sends, metadata requests and        *)
(* histories: rows, operations, contexts and streams agree.                *)
(*                                                                         *)
(* The lease is exclusive (Leased), the place of a task says what its rows *)
(* may be (Sound), and a send that still holds its lease knows every       *)
(* answer its history has (Informed).  The hard cases are those in which a *)
(* turn is closed by somebody else: the next request that recovers its     *)
(* operation, and housekeeping, which closes every streaming row of a      *)
(* history for one stale operation.                                        *)
(***************************************************************************)

\* An operation is live exactly while its history names it.
Leased ==
    /\ \A o \in Op : Live(o) => owner[scope[o]] = o
    /\ \A h \in History : owner[h] # NoOp => Live(owner[h]) /\ scope[owner[h]] = h

Fresh == \A o \in Op : pc[o] = "new" => state[o] = "absent"

\* What the rows and the stream of a send can be, by the place of its task.
Placed(o) ==
    /\ pc[o] = "new" => msg[o] = "none"
    /\ pc[o] \in {"preparing", "ready"} => msg[o] = "none" /\ state[o] \in {"running", "timed_out"}
    /\ pc[o] = "starting" => msg[o] = "none" /\ state[o] \in {"provider_streaming", "timed_out"}
    /\ pc[o] \in {"streaming", "finishing"} =>
          \/ msg[o] = "streaming" /\ state[o] \in {"provider_streaming", "timed_out"}
          \/ msg[o] = "error" /\ state[o] = "timed_out"
    /\ pc[o] # "over" => sink[o] \notin {"done", "error"}

\* The assistant row of a send against its operation, its stream and its marks: a row
\* is late only while it streams, and then so is its operation.
Told(o) ==
    /\ msg[o] = "done" <=> state[o] = "succeeded"
    /\ msg[o] = "error" => state[o] \in {"failed", "timed_out"}
    /\ msg[o] = "streaming" => state[o] \in {"provider_streaming", "timed_out"}
    /\ sink[o] = "done" => msg[o] = "done"
    /\ sink[o] = "error" => msg[o] # "done"
    /\ late[o] => msg[o] = "streaming" /\ (Live(o) => Expired(o))
    /\ msg[o] = "error" /\ ~excluded[o] => answered[o]
    /\ msg[o] \in {"none", "streaming", "done"} => ~excluded[o]

Sound(o) == Placed(o) /\ Told(o)

\* Until its turn has started, a send that holds its lease has read every answer.
Informed(o) ==
    pc[o] \in {"ready", "starting"} /\ Live(o) =>
        \A p \in Sends :
            scope[p] = scope[o] /\ msg[p] = "done" => <<"answer", p>> \in context[o]

IInv ==
    /\ TypeOK
    /\ Leased
    /\ Fresh
    /\ \A o \in Sends : Sound(o) /\ Informed(o)

-----------------------------------------------------------------------------
(* What a step leaves of an operation and of a turn it is not about *)

\* An operation keeps its state or is timed out, and keeps its history.
Falls(p) ==
    /\ state'[p] = state[p] \/ (Live(p) /\ state'[p] = "timed_out")
    /\ scope'[p] = scope[p]
    /\ due[p] \subseteq due'[p]

\* A turn keeps its place and its stream, and its row.
Stays(p) ==
    /\ pc'[p] = pc[p] /\ sink'[p] = sink[p] /\ context'[p] = context[p]
    /\ msg'[p] = msg[p] /\ excluded'[p] = excluded[p] /\ late'[p] = late[p]
    /\ answered'[p] = answered[p]

LEMMA StatesDiffer ==
    /\ \A o \in Op : Live(o) <=> state[o] = "running" \/ state[o] = "provider_streaming"
    /\ (\A o \in Op : Live(o) <=> state[o] = "running" \/ state[o] = "provider_streaming")'
BY DEF Live, LiveStates

LEMMA StaysSound ==
    ASSUME NEW p \in Sends, p \in Op, Sound(p), Falls(p), Stays(p)
    PROVE  Sound(p)'
<1>1. Live(p)' => Live(p)
  BY StatesDiffer DEF Falls
<1>2. Placed(p)'
  BY StatesDiffer DEF Sound, Placed, Falls, Stays
<1>3. Told(p)'
  BY <1>1, StatesDiffer DEF Sound, Told, Falls, Stays, Expired
<1> QED BY <1>2, <1>3 DEF Sound

\* No answer is added in the history of o, so what o knows is still all there is.
LEMMA StaysInformed ==
    ASSUME NEW o \in Sends, Informed(o),
           pc'[o] \in {"ready", "starting"} /\ Live(o)' =>
              /\ pc[o] \in {"ready", "starting"} /\ Live(o)
              /\ context'[o] = context[o]
              /\ \A p \in Sends : scope'[p] = scope'[o] /\ msg'[p] = "done" =>
                    scope[p] = scope[o] /\ msg[p] = "done"
    PROVE  Informed(o)'
BY DEF Informed

-----------------------------------------------------------------------------
(* The rows *)

LEMMA SendsAreOperations == Sends \subseteq Op /\ Renames \subseteq Op
BY RequestsPartition

\* At most one live operation per history.
LEMMA LeaseIsExclusive ==
    ASSUME Leased, NEW o \in Op, NEW p \in Op, Live(o), Live(p), scope[o] = scope[p]
    PROVE  o = p
BY DEF Leased

\* An operation begins: the holder it recovers is timed out, nobody else is touched.
LEMMA BeginKeepsLease ==
    ASSUME IInv, NEW o \in Op, NEW h \in History, NEW k \in OperationTypes,
           pc[o] = "new", BeginRows(o, h, k)
    PROVE  /\ RowsTypeOK' /\ Leased'
           /\ state'[o] = "running" /\ scope'[o] = h /\ due'[o] = {}
           /\ \A p \in Op \ {o} : Falls(p) /\ (scope[p] = h => ~Live(p)')
<1>1. /\ state \in [Op -> LiveStates \cup TerminalStates \cup {"absent"}]
      /\ kind \in [Op -> OperationTypes \cup {"none"}]
      /\ scope \in [Op -> History \cup {NoHistory}]
      /\ due \in [Op -> SUBSET Deadlines]
      /\ owner \in [History -> Op \cup {NoOp}]
      /\ life \in [History -> {"unborn", "active", "deleting", "deleted"}]
      /\ filled \in [History -> BOOLEAN]
      /\ \A p \in Op : state[p] # "absent" =>
             scope[p] \in History /\ HasRow(scope[p]) /\ kind[p] \in OperationTypes
  BY DEF IInv, TypeOK, RowsTypeOK
<1>2. state[o] = "absent" /\ ~Live(o) /\ \A g \in History : owner[g] # o
  BY StatesDiffer, NullsAreNotIds DEF IInv, Fresh, Leased
<1>3. /\ \A p \in Op \ {o} : state'[p] = (IF p = owner[h] /\ Live(p) THEN "timed_out" ELSE state[p])
      /\ state'[o] = "running"
      /\ state' \in [Op -> LiveStates \cup TerminalStates \cup {"absent"}]
  BY <1>1 DEF BeginRows, Recovered, LiveStates, TerminalStates
<1>4. /\ kind' = [kind EXCEPT ![o] = k] /\ scope' = [scope EXCEPT ![o] = h]
      /\ due' = [due EXCEPT ![o] = {}] /\ owner' = [owner EXCEPT ![h] = o]
      /\ life' = [life EXCEPT ![h] = LifeAfterBegin(h, k)] /\ filled' = filled
      /\ HasRow(h) /\ NoLiveExcept(h, {owner[h]})
  BY DEF BeginRows
<1>5. LifeAfterBegin(h, k) \in {"active", "deleting"}
  BY <1>4 DEF LifeAfterBegin, HasRow
<1>6. \A g \in History : HasRow(g) => HasRow(g)'
  BY <1>1, <1>4, <1>5 DEF HasRow
<1>7. \A p \in Op \ {o} : Falls(p)
  BY <1>1, <1>3, <1>4 DEF Falls
<1>8. \A p \in Op \ {o} : scope[p] = h => ~Live(p)'
  BY <1>3, <1>4, StatesDiffer DEF NoLiveExcept
<1>9. RowsTypeOK'
  <2>1. \A p \in Op : state'[p] # "absent" =>
            scope'[p] \in History /\ HasRow(scope[p])' /\ kind'[p] \in OperationTypes
    BY <1>1, <1>3, <1>4, <1>6, StatesDiffer DEF HasRow
  <2>2. /\ kind' \in [Op -> OperationTypes \cup {"none"}]
        /\ scope' \in [Op -> History \cup {NoHistory}]
        /\ due' \in [Op -> SUBSET Deadlines]
        /\ owner' \in [History -> Op \cup {NoOp}]
        /\ life' \in [History -> {"unborn", "active", "deleting", "deleted"}]
        /\ filled' \in [History -> BOOLEAN]
    BY <1>1, <1>4, <1>5
  <2> QED BY <1>3, <2>1, <2>2 DEF RowsTypeOK, HasRow
<1>10. Leased'
  <2>1. ASSUME NEW p \in Op, Live(p)' PROVE owner'[scope'[p]] = p
    <3>1. CASE p = o
      BY <1>1, <1>4, <3>1
    <3>2. CASE p # o
      <4>1. scope'[p] = scope[p] /\ scope[p] # h /\ Live(p)
        BY <1>7, <1>8, <2>1, <3>2, StatesDiffer DEF Falls
      <4> QED BY <1>1, <1>4, <4>1, StatesDiffer DEF IInv, Leased
    <3> QED BY <3>1, <3>2
  <2>2. ASSUME NEW g \in History, owner'[g] # NoOp PROVE Live(owner[g])' /\ scope'[owner'[g]] = g
    <3>1. CASE g = h
      BY <1>1, <1>3, <1>4, <3>1, StatesDiffer
    <3>2. CASE g # h
      <4>1. owner'[g] = owner[g] /\ Live(owner[g]) /\ scope[owner[g]] = g /\ owner[g] # o
            /\ owner[g] \in Op
        BY <1>1, <1>2, <1>4, <2>2, <3>2 DEF IInv, Leased
      <4>2. owner[g] # owner[h]
        BY <1>1, <3>2, <4>1, NullsAreNotIds DEF IInv, Leased
      <4> QED BY <1>1, <1>3, <1>4, <4>1, <4>2, StatesDiffer
    <3> QED BY <3>1, <3>2
  <2> QED BY <2>1, <2>2 DEF Leased
<1> QED BY <1>1, <1>3, <1>4, <1>7, <1>8, <1>9, <1>10

\* The holder leaves with an outcome; no other operation is touched.
LEMMA CompleteKeepsLease ==
    ASSUME IInv, NEW o \in Op, NEW outcome \in TerminalStates, HoldsLease(o), Completes(o, outcome)
    PROVE  /\ RowsTypeOK' /\ Leased'
           /\ Live(o) /\ state'[o] = outcome /\ scope'[o] = scope[o] /\ due'[o] = due[o]
           /\ \A p \in Op \ {o} : Falls(p) /\ state'[p] = state[p]
<1>1. Live(o) /\ scope[o] \in History /\ owner[scope[o]] = o
  BY DEF HoldsLease, Current
<1>2. /\ state' = [state EXCEPT ![o] = outcome]
      /\ owner' = [owner EXCEPT ![scope[o]] = NoOp]
      /\ life' = life
      /\ UNCHANGED <<kind, scope, due, filled>>
  BY <1>1 DEF Completes, CompleteRows, IInv, TypeOK, RowsTypeOK
<1>3. RowsTypeOK'
  BY <1>1, <1>2, StatesDiffer DEF IInv, TypeOK, RowsTypeOK, HasRow
<1>4. state'[o] = outcome /\ \A p \in Op \ {o} : state'[p] = state[p]
  BY <1>2 DEF IInv, TypeOK, RowsTypeOK
<1>5. ~Live(o)'
  BY <1>4, StatesDiffer DEF TerminalStates
<1>6. Leased'
  <2>1. ASSUME NEW p \in Op, Live(p)' PROVE owner'[scope'[p]] = p
    <3>1. p # o /\ Live(p)
      BY <1>4, <1>5, <2>1, StatesDiffer
    <3>2. owner[scope[p]] = p /\ scope[p] # scope[o] /\ scope[p] \in History
      BY <1>1, <3>1, StatesDiffer DEF IInv, Leased, TypeOK, RowsTypeOK
    <3> QED BY <1>2, <3>2 DEF IInv, TypeOK, RowsTypeOK
  <2>2. ASSUME NEW g \in History, owner'[g] # NoOp PROVE Live(owner[g])' /\ scope'[owner'[g]] = g
    <3>1. g # scope[o] /\ owner'[g] = owner[g]
      BY <1>1, <1>2, <2>2 DEF IInv, TypeOK, RowsTypeOK
    <3>2. Live(owner[g]) /\ scope[owner[g]] = g /\ owner[g] # o /\ owner[g] \in Op
      BY <2>2, <3>1 DEF IInv, Leased, TypeOK, RowsTypeOK
    <3> QED BY <1>2, <1>4, <3>1, <3>2, StatesDiffer
  <2> QED BY <2>1, <2>2 DEF Leased
<1> QED BY <1>1, <1>2, <1>3, <1>4, <1>6 DEF Falls

\* The lease of one operation goes on: its state moves between live ones, or time passes.
LEMMA MovingKeepsLease ==
    ASSUME IInv,
           state' \in [Op -> LiveStates \cup TerminalStates \cup {"absent"}],
           due' \in [Op -> SUBSET Deadlines], filled' \in [History -> BOOLEAN],
           UNCHANGED <<kind, scope, owner, life>>,
           \A p \in Op : Live(p)' <=> Live(p), \A p \in Op : state'[p] = "absent" => state[p] = "absent",
           \A p \in Op : state[p] = "absent" => state'[p] = "absent"
    PROVE  RowsTypeOK' /\ Leased'
<1>1. RowsTypeOK'
  BY DEF IInv, TypeOK, RowsTypeOK, HasRow
<1>2. Leased'
  BY DEF IInv, Leased, TypeOK, RowsTypeOK
<1> QED BY <1>1, <1>2

\* Housekeeping times out the stale operations, all of them and no others.
LEMMA CloseKeepsLease ==
    ASSUME IInv, CloseRows(StaleOperations, {h \in History : owner[h] \in StaleOperations}, {})
    PROVE  /\ RowsTypeOK' /\ Leased'
           /\ \A p \in Op : Falls(p) /\ (Live(p)' <=> Live(p) /\ p \notin StaleOperations)
<1>1. /\ state' = [p \in Op |-> IF p \in StaleOperations THEN "timed_out" ELSE state[p]]
      /\ owner' = [h \in History |-> IF owner[h] \in StaleOperations THEN NoOp ELSE owner[h]]
      /\ life' = life
      /\ UNCHANGED <<kind, scope, due, filled>>
  BY DEF CloseRows, IInv, TypeOK, RowsTypeOK
<1>2. \A p \in StaleOperations : p \in Op /\ Live(p)
  BY DEF StaleOperations
<1>3. \A p \in Op : Falls(p) /\ (Live(p)' <=> Live(p) /\ p \notin StaleOperations)
  BY <1>1, <1>2, StatesDiffer DEF Falls
<1>4. RowsTypeOK'
  BY <1>1, <1>2, StatesDiffer DEF IInv, TypeOK, RowsTypeOK, HasRow, TerminalStates
<1>5. Leased'
  <2>1. ASSUME NEW p \in Op, Live(p)' PROVE owner'[scope'[p]] = p
    <3>1. Live(p) /\ p \notin StaleOperations /\ scope[p] \in History
      BY <1>3, <2>1, StatesDiffer DEF IInv, TypeOK, RowsTypeOK
    <3> QED BY <1>1, <3>1 DEF IInv, Leased
  <2>2. ASSUME NEW g \in History, owner'[g] # NoOp PROVE Live(owner[g])' /\ scope'[owner'[g]] = g
    <3>1. owner'[g] = owner[g] /\ owner[g] \notin StaleOperations /\ owner[g] \in Op
      BY <1>1, <2>2 DEF IInv, TypeOK, RowsTypeOK
    <3> QED BY <1>1, <1>3, <2>2, <3>1 DEF IInv, Leased
  <2> QED BY <2>1, <2>2 DEF Leased
<1> QED BY <1>3, <1>4, <1>5

-----------------------------------------------------------------------------
(* The inductive step: requests *)

\* The shape of the invariant after a step that is about one send o.
LEMMA OneSendMoves ==
    ASSUME IInv, NEW o \in Sends,
           TypeOK', Leased', Fresh', Sound(o)', Informed(o)',
           \A p \in Sends \ {o} :
              /\ Falls(p) /\ Stays(p)
              /\ Live(p)' /\ scope'[p] = scope'[o] /\ msg'[o] = "done" =>
                    scope[p] = scope[o] /\ msg[o] = "done"
    PROVE  IInv'
<1>1. ASSUME NEW p \in Sends, p # o PROVE Sound(p)'
  BY <1>1, StaysSound, SendsAreOperations DEF IInv
<1>2. ASSUME NEW p \in Sends, p # o PROVE Informed(p)'
  <2>1. Live(p)' => Live(p)
    BY <1>2, StatesDiffer, SendsAreOperations DEF Falls
  <2>2. ASSUME Live(p)', NEW q \in Sends, scope'[q] = scope'[p] /\ msg'[q] = "done"
        PROVE  scope[q] = scope[p] /\ msg[q] = "done"
    <3>1. CASE q = o
      BY <1>2, <2>2, <3>1
    <3>2. CASE q # o
      BY <1>2, <2>2, <3>2 DEF Falls, Stays
    <3> QED BY <3>1, <3>2
  <2> QED BY <1>2, <2>1, <2>2, StaysInformed DEF IInv, Stays
<1> QED BY <1>1, <1>2 DEF IInv

\* The new operation knows nothing yet, and has nothing to be known.
LEMMA BeginSendKeepsIInv ==
    ASSUME IInv, NEW o \in Sends, NEW h \in History, BeginSend(o, h)
    PROVE  IInv'
<1>1. o \in Op /\ "send" \in OperationTypes
  BY SendsAreOperations DEF OperationTypes
<1>2. /\ pc[o] = "new" /\ BeginRows(o, h, "send")
      /\ pc' = [pc EXCEPT ![o] = "preparing"]
      /\ sink' = [sink EXCEPT ![o] = "open"]
      /\ UNCHANGED <<context, answered, TouchesMessages>>
  BY DEF BeginSend, Goes
<1>3. /\ RowsTypeOK' /\ Leased' /\ state'[o] = "running" /\ scope'[o] = h
      /\ \A p \in Op \ {o} : Falls(p) /\ (scope[p] = h => ~Live(p)')
  BY <1>1, <1>2, BeginKeepsLease
<1>4. TypeOK'
  BY <1>1, <1>2, <1>3 DEF IInv, TypeOK, Places, TouchesMessages
<1>5. Fresh'
  BY <1>1, <1>2, <1>3, StatesDiffer DEF IInv, Fresh, TypeOK, Falls
<1>6. Sound(o)'
  BY <1>1, <1>2, <1>3 DEF IInv, TypeOK, Sound, Placed, Told, TouchesMessages
<1>7. Informed(o)'
  BY <1>1, <1>2 DEF IInv, TypeOK, Informed
<1>8. \A p \in Sends \ {o} : Falls(p) /\ Stays(p) /\ (scope'[p] = h => ~Live(p)')
  BY <1>1, <1>2, <1>3, SendsAreOperations DEF IInv, TypeOK, Falls, Stays, TouchesMessages
<1> QED BY <1>3, <1>4, <1>5, <1>6, <1>7, <1>8, OneSendMoves

\* The rows of the lease are not touched.
LEMMA RowsStand ==
    ASSUME IInv, UNCHANGED rows
    PROVE  RowsTypeOK' /\ Leased' /\ \A p \in Op : Falls(p)
<1>1. UNCHANGED <<state, kind, scope, due, owner, life, filled>>
  BY DEF rows
<1>2. RowsTypeOK'
  BY <1>1 DEF IInv, TypeOK, RowsTypeOK, HasRow
<1>3. Leased'
  BY <1>1 DEF IInv, Leased, Live
<1>4. \A p \in Op : Falls(p)
  BY <1>1 DEF Falls
<1> QED BY <1>2, <1>3, <1>4

\* The task of a send moves to another place, and changes nothing but what is its own.
LEMMA TaskMoves ==
    ASSUME IInv, NEW o \in Sends, NEW place \in Places \ {"new"}, Goes(o, place),
           RowsTypeOK', Leased', TypeOK', Sound(o)', Informed(o)',
           scope'[o] = scope[o],
           \A p \in Op \ {o} : Falls(p),
           \A p \in Sends \ {o} :
              /\ sink'[p] = sink[p] /\ context'[p] = context[p]
              /\ msg'[p] = msg[p] /\ excluded'[p] = excluded[p] /\ late'[p] = late[p]
              /\ answered'[p] = answered[p],
           msg'[o] = "done" => msg[o] = "done" \/ Live(o)
    PROVE  IInv'
<1>1. o \in Op /\ pc'[o] = place /\ \A p \in Op \ {o} : pc'[p] = pc[p]
  BY SendsAreOperations DEF Goes, IInv, TypeOK
<1>2. Fresh'
  <2>1. ASSUME NEW p \in Op, pc'[p] = "new" PROVE state'[p] = "absent"
    <3>1. p # o /\ state[p] = "absent"
      BY <1>1, <2>1 DEF IInv, Fresh
    <3> QED BY <3>1, StatesDiffer DEF Falls
  <2> QED BY <2>1 DEF Fresh
<1>3. ASSUME NEW p \in Sends \ {o}
      PROVE  /\ Falls(p) /\ Stays(p)
             /\ Live(p)' /\ scope'[p] = scope'[o] /\ msg'[o] = "done" =>
                    scope[p] = scope[o] /\ msg[o] = "done"
  <2>1. p \in Op \ {o}
    BY SendsAreOperations
  <2>2. Falls(p) /\ Stays(p)
    BY <1>1, <2>1 DEF Stays
  <2>3. ASSUME Live(p)', scope'[p] = scope'[o] PROVE scope[p] = scope[o] /\ ~Live(o)
    <3>1. Live(p) /\ scope[p] = scope[o]
      BY <2>1, <2>2, <2>3, StatesDiffer DEF Falls
    <3> QED BY <1>1, <2>1, <3>1, LeaseIsExclusive DEF IInv
  <2> QED BY <2>2, <2>3
<1> QED BY <1>2, <1>3, OneSendMoves

\* A task ends: what its rows and its stream say then is all there is to show.
LEMMA TaskEnds ==
    ASSUME IInv, NEW o \in Sends, Goes(o, "over"),
           RowsTypeOK', Leased', Told(o)', scope'[o] = scope[o],
           \A p \in Op \ {o} : Falls(p),
           UNCHANGED <<context, answered>>,
           msg' \in [Sends -> {"none", "streaming", "done", "error"}],
           excluded' \in [Sends -> BOOLEAN], late' \in [Sends -> BOOLEAN],
           sink' \in [Sends -> {"none", "open", "done", "error", "gone"}],
           \A p \in Sends \ {o} :
              /\ sink'[p] = sink[p]
              /\ msg'[p] = msg[p] /\ excluded'[p] = excluded[p] /\ late'[p] = late[p],
           msg'[o] = "done" => msg[o] = "done" \/ Live(o)
    PROVE  IInv'
<1>1. o \in Op /\ "over" \in Places /\ pc'[o] = "over"
  BY SendsAreOperations DEF Goes, IInv, TypeOK, Places
<1>2. TypeOK'
  BY <1>1 DEF IInv, TypeOK, Goes
<1>3. Sound(o)' /\ Informed(o)'
  BY <1>1 DEF Sound, Placed, Informed
<1> QED BY <1>1, <1>2, <1>3, TaskMoves

\* What the preparation reads is every answer of its history.
LEMMA BuildContextKeepsIInv ==
    ASSUME IInv, NEW o \in Sends, BuildContext(o)
    PROVE  IInv'
<1>1. /\ pc[o] = "preparing" /\ Goes(o, "ready")
      /\ context' = [context EXCEPT ![o] = VisibleMessages(scope[o])]
      /\ UNCHANGED <<rows, answered, TouchesMessages, sink>>
  BY DEF BuildContext
<1>2. UNCHANGED <<answered, msg, excluded, late, sink, state, scope, due>>
  BY <1>1 DEF TouchesMessages, rows
<1>3. RowsTypeOK' /\ Leased' /\ (\A p \in Op : Falls(p)) /\ o \in Op
  BY <1>1, RowsStand, SendsAreOperations
<1>4. TypeOK'
  BY <1>1, <1>2, <1>3 DEF IInv, TypeOK, Goes, Places, VisibleMessages
<1>5. Sound(o)'
  BY <1>1, <1>2, <1>3, StatesDiffer DEF IInv, TypeOK, Goes, Sound, Placed, Told, Expired
<1>6. Informed(o)'
  <2>1. ASSUME NEW p \in Sends, scope[p] = scope[o], msg[p] = "done"
        PROVE  <<"answer", p>> \in VisibleMessages(scope[o])
    BY <2>1 DEF VisibleMessages, Messages, IInv, Sound, Told
  <2>2. context'[o] = VisibleMessages(scope[o])
    BY <1>1 DEF IInv, TypeOK
  <2> QED BY <1>2, <2>1, <2>2 DEF Informed
<1> QED BY <1>1, <1>2, <1>3, <1>4, <1>5, <1>6, TaskMoves DEF Places, IInv, TypeOK

\* A failure of the preparation leaves no message row, and an operation that failed, timed
\* out or is somebody else's to close.
LEMMA PrestartFailsKeepsIInv ==
    ASSUME IInv, NEW o \in Sends, NEW outcome \in {"failed", "timed_out"}, PrestartFails(o, outcome)
    PROVE  IInv'
<1>1. /\ pc[o] \in {"preparing", "ready"} /\ Goes(o, "over") /\ Emits(o, "error")
      /\ IF Current(o, outcome = "timed_out") THEN Completes(o, outcome) ELSE UNCHANGED rows
      /\ UNCHANGED <<context, answered, msg, excluded, late>>
  BY DEF PrestartFails, Ends, TouchesMessages
<1>2. msg[o] = "none" /\ state[o] \in {"running", "timed_out"} /\ o \in Op /\ Told(o)
  BY <1>1, SendsAreOperations DEF IInv, Sound, Placed
<1>3. /\ RowsTypeOK' /\ Leased' /\ scope'[o] = scope[o]
      /\ state'[o] \in {"running", "failed", "timed_out"}
      /\ \A p \in Op \ {o} : Falls(p)
  <2>1. CASE Current(o, outcome = "timed_out")
    <3>1. HoldsLease(o) /\ Completes(o, outcome)
      BY <1>1, <2>1 DEF HoldsLease, Current
    <3> QED BY <1>2, <3>1, CompleteKeepsLease DEF TerminalStates
  <2>2. CASE ~Current(o, outcome = "timed_out")
    BY <1>1, <1>2, <2>2, RowsStand DEF rows
  <2> QED BY <2>1, <2>2
<1>4. Told(o)'
  BY <1>1, <1>2, <1>3 DEF Told, Emits, IInv, TypeOK
<1> QED BY <1>1, <1>2, <1>3, <1>4, TaskEnds DEF IInv, TypeOK, Emits

\* The transition of the lease, with no await before the turn is stored.
LEMMA TransitionKeepsIInv ==
    ASSUME IInv, NEW o \in Sends, Transition(o)
    PROVE  IInv'
<1>1. /\ pc[o] = "ready" /\ Goes(o, "starting") /\ Current(o, FALSE)
      /\ state' = [state EXCEPT ![o] = "provider_streaming"]
      /\ due' = [due EXCEPT ![o] = {}]
      /\ UNCHANGED <<kind, scope, owner, life, filled>>
      /\ UNCHANGED <<context, answered, msg, excluded, late, sink>>
  BY DEF Transition, TransitionRows, TouchesMessages
<1>2. o \in Op /\ Live(o) /\ msg[o] = "none" /\ Sound(o)
  BY <1>1, SendsAreOperations DEF IInv, Sound, Placed, Current
<1>3. /\ state'[o] = "provider_streaming" /\ Live(o)'
      /\ \A p \in Op \ {o} : state'[p] = state[p] /\ due'[p] = due[p] /\ (Live(p)' <=> Live(p))
  BY <1>1, <1>2, StatesDiffer DEF IInv, TypeOK, RowsTypeOK
<1>4. RowsTypeOK' /\ Leased'
  <2>1. /\ state' \in [Op -> LiveStates \cup TerminalStates \cup {"absent"}]
        /\ due' \in [Op -> SUBSET Deadlines] /\ filled' \in [History -> BOOLEAN]
    BY <1>1, <1>2 DEF IInv, TypeOK, RowsTypeOK, LiveStates
  <2>2. \A p \in Op : /\ Live(p)' <=> Live(p)
                      /\ state'[p] = "absent" <=> state[p] = "absent"
    BY <1>2, <1>3, StatesDiffer
  <2> QED BY <1>1, <2>1, <2>2, MovingKeepsLease
<1>5. TypeOK'
  BY <1>1, <1>4 DEF IInv, TypeOK, Goes, Places
<1>6. Sound(o)'
  BY <1>1, <1>2, <1>3 DEF IInv, TypeOK, Goes, Sound, Placed, Told
<1>7. Informed(o)'
  BY <1>1, <1>2 DEF IInv, Informed
<1>8. \A p \in Op \ {o} : Falls(p)
  BY <1>1, <1>3 DEF Falls
<1> QED BY <1>1, <1>2, <1>4, <1>5, <1>6, <1>7, <1>8, TaskMoves DEF Places, IInv, TypeOK

\* Both rows of the turn appear.
LEMMA PersistTurnKeepsIInv ==
    ASSUME IInv, NEW o \in Sends, PersistTurn(o)
    PROVE  IInv'
<1>1. /\ pc[o] = "starting" /\ Goes(o, "streaming") /\ Current(o, FALSE)
      /\ msg' = [msg EXCEPT ![o] = "streaming"]
      /\ filled' = [filled EXCEPT ![scope[o]] = TRUE]
      /\ UNCHANGED <<state, kind, scope, due, owner, life, context, answered, excluded, late, sink>>
  BY DEF PersistTurn
<1>2. o \in Op /\ Live(o) /\ msg[o] = "none" /\ state[o] = "provider_streaming" /\ Sound(o)
  BY <1>1, SendsAreOperations, StatesDiffer DEF IInv, Sound, Placed, Current
<1>3. RowsTypeOK' /\ Leased'
  BY <1>1, MovingKeepsLease DEF IInv, TypeOK, RowsTypeOK, Live
<1>4. TypeOK'
  BY <1>1, <1>3 DEF IInv, TypeOK, Goes, Places
<1>5. Sound(o)'
  BY <1>1, <1>2 DEF IInv, TypeOK, Goes, Sound, Placed, Told
<1>6. Informed(o)'
  BY <1>1, <1>2 DEF IInv, TypeOK, Goes, Informed
<1>7. \A p \in Op \ {o} : Falls(p)
  BY <1>1 DEF Falls
<1> QED BY <1>1, <1>2, <1>3, <1>4, <1>5, <1>6, <1>7, TaskMoves DEF Places, IInv, TypeOK

\* A start that is refused leaves no message row.
LEMMA StartRefusedKeepsIInv ==
    ASSUME IInv, NEW o \in Sends, StartRefused(o)
    PROVE  IInv'
<1>1. /\ pc[o] \in {"ready", "starting"} /\ Goes(o, "over") /\ Emits(o, "error")
      /\ IF HoldsLease(o) THEN Completes(o, "timed_out") ELSE UNCHANGED rows
      /\ UNCHANGED <<context, answered, msg, excluded, late>>
  BY DEF StartRefused, Ends, TouchesMessages
<1>2. /\ msg[o] = "none" /\ state[o] \in {"running", "provider_streaming", "timed_out"}
      /\ o \in Op /\ Told(o)
  BY <1>1, SendsAreOperations DEF IInv, Sound, Placed
<1>3. /\ RowsTypeOK' /\ Leased' /\ scope'[o] = scope[o]
      /\ state'[o] \in {"running", "provider_streaming", "timed_out"}
      /\ \A p \in Op \ {o} : Falls(p)
  <2>1. CASE HoldsLease(o)
    BY <1>1, <1>2, <2>1, CompleteKeepsLease DEF TerminalStates
  <2>2. CASE ~HoldsLease(o)
    BY <1>1, <1>2, <2>2, RowsStand DEF rows
  <2> QED BY <2>1, <2>2
<1>4. Told(o)'
  BY <1>1, <1>2, <1>3 DEF Told, Emits, IInv, TypeOK
<1> QED BY <1>1, <1>2, <1>3, <1>4, TaskEnds DEF IInv, TypeOK, Emits

\* The end of the final answer is seen.
LEMMA ProviderEventKeepsIInv ==
    ASSUME IInv, NEW o \in Sends, ProviderEvent(o)
    PROVE  IInv'
<1>1. /\ pc[o] = "streaming"
      /\ answered' = [answered EXCEPT ![o] = TRUE]
      /\ UNCHANGED <<rows, pc, context, msg, excluded, late, sink>>
  BY DEF ProviderEvent, TouchesMessages
<1>2. UNCHANGED <<state, scope, due>> /\ o \in Op
  BY <1>1, SendsAreOperations DEF rows
<1>3. RowsTypeOK' /\ Leased' /\ \A p \in Op : Falls(p)
  BY <1>1, RowsStand
<1>4. TypeOK' /\ Fresh'
  BY <1>1, <1>2, <1>3 DEF IInv, TypeOK, Fresh
<1>5. Sound(o)' /\ Informed(o)'
  BY <1>1, <1>2 DEF IInv, TypeOK, Sound, Placed, Told, Informed, Live, Expired
<1>6. \A p \in Sends \ {o} : Falls(p) /\ Stays(p)
  BY <1>1, <1>3, SendsAreOperations DEF IInv, TypeOK, Stays
<1> QED BY <1>1, <1>2, <1>3, <1>4, <1>5, <1>6, OneSendMoves

\* A turn fails once it streams: its rows say so if the lease is still held, and otherwise
\* whoever took the lease has closed them or will.
LEMMA FailureKeepsIInv ==
    ASSUME IInv, NEW o \in Sends, NEW outcome \in {"failed", "timed_out"}, NEW exclude \in BOOLEAN,
           pc[o] = "streaming", exclude \/ answered[o],
           RecordsFailure(o, outcome, exclude), Ends(o, "error"),
           UNCHANGED <<context, answered>>
    PROVE  IInv'
<1>1. /\ Goes(o, "over") /\ Emits(o, "error") /\ o \in Op /\ Sound(o)
      /\ msg[o] \in {"streaming", "error"}
      /\ state[o] \in {"provider_streaming", "timed_out"}
      /\ msg[o] = "error" => state[o] = "timed_out"
  BY SendsAreOperations DEF Ends, IInv, Sound, Placed
<1>2. /\ RowsTypeOK' /\ Leased' /\ scope'[o] = scope[o]
      /\ \A p \in Op \ {o} : Falls(p)
      /\ Told(o)'
      /\ msg' \in [Sends -> {"none", "streaming", "done", "error"}]
      /\ excluded' \in [Sends -> BOOLEAN] /\ late' \in [Sends -> BOOLEAN]
      /\ \A p \in Sends \ {o} :
            msg'[p] = msg[p] /\ excluded'[p] = excluded[p] /\ late'[p] = late[p]
      /\ msg'[o] # "done"
  <2>1. CASE HoldsLease(o) /\ msg[o] = "streaming"
    <3>1. Completes(o, outcome) /\ ClosesOwn(o, exclude) /\ outcome \in TerminalStates
      BY <2>1 DEF RecordsFailure, TerminalStates
    <3>2. /\ RowsTypeOK' /\ Leased' /\ scope'[o] = scope[o] /\ state'[o] = outcome
          /\ \A p \in Op \ {o} : Falls(p)
      BY <1>1, <2>1, <3>1, CompleteKeepsLease
    <3>3. Told(o)'
      BY <1>1, <3>1, <3>2 DEF Sound, Placed, Told, Emits, ClosesOwn, IInv, TypeOK
    <3> QED BY <3>1, <3>2, <3>3 DEF ClosesOwn, IInv, TypeOK
  <2>2. CASE ~(HoldsLease(o) /\ msg[o] = "streaming")
    <3>1. UNCHANGED rows /\ UNCHANGED <<msg, excluded, late>>
      BY <2>2 DEF RecordsFailure, TouchesMessages
    <3>2. /\ RowsTypeOK' /\ Leased' /\ UNCHANGED <<state, scope, due>>
          /\ \A p \in Op : Falls(p)
      BY <3>1, RowsStand DEF rows
    <3>3. Told(o)'
      BY <1>1, <3>1, <3>2 DEF Sound, Told, Emits, IInv, TypeOK, Live, Expired
    <3> QED BY <1>1, <3>1, <3>2, <3>3 DEF IInv, TypeOK
  <2> QED BY <2>1, <2>2
<1> QED BY <1>1, <1>2, TaskEnds DEF IInv, TypeOK, Emits

\* The stream ends, and the task does not leave the loop before it has stored the answer.
LEMMA ProviderEndsKeepsIInv ==
    ASSUME IInv, NEW o \in Sends, ProviderEnds(o)
    PROVE  IInv'
<1>1. /\ pc[o] = "streaming" /\ Goes(o, "finishing")
      /\ UNCHANGED <<rows, context, answered, msg, excluded, late, sink>>
  BY DEF ProviderEnds, TouchesMessages
<1>2. UNCHANGED <<state, scope, due>> /\ o \in Op
  BY <1>1, SendsAreOperations DEF rows
<1>3. RowsTypeOK' /\ Leased' /\ \A p \in Op : Falls(p)
  BY <1>1, RowsStand
<1>4. TypeOK'
  BY <1>1, <1>2, <1>3 DEF IInv, TypeOK, Goes, Places
<1>5. Sound(o)' /\ Informed(o)'
  BY <1>1, <1>2 DEF IInv, TypeOK, Goes, Sound, Placed, Told, Informed, Live, Expired
<1> QED BY <1>1, <1>2, <1>3, <1>4, <1>5, TaskMoves DEF Places, IInv, TypeOK

\* The answer and the outcome are stored together, under the lease.
LEMMA PersistSuccessKeepsIInv ==
    ASSUME IInv, NEW o \in Sends, PersistSuccess(o)
    PROVE  IInv'
<1>1. /\ pc[o] = "finishing" /\ msg[o] = "streaming" /\ HoldsLease(o)
      /\ Completes(o, "succeeded")
      /\ msg' = [msg EXCEPT ![o] = "done"] /\ late' = [late EXCEPT ![o] = FALSE]
      /\ Goes(o, "over") /\ Emits(o, "done")
      /\ UNCHANGED <<context, answered, excluded>>
  BY DEF PersistSuccess, Ends
<1>2. o \in Op /\ Sound(o) /\ "succeeded" \in TerminalStates
  BY SendsAreOperations DEF IInv, TerminalStates
<1>3. /\ RowsTypeOK' /\ Leased' /\ scope'[o] = scope[o] /\ state'[o] = "succeeded" /\ Live(o)
      /\ \A p \in Op \ {o} : Falls(p)
  BY <1>1, <1>2, CompleteKeepsLease
<1>4. Told(o)'
  BY <1>1, <1>2, <1>3 DEF Sound, Placed, Told, Emits, IInv, TypeOK
<1> QED BY <1>1, <1>2, <1>3, <1>4, TaskEnds DEF IInv, TypeOK, Emits

\* Nothing is stored, and nothing is said.
LEMMA SuccessRefusedKeepsIInv ==
    ASSUME IInv, NEW o \in Sends, SuccessRefused(o)
    PROVE  IInv'
<1>1. /\ pc[o] = "finishing" /\ Goes(o, "over")
      /\ UNCHANGED <<rows, context, answered, msg, excluded, late, sink>>
  BY DEF SuccessRefused, TouchesMessages
<1>2. UNCHANGED <<state, scope, due>> /\ o \in Op
  BY <1>1, SendsAreOperations DEF rows
<1>3. RowsTypeOK' /\ Leased' /\ \A p \in Op : Falls(p)
  BY <1>1, RowsStand
<1>4. Told(o)'
  BY <1>1, <1>2 DEF IInv, Sound, Told, Live, Expired
<1> QED BY <1>1, <1>2, <1>3, <1>4, TaskEnds DEF IInv, TypeOK

\* The connection goes; the task does not notice.
LEMMA DisconnectKeepsIInv ==
    ASSUME IInv, NEW o \in Sends, Disconnect(o)
    PROVE  IInv'
<1>1. /\ sink[o] = "open" /\ sink' = [sink EXCEPT ![o] = "gone"]
      /\ UNCHANGED <<rows, pc, context, answered, msg, excluded, late>>
  BY DEF Disconnect, TouchesMessages
<1>2. UNCHANGED <<state, scope, due>> /\ o \in Op
  BY <1>1, SendsAreOperations DEF rows
<1>3. RowsTypeOK' /\ Leased' /\ \A p \in Op : Falls(p)
  BY <1>1, RowsStand
<1>4. TypeOK' /\ Fresh'
  BY <1>1, <1>2, <1>3 DEF IInv, TypeOK, Fresh
<1>5. Sound(o)' /\ Informed(o)'
  BY <1>1, <1>2 DEF IInv, TypeOK, Sound, Placed, Told, Informed, Live, Expired
<1>6. \A p \in Sends \ {o} : Falls(p) /\ Stays(p)
  BY <1>1, <1>3, SendsAreOperations DEF IInv, TypeOK, Stays
<1> QED BY <1>1, <1>2, <1>3, <1>4, <1>5, <1>6, OneSendMoves

-----------------------------------------------------------------------------
(* The inductive step: the rest of the system *)

\* The shape of the invariant after a step that is about no send.
LEMMA NoSendMoves ==
    ASSUME IInv, TypeOK', Leased', Fresh',
           \A p \in Sends : Falls(p) /\ Stays(p)
    PROVE  IInv'
<1>1. ASSUME NEW p \in Sends PROVE Sound(p)' /\ Informed(p)'
  <2>1. Falls(p) /\ Stays(p) /\ (Live(p)' => Live(p))
    BY StatesDiffer, SendsAreOperations DEF Falls
  <2>2. ASSUME NEW q \in Sends, scope'[q] = scope'[p] /\ msg'[q] = "done"
        PROVE  scope[q] = scope[p] /\ msg[q] = "done"
    BY <2>1, <2>2 DEF Falls, Stays
  <2>3. Informed(p)'
    BY <2>1, <2>2, StaysInformed DEF IInv, Stays
  <2> QED BY <2>1, <2>3, StaysSound, SendsAreOperations DEF IInv
<1> QED BY <1>1 DEF IInv

\* A metadata request takes the lease of its history like any other.
LEMMA BeginRenameKeepsIInv ==
    ASSUME IInv, NEW o \in Renames, NEW h \in History, BeginRename(o, h)
    PROVE  IInv'
<1>1. /\ pc[o] = "new" /\ BeginRows(o, h, "update_metadata")
      /\ pc' = [pc EXCEPT ![o] = "streaming"]
      /\ UNCHANGED <<context, answered, msg, excluded, late, sink>>
  BY DEF BeginRename, Goes, TouchesMessages
<1>2. o \in Op /\ o \notin Sends /\ "update_metadata" \in OperationTypes
  BY RequestsPartition DEF OperationTypes
<1>3. /\ RowsTypeOK' /\ Leased' /\ state'[o] = "running"
      /\ \A p \in Op \ {o} : Falls(p)
  BY <1>1, <1>2, BeginKeepsLease
<1>4. TypeOK'
  BY <1>1, <1>2, <1>3 DEF IInv, TypeOK, Places
<1>5. Fresh'
  BY <1>1, <1>2, <1>3, StatesDiffer DEF IInv, Fresh, TypeOK, Falls
<1>6. \A p \in Sends : Falls(p) /\ Stays(p)
  BY <1>1, <1>2, <1>3, SendsAreOperations DEF IInv, TypeOK, Stays
<1> QED BY <1>3, <1>4, <1>5, <1>6, NoSendMoves

\* It completes, or finds its lease gone.
LEMMA EndRenameKeepsIInv ==
    ASSUME IInv, NEW o \in Renames, EndRename(o)
    PROVE  IInv'
<1>1. /\ pc[o] = "streaming" /\ pc' = [pc EXCEPT ![o] = "over"]
      /\ IF Current(o, FALSE) THEN Completes(o, "succeeded") ELSE UNCHANGED rows
      /\ UNCHANGED <<context, answered, msg, excluded, late, sink>>
  BY DEF EndRename, Goes, TouchesMessages
<1>2. o \in Op /\ o \notin Sends /\ "succeeded" \in TerminalStates
  BY RequestsPartition DEF TerminalStates
<1>3. RowsTypeOK' /\ Leased' /\ \A p \in Op \ {o} : Falls(p)
  <2>1. CASE Current(o, FALSE)
    <3>1. HoldsLease(o) /\ Completes(o, "succeeded")
      BY <1>1, <2>1 DEF HoldsLease, Current
    <3> QED BY <1>2, <3>1, CompleteKeepsLease
  <2>2. CASE ~Current(o, FALSE)
    BY <1>1, <2>2, RowsStand
  <2> QED BY <2>1, <2>2
<1>4. TypeOK'
  BY <1>1, <1>2, <1>3 DEF IInv, TypeOK, Places
<1>5. Fresh'
  BY <1>1, <1>2, <1>3, StatesDiffer DEF IInv, Fresh, TypeOK, Falls
<1>6. \A p \in Sends : Falls(p) /\ Stays(p)
  BY <1>1, <1>2, <1>3, SendsAreOperations DEF IInv, TypeOK, Stays
<1> QED BY <1>3, <1>4, <1>5, <1>6, NoSendMoves

\* A deadline of an operation passes: only its due changes, and grows.
LEMMA DeadlineKeepsLease ==
    ASSUME IInv, NEW o \in Op, DeadlinePasses(o) \/ MaxRuntimePasses(o)
    PROVE  /\ RowsTypeOK' /\ Leased' /\ state' = state /\ scope' = scope
           /\ \A p \in Op : Falls(p)
           /\ due'[o] # {}
<1>1. PICK d \in Deadlines :
          /\ due' = [due EXCEPT ![o] = @ \cup {d}]
          /\ UNCHANGED <<state, kind, scope, owner, life, filled>>
  BY DEF DeadlinePasses, MaxRuntimePasses, Deadlines
<1>2. RowsTypeOK' /\ Leased'
  BY <1>1, MovingKeepsLease DEF IInv, TypeOK, RowsTypeOK, Live
<1> QED BY <1>1, <1>2 DEF Falls, IInv, TypeOK, RowsTypeOK

\* Time: the deadline of a streaming row never passes before that of its operation.
LEMMA TimePassesKeepsIInv ==
    ASSUME IInv, NEW o \in Op, TimePasses(o)
    PROVE  IInv'
<1>1. CASE (DeadlinePasses(o) \/ MaxRuntimePasses(o)) /\ UNCHANGED turns
  <2>1. UNCHANGED <<pc, context, answered, msg, excluded, late, sink>>
    BY <1>1 DEF turns
  <2>2. RowsTypeOK' /\ Leased' /\ state' = state /\ \A p \in Op : Falls(p)
    BY <1>1, DeadlineKeepsLease
  <2>3. TypeOK' /\ Fresh'
    BY <2>1, <2>2 DEF IInv, TypeOK, Fresh
  <2> QED BY <2>1, <2>2, <2>3, NoSendMoves, SendsAreOperations DEF Stays
<1>2. CASE o \in Sends /\ MessageLate(o)
  <2>1. /\ msg[o] = "streaming" /\ ~late[o] /\ late' = [late EXCEPT ![o] = TRUE]
        /\ UNCHANGED <<pc, context, answered, msg, excluded, sink>>
        /\ IF "deadline" \in due[o] \/ ~Live(o) THEN UNCHANGED rows ELSE DeadlinePasses(o)
    BY <1>2 DEF MessageLate
  <2>2. /\ RowsTypeOK' /\ Leased' /\ state' = state /\ scope' = scope
        /\ \A p \in Op : Falls(p)
        /\ Live(o) => due'[o] # {}
    <3>1. CASE "deadline" \in due[o] \/ ~Live(o)
      <4>1. UNCHANGED rows /\ UNCHANGED <<state, scope, due>>
        BY <2>1, <3>1 DEF rows
      <4>2. Live(o) => due'[o] # {}
        BY <3>1, <4>1
      <4> QED BY <4>1, <4>2, RowsStand
    <3>2. CASE ~("deadline" \in due[o] \/ ~Live(o))
      BY <2>1, <3>2, DeadlineKeepsLease
    <3> QED BY <3>1, <3>2
  <2>3. TypeOK' /\ Fresh'
    BY <2>1, <2>2 DEF IInv, TypeOK, Fresh
  <2>4. Sound(o)' /\ Informed(o)'
    BY <1>2, <2>1, <2>2 DEF IInv, TypeOK, Sound, Placed, Told, Informed, Live, Expired
  <2>5. \A p \in Sends \ {o} : Falls(p) /\ Stays(p)
    BY <1>2, <2>1, <2>2, SendsAreOperations DEF IInv, TypeOK, Stays
  <2> QED BY <1>2, <2>1, <2>2, <2>3, <2>4, <2>5, OneSendMoves
<1> QED BY <1>1, <1>2 DEF TimePasses

\* Housekeeping closes every streaming row of the history of a stale operation: the rows of
\* that operation, for nobody else is live there.
LEMMA HousekeepingKeepsIInv ==
    ASSUME IInv, Housekeeping
    PROVE  IInv'
<1>1. /\ \A p \in Sends : pc[p] \notin {"starting", "finishing"}
      /\ CloseRows(StaleOperations, {h \in History : owner[h] \in StaleOperations}, {})
      /\ ClosesStale(TurnsOfStale \cup LateTurns)
      /\ UNCHANGED <<pc, context, answered, sink>>
  BY DEF Housekeeping, LoopFree
<1>2. /\ RowsTypeOK' /\ Leased'
      /\ \A p \in Op : Falls(p) /\ (Live(p)' <=> Live(p) /\ p \notin StaleOperations)
  BY <1>1, CloseKeepsLease
<1>3. TypeOK'
  BY <1>1, <1>2 DEF IInv, TypeOK, ClosesStale
<1>4. Fresh'
  BY <1>1, <1>2, StatesDiffer DEF IInv, Fresh, Falls
<1>5. ASSUME NEW p \in TurnsOfStale \cup LateTurns
      PROVE  p \in Sends /\ p \in Op /\ msg[p] = "streaming" /\ ~Live(p)'
  <2>1. p \in Sends /\ p \in Op /\ msg[p] = "streaming"
    BY SendsAreOperations DEF TurnsOfStale, LateTurns
  <2>2. CASE Live(p) /\ p \in TurnsOfStale
    <3>1. PICK q \in StaleOperations : scope[q] = scope[p]
      BY <2>2 DEF TurnsOfStale
    <3>2. p = q
      BY <2>1, <2>2, <3>1, LeaseIsExclusive DEF IInv, StaleOperations
    <3> QED BY <1>2, <2>1, <3>1, <3>2
  <2>3. CASE Live(p) /\ p \in LateTurns
    <3>1. p \in StaleOperations
      BY <2>1, <2>3 DEF LateTurns, StaleOperations, IInv, Sound, Told
    <3> QED BY <1>2, <2>1, <3>1
  <2>4. CASE ~Live(p)
    BY <1>2, <2>1, <2>4
  <2> QED BY <2>1, <2>2, <2>3, <2>4
<1>6. ASSUME NEW p \in Sends PROVE Sound(p)'
  <2>1. CASE p \notin TurnsOfStale \cup LateTurns
    <3>1. Stays(p)
      BY <1>1, <2>1 DEF ClosesStale, Stays, IInv, TypeOK
    <3> QED BY <1>2, <3>1, StaysSound, SendsAreOperations DEF IInv
  <2>2. CASE p \in TurnsOfStale \cup LateTurns
    <3>1. /\ msg[p] = "streaming" /\ p \in Op /\ ~Live(p)' /\ Sound(p)
          /\ msg'[p] = "error" /\ excluded'[p] = TRUE /\ late'[p] = FALSE
          /\ UNCHANGED <<pc, sink>>
      BY <1>1, <1>5, <2>2 DEF ClosesStale, IInv
    <3>2. state'[p] = "timed_out"
      BY <1>2, <3>1, StatesDiffer DEF Sound, Told, Falls
    <3>3. Placed(p)'
      BY <3>1, <3>2 DEF Sound, Placed, Told
    <3>4. Told(p)'
      BY <3>1, <3>2 DEF Sound, Told
    <3> QED BY <3>3, <3>4 DEF Sound
  <2> QED BY <2>1, <2>2
<1>7. ASSUME NEW p \in Sends PROVE Informed(p)'
  <2>1. Live(p)' => Live(p)
    BY <1>2, SendsAreOperations
  <2>2. ASSUME NEW q \in Sends, scope'[q] = scope'[p] /\ msg'[q] = "done"
        PROVE  scope[q] = scope[p] /\ msg[q] = "done"
    BY <1>1, <1>2, <2>2, SendsAreOperations DEF Falls, ClosesStale
  <2> QED BY <1>1, <2>1, <2>2, StaysInformed DEF IInv
<1> QED BY <1>2, <1>3, <1>4, <1>6, <1>7 DEF IInv

\* The process dies: every task is over, and no stream is open.
LEMMA CrashKeepsIInv ==
    ASSUME IInv, Crash
    PROVE  IInv'
<1>1. /\ pc' = [o \in Op |-> IF pc[o] = "new" THEN "new" ELSE "over"]
      /\ sink' = [o \in Sends |-> IF sink[o] = "open" THEN "gone" ELSE sink[o]]
      /\ UNCHANGED <<rows, context, answered, msg, excluded, late>>
  BY DEF Crash, TouchesMessages
<1>2. RowsTypeOK' /\ Leased' /\ UNCHANGED <<state, scope, due>>
  BY <1>1, RowsStand DEF rows
<1>3. TypeOK'
  BY <1>1, <1>2 DEF IInv, TypeOK, Places
<1>4. Fresh'
  BY <1>1, <1>2 DEF IInv, Fresh
<1>5. ASSUME NEW p \in Sends PROVE Sound(p)' /\ Informed(p)'
  BY <1>1, <1>2, SendsAreOperations DEF IInv, Sound, Placed, Told, Informed, Live, Expired
<1> QED BY <1>2, <1>3, <1>4, <1>5 DEF IInv

-----------------------------------------------------------------------------
(* The invariant *)

\* Nothing has begun.
LEMMA InitSound == Init => IInv
<1> SUFFICES ASSUME Init PROVE IInv
  OBVIOUS
<1>1. \A o \in Op : state[o] = "absent" /\ pc[o] = "new" /\ due[o] = {}
  BY DEF Init, RowsInit
<1>2. RowsTypeOK
  BY DEF Init, RowsInit, RowsTypeOK
<1>3. TypeOK
  BY <1>2 DEF Init, TypeOK, Places
<1>4. Leased
  BY <1>1, StatesDiffer DEF Init, RowsInit, Leased
<1>5. \A o \in Sends : Sound(o) /\ Informed(o)
  BY <1>1, SendsAreOperations DEF Init, Sound, Placed, Told, Informed
<1> QED BY <1>1, <1>3, <1>4, <1>5 DEF IInv, Fresh

\* One lemma per action.
LEMMA StepKeepsIInv == IInv /\ [Next]_vars => IInv'
<1> SUFFICES ASSUME IInv, [Next]_vars PROVE IInv'
  OBVIOUS
<1>1. ASSUME NEW o \in Sends, SendStep(o) PROVE IInv'
  <2>1. CASE \E h \in History : BeginSend(o, h)
    BY <2>1, BeginSendKeepsIInv
  <2>2. CASE BuildContext(o)
    BY <2>2, BuildContextKeepsIInv
  <2>3. CASE \E outcome \in {"failed", "timed_out"} : PrestartFails(o, outcome)
    BY <2>3, PrestartFailsKeepsIInv
  <2>4. CASE Transition(o)
    BY <2>4, TransitionKeepsIInv
  <2>5. CASE PersistTurn(o)
    BY <2>5, PersistTurnKeepsIInv
  <2>6. CASE StartRefused(o)
    BY <2>6, StartRefusedKeepsIInv
  <2>7. CASE ProviderEvent(o)
    BY <2>7, ProviderEventKeepsIInv
  <2>8. CASE ProviderTimesOut(o)
    <3>1. /\ pc[o] = "streaming"
          /\ RecordsFailure(o, "timed_out", ~answered[o])
          /\ Ends(o, "error") /\ UNCHANGED <<context, answered>>
      BY <2>8 DEF ProviderTimesOut, IncludedAfterError
    <3>2. answered[o] \in BOOLEAN
      BY DEF IInv, TypeOK
    <3> QED BY <3>1, <3>2, FailureKeepsIInv
  <2>9. CASE \E expected \in BOOLEAN : ProviderFails(o, expected)
    <3>1. PICK expected \in BOOLEAN : ProviderFails(o, expected)
      BY <2>9
    <3>2. /\ pc[o] = "streaming"
          /\ RecordsFailure(o, "failed", ~(expected /\ answered[o]))
          /\ Ends(o, "error") /\ UNCHANGED <<context, answered>>
      BY <3>1 DEF ProviderFails, IncludedAfterError
    <3>3. answered[o] \in BOOLEAN
      BY DEF IInv, TypeOK
    <3> QED BY <3>2, <3>3, FailureKeepsIInv
  <2>10. CASE ProviderEnds(o)
    BY <2>10, ProviderEndsKeepsIInv
  <2>11. CASE PersistSuccess(o)
    BY <2>11, PersistSuccessKeepsIInv
  <2>12. CASE SuccessRefused(o)
    BY <2>12, SuccessRefusedKeepsIInv
  <2>13. CASE Disconnect(o)
    BY <2>13, DisconnectKeepsIInv
  <2> QED BY <1>1, <2>1, <2>2, <2>3, <2>4, <2>5, <2>6, <2>7, <2>8, <2>9, <2>10, <2>11, <2>12,
             <2>13 DEF SendStep
<1>2. ASSUME NEW o \in Renames, RenameStep(o) PROVE IInv'
  BY <1>2, BeginRenameKeepsIInv, EndRenameKeepsIInv DEF RenameStep
<1>3. CASE UNCHANGED vars
  <2>1. UNCHANGED <<rows, pc, context, answered, msg, excluded, late, sink>>
    BY <1>3 DEF vars, turns
  <2>2. RowsTypeOK' /\ Leased' /\ \A p \in Op : Falls(p)
    BY <2>1, RowsStand
  <2>3. TypeOK' /\ Fresh'
    BY <2>1, <2>2 DEF IInv, TypeOK, Fresh, rows
  <2> QED BY <2>1, <2>2, <2>3, NoSendMoves, SendsAreOperations DEF Stays
<1> QED BY <1>1, <1>2, <1>3, TimePassesKeepsIInv, HousekeepingKeepsIInv, CrashKeepsIInv DEF Next

\* The invariant of a chat turn, for every set of sends, renames and histories: the
\* columns have their types, the lease is exclusive, and the rows, the stream and the
\* context of each send are what the place of its task allows.
THEOREM Inductive == Spec => []IInv
BY InitSound, StepKeepsIInv, PTL DEF Spec

-----------------------------------------------------------------------------
(* What follows *)

\* Every column keeps its type and every operation row points at a history row, through
\* recoveries, housekeeping and crashes.
THEOREM TypeCorrect == Spec => []TypeOK
<1>1. IInv => TypeOK
  BY DEF IInv
<1> QED BY <1>1, Inductive, PTL

\* The assistant row and its operation never tell two stories: persist_chat_turn_success and
\* persist_chat_turn_failure write both or neither, and a turn closed by housekeeping
\* belongs to an operation that is closed with it or was closed before.
THEOREM RowsAgree == Spec => []OutcomeMatchesMessage
<1>1. IInv => OutcomeMatchesMessage
  BY DEF IInv, Sound, Told, OutcomeMatchesMessage
<1> QED BY <1>1, Inductive, PTL

\* What the client was shown last is what is stored, whoever took the lease meanwhile.
THEOREM StreamTellsTheOutcome == Spec => []ClientSeesOutcome
<1>1. IInv => ClientSeesOutcome
  BY DEF IInv, Sound, Told, ClientSeesOutcome
<1> QED BY <1>1, Inductive, PTL

\* A turn that starts has read every answer its history holds: until then it was the only
\* live operation there, and only a live operation stores an answer.
THEOREM StartsKnowEverything == Spec => ContextIsComplete
<1>1. IInv /\ [Next]_vars =>
        [\A o \in Sends :
            PersistTurn(o) =>
                \A p \in Sends :
                    scope[p] = scope[o] /\ msg[p] = "done" => <<"answer", p>> \in context[o]]_vars
  <2> SUFFICES ASSUME IInv, NEW o \in Sends, PersistTurn(o), NEW p \in Sends,
                      scope[p] = scope[o], msg[p] = "done"
               PROVE  <<"answer", p>> \in context[o]
    OBVIOUS
  <2>1. pc[o] = "starting" /\ Live(o)
    BY DEF PersistTurn, Current
  <2> QED BY <2>1 DEF IInv, Informed
<1> QED BY <1>1, Inductive, PTL DEF Spec, ContextIsComplete

\* The rows of a turn that failed without its whole answer are excluded when they are closed,
\* so no context read later has its prompt (should_include_error_turn).
THEOREM FailuresAreNotRead == Spec => FailedTurnsStayOut
<1>1. IInv /\ [Next]_vars =>
        [\A o \in Sends :
            BuildContext(o) =>
                \A p \in Sends :
                    <<"prompt", p>> \in context'[o] /\ msg[p] = "error" => answered[p]]_vars
  <2> SUFFICES ASSUME IInv, NEW o \in Sends, BuildContext(o), NEW p \in Sends,
                      <<"prompt", p>> \in context'[o], msg[p] = "error"
               PROVE  answered[p]
    OBVIOUS
  <2>1. <<"prompt", p>> \in VisibleMessages(scope[o])
    BY DEF BuildContext, IInv, TypeOK
  <2>2. ~excluded[p]
    BY <2>1 DEF VisibleMessages
  <2> QED BY <2>2 DEF IInv, Sound, Told
<1> QED BY <1>1, Inductive, PTL DEF Spec, FailedTurnsStayOut

-----------------------------------------------------------------------------
(***************************************************************************)
(* Compaction forgets no answer, for every set of sends and histories.     *)
(*                                                                         *)
(* The invariant of a chat turn (Inductive) holds here too, because        *)
(* a context made of a summary and a suffix still has every answer.  That  *)
(* in turn needs the summary under way of a request that holds its lease   *)
(* to have every answer as well (Summarised), and the turns that may still *)
(* be answered to be numbered after the checkpoint (AnswersComeAfter): a   *)
(* checkpoint covers rows that have no text yet, but none of a turn that   *)
(* is alive.                                                               *)
(***************************************************************************)

\* The sequence columns, and what is under way.
MemoryTypeOK ==
    /\ number \in [Sends -> 0..Cardinality(Sends)]
    /\ checkpoint \in [History -> Checkpoint]
    /\ source \in [Sends -> Checkpoint \cup {NoSource}]
    /\ compacted \in [Sends -> BOOLEAN]

\* The turns a history has numbered.
Numbered(h) == {p \in Sends : scope[p] = h /\ number[p] > 0}

\* A turn is numbered when its rows are written, and counted by the history.
NumbersCount ==
    \A p \in Sends :
        /\ msg[p] = "none" => number[p] = 0
        /\ number[p] > 0 => number[p] <= Cardinality(Numbered(scope[p]))

\* What is covered up to c in history h is a turn of h, or nothing.
CoversTurn(h, c) == c = 0 \/ \E q \in Sends : scope[q] = h /\ number[q] >= c

\* A turn that may still be answered comes after the checkpoint.
AnswersComeAfter ==
    \A p \in Sends :
        msg[p] = "streaming" /\ Live(p) => number[p] > checkpoint[scope[p]].covers

\* The summary under way for a request that holds its lease has every answer of the
\* history, and would not take the checkpoint back.
Summarised(o) ==
    source[o] # NoSource /\ pc[o] = "ready" /\ Live(o) =>
        /\ source[o].covers >= checkpoint[scope[o]].covers
        /\ CoversTurn(scope[o], source[o].covers)
        /\ \A p \in Sends :
              scope[p] = scope[o] /\ msg[p] = "done" => <<"answer", p>> \in source[o].summary

CInv ==
    /\ IInv
    /\ MemoryTypeOK
    /\ NumbersCount
    /\ \A h \in History : CoversTurn(h, checkpoint[h].covers)
    /\ AnswersComeAfter
    /\ \A o \in Sends :
          /\ pc[o] \in {"new", "preparing"} => source[o] = NoSource
          /\ Summarised(o)
    /\ AnswersAreRemembered

-----------------------------------------------------------------------------
(* The greatest of a bounded set of numbers *)

Below == {ss \in Nat \X Nat : ss[1] < ss[2]}

LEMMA BelowIsWellFounded == IsWellFoundedOn(Below, Nat)
BY NatLessThanWellFounded DEF OpToRel, Below

LEMMA HasLeast ==
    ASSUME NEW T \in SUBSET Nat, T # {}
    PROVE  \E x \in T : \A y \in T : x <= y
<1>1. PICK x \in T : \A y \in T : ~ (<<y, x>> \in Below)
  BY BelowIsWellFounded, WFMin
<1>2. ASSUME NEW y \in T PROVE x <= y
  <2>1. ~(y < x)
    BY <1>1 DEF Below
  <2> QED BY <2>1
<1> QED BY <1>2

\* Max of the community modules is what it says, on a bounded set.
LEMMA MaxIsGreatest ==
    ASSUME NEW n \in Nat, NEW T \in SUBSET (0..n), T # {}
    PROVE  /\ Max(T) \in T /\ \A y \in T : y <= Max(T)
           /\ Max(T) \in Nat
<1> DEFINE U == {m \in Nat : \A y \in T : y <= m}
<1>1. n \in U
  OBVIOUS
<1>2. PICK m \in U : \A k \in U : m <= k
  BY <1>1, HasLeast
<1>3. m \in T
  <2> SUFFICES ASSUME m \notin T PROVE FALSE
    OBVIOUS
  <2>1. \A y \in T : y <= m /\ y # m
    BY <1>2
  <2>2. PICK y \in T : TRUE
    OBVIOUS
  <2>3. m - 1 \in Nat
    BY <2>1, <2>2, <1>2
  <2>4. m - 1 \in U
    BY <2>1, <2>3
  <2> QED BY <1>2, <2>4
<1>4. \E x \in T : \A y \in T : x >= y
  BY <1>2, <1>3
<1>5. Max(T) \in T /\ \A y \in T : Max(T) >= y
  BY <1>4 DEF Max
<1>6. PICK x \in T : x = Max(T)
  BY <1>5
<1>7. x \in 0..n /\ n \in Nat
  OBVIOUS
<1>8. x \in Nat
  BY <1>7
<1> QED BY <1>5, <1>6, <1>8

LEMMA SendsAreCounted == Cardinality(Sends) \in Nat
BY SendsFinite, FS_CardinalityType

-----------------------------------------------------------------------------
(* Facts of a state *)

\* A turn that has rows is a turn of a history, and has begun.
LEMMA RowsHaveHistory ==
    ASSUME IInv, NEW p \in Sends, msg[p] # "none" \/ Live(p)
    PROVE  scope[p] \in History /\ pc[p] # "new" /\ p \in Op
<1>1. p \in Op /\ Sound(p) /\ TypeOK /\ Fresh
  BY SendsAreOperations DEF IInv
<1>2. state[p] # "absent"
  BY <1>1, StatesDiffer DEF Sound, Told, TypeOK
<1> QED BY <1>1, <1>2 DEF TypeOK, RowsTypeOK, Fresh

\* A numbered turn has begun, and belongs to a history.
LEMMA NumberedHasBegun ==
    ASSUME IInv, MemoryTypeOK, NumbersCount, NEW p \in Sends, number[p] > 0
    PROVE  pc[p] # "new" /\ scope[p] \in History
<1>1. msg[p] # "none"
  BY SendsAreCounted DEF NumbersCount, MemoryTypeOK
<1> QED BY <1>1, RowsHaveHistory

\* An answer after the checkpoint is part of a context, and so is one in the summary.
LEMMA KnownAnswers ==
    \A h \in History, p \in Sends :
        /\ IInv /\ msg[p] = "done" /\ scope[p] = h
        /\ \/ number[p] > checkpoint[h].covers
           \/ <<"answer", p>> \in checkpoint[h].summary
        => <<"answer", p>> \in Known(h)
<1> SUFFICES ASSUME NEW h \in History, NEW p \in Sends, IInv, msg[p] = "done", scope[p] = h,
                    \/ number[p] > checkpoint[h].covers
                    \/ <<"answer", p>> \in checkpoint[h].summary
             PROVE  <<"answer", p>> \in Known(h)
  OBVIOUS
<1>1. ~excluded[p]
  BY DEF IInv, Sound, Told, TypeOK
<1>2. <<"answer", p>> \in VisibleMessages(h)
  BY <1>1 DEF VisibleMessages, Messages
<1>3. number[p] > checkpoint[h].covers => p \in Suffix(h)
  BY <1>1 DEF Suffix
<1> QED BY <1>2, <1>3 DEF Known

\* The same of the next state.
LEMMA KnownAnswersNext ==
    (\A h \in History, p \in Sends :
        /\ IInv /\ msg[p] = "done" /\ scope[p] = h
        /\ \/ number[p] > checkpoint[h].covers
           \/ <<"answer", p>> \in checkpoint[h].summary
        => <<"answer", p>> \in Known(h))'
BY KnownAnswers, PTL

\* Nothing but answers after the checkpoint and in the summary is known of a turn.
LEMMA KnownIsCovered ==
    ASSUME CInv, NEW p \in Sends, msg[p] = "done"
    PROVE  /\ scope[p] \in History
           /\ \/ number[p] > checkpoint[scope[p]].covers
              \/ <<"answer", p>> \in checkpoint[scope[p]].summary
<1>1. scope[p] \in History
  BY RowsHaveHistory DEF CInv
<1>2. <<"answer", p>> \in Known(scope[p])
  BY DEF CInv, AnswersAreRemembered
<1> QED BY <1>1, <1>2 DEF Known, Suffix

\* What the source of a compaction would cover: the checkpoint at least, and a turn.
LEMMA CoverageFacts ==
    ASSUME CInv, NEW h \in History
    PROVE  /\ Coverage(h) \in 0..Cardinality(Sends)
           /\ checkpoint[h].covers <= Coverage(h)
           /\ CoversTurn(h, Coverage(h))
<1> DEFINE T == {number[p] : p \in Suffix(h)} \cup {checkpoint[h].covers}
<1>1. Suffix(h) \subseteq Sends /\ MemoryTypeOK
  BY DEF Suffix, CInv
<1>2. T \in SUBSET (0..Cardinality(Sends)) /\ T # {}
  BY <1>1 DEF MemoryTypeOK, Checkpoint
<1>3. Max(T) \in T /\ \A y \in T : y <= Max(T)
  BY <1>2, SendsAreCounted, MaxIsGreatest
<1>4. Coverage(h) = Max(T)
  BY DEF Coverage
<1> HIDE DEF T
<1>5. checkpoint[h].covers \in T
  BY DEF T
<1>6. CoversTurn(h, Coverage(h))
  <2>1. CASE Coverage(h) = checkpoint[h].covers
    BY <2>1 DEF CInv
  <2>2. CASE \E p \in Suffix(h) : Coverage(h) = number[p]
    <3>1. PICK p \in Suffix(h) : Coverage(h) = number[p]
      BY <2>2
    <3>2. p \in Sends /\ scope[p] = h /\ number[p] \in Nat
      BY <1>1, <3>1, SendsAreCounted DEF Suffix, MemoryTypeOK
    <3> QED BY <3>1, <3>2 DEF CoversTurn
  <2> QED BY <1>3, <1>4, <2>1, <2>2 DEF T
<1> QED BY <1>2, <1>3, <1>4, <1>5, <1>6

-----------------------------------------------------------------------------
(* Steps that leave the checkpoints, the numbers and the sources alone *)

\* What such a step may do to a turn.
Follows(p) ==
    /\ scope'[p] = scope[p] \/ pc[p] = "new"
    /\ msg'[p] = "none" => msg[p] = "none"
    /\ pc'[p] \in {"new", "preparing"} => pc[p] \in {"new", "preparing"}
    /\ msg'[p] = "streaming" /\ Live(p)' => msg[p] = "streaming" /\ Live(p)
    /\ pc'[p] = "ready" /\ Live(p)' => source[p] = NoSource \/ (pc[p] = "ready" /\ Live(p))
    /\ msg'[p] = "done" => msg[p] = "done" \/ (msg[p] = "streaming" /\ Live(p))

\* Coverage, and the count of the numbers of a history, depend on turns that have begun.
LEMMA CoversStay ==
    ASSUME CInv, UNCHANGED number, \A p \in Sends : scope'[p] = scope[p] \/ pc[p] = "new",
           NEW h \in History, NEW c \in Nat, CoversTurn(h, c)
    PROVE  CoversTurn(h, c)'
<1>1. SUFFICES ASSUME c # 0 PROVE \E q \in Sends : scope'[q] = h /\ number[q] >= c
  BY DEF CoversTurn
<1>2. PICK q \in Sends : scope[q] = h /\ number[q] >= c
  BY <1>1 DEF CoversTurn
<1>3. number[q] > 0
  BY <1>1, <1>2, SendsAreCounted DEF CInv, MemoryTypeOK
<1>4. pc[q] # "new"
  BY <1>3, NumberedHasBegun DEF CInv
<1> QED BY <1>2, <1>4

LEMMA NumberedStays ==
    ASSUME CInv, UNCHANGED number, \A p \in Sends : scope'[p] = scope[p] \/ pc[p] = "new",
           NEW h \in History
    PROVE  Numbered(h)' = Numbered(h)
<1>1. ASSUME NEW p \in Sends, number[p] > 0 PROVE scope'[p] = scope[p]
  BY <1>1, NumberedHasBegun DEF CInv
<1> QED BY <1>1 DEF Numbered

\* The lease decides: an answer is stored by the one live turn of a history, which comes
\* after the checkpoint, and while it lives no other request of the history does.
LEMMA FollowKeepsCInv ==
    ASSUME CInv, IInv', UNCHANGED memory, \A p \in Sends : Follows(p)
    PROVE  CInv'
<1>1. UNCHANGED <<number, checkpoint, source, compacted>>
  BY DEF memory
<1>2. /\ IInv /\ MemoryTypeOK /\ NumbersCount /\ AnswersComeAfter
      /\ \A p \in Sends : scope'[p] = scope[p] \/ pc[p] = "new"
  BY DEF CInv, Follows
<1>3. \A h \in History : checkpoint[h].covers \in Nat
  BY <1>2, SendsAreCounted DEF MemoryTypeOK, Checkpoint
<1>4. MemoryTypeOK'
  BY <1>1, <1>2 DEF MemoryTypeOK
<1>5. NumbersCount'
  <2>1. ASSUME NEW p \in Sends, number[p] > 0
        PROVE  number[p] <= Cardinality(Numbered(scope[p])')
    <3>1. pc[p] # "new" /\ scope[p] \in History
      BY <1>2, <2>1, NumberedHasBegun
    <3>2. Numbered(scope[p])' = {q \in Sends : scope'[q] = scope'[p] /\ number[q] > 0}
      BY <1>1 DEF Numbered
    <3>3. scope'[p] = scope[p]
      BY <1>2, <3>1
    <3>4. \A h \in History : Numbered(h)' = Numbered(h)
      BY <1>1, <1>2, NumberedStays
    <3>5. Numbered(scope[p])' = Numbered(scope[p])
      BY <1>1, <3>1, <3>2, <3>3, <3>4 DEF Numbered
    <3> QED BY <1>2, <2>1, <3>5 DEF NumbersCount
  <2>2. \A p \in Sends : msg'[p] = "none" => number[p] = 0
    BY <1>2 DEF Follows, NumbersCount
  <2> QED BY <1>1, <2>1, <2>2 DEF NumbersCount
<1>6. \A h \in History : CoversTurn(h, checkpoint[h].covers)'
  <2> SUFFICES ASSUME NEW h \in History PROVE CoversTurn(h, checkpoint[h].covers)'
    OBVIOUS
  <2>1. PICK c \in Nat : c = checkpoint[h].covers /\ CoversTurn(h, c)
    BY <1>3 DEF CInv
  <2>2. CoversTurn(h, c)'
    BY <1>1, <1>2, <2>1, CoversStay
  <2> QED BY <1>1, <2>1, <2>2 DEF CoversTurn
<1>7. AnswersComeAfter'
  <2> SUFFICES ASSUME NEW p \in Sends, msg'[p] = "streaming", Live(p)'
               PROVE  number[p] > checkpoint[scope'[p]].covers
    BY <1>1 DEF AnswersComeAfter
  <2>1. msg[p] = "streaming" /\ Live(p)
    BY DEF Follows
  <2>2. scope'[p] = scope[p]
    BY <1>2, <2>1, RowsHaveHistory
  <2> QED BY <1>2, <2>1, <2>2 DEF AnswersComeAfter
<1>8. \A o \in Sends : pc'[o] \in {"new", "preparing"} => source'[o] = NoSource
  BY <1>1 DEF Follows, CInv
<1>9. ASSUME NEW o \in Sends PROVE Summarised(o)'
  <2> SUFFICES ASSUME source[o] # NoSource, pc'[o] = "ready", Live(o)'
               PROVE  /\ source[o].covers >= checkpoint[scope'[o]].covers
                      /\ CoversTurn(scope[o], source[o].covers)'
                      /\ \A p \in Sends :
                            scope'[p] = scope'[o] /\ msg'[p] = "done" =>
                                <<"answer", p>> \in source[o].summary
    BY <1>1 DEF Summarised
  <2>1. pc[o] = "ready" /\ Live(o)
    BY DEF Follows
  <2>2. scope'[o] = scope[o] /\ scope[o] \in History /\ o \in Op
    BY <1>2, <2>1, RowsHaveHistory
  <2>3. Summarised(o) /\ source[o].covers \in Nat
    BY <1>2, SendsAreCounted DEF CInv, MemoryTypeOK, Checkpoint
  <2>4. CoversTurn(scope[o], source[o].covers)'
    <3>1. PICK h \in History, c \in Nat : h = scope[o] /\ c = source[o].covers /\ CoversTurn(h, c)
      BY <2>1, <2>2, <2>3 DEF Summarised
    <3>2. CoversTurn(h, c)'
      BY <1>1, <1>2, <3>1, CoversStay
    <3> QED BY <1>1, <2>2, <3>1, <3>2 DEF CoversTurn
  <2>5. ASSUME NEW p \in Sends, scope'[p] = scope'[o], msg'[p] = "done"
        PROVE  <<"answer", p>> \in source[o].summary
    <3>1. msg[p] = "done" \/ (msg[p] = "streaming" /\ Live(p))
      BY <2>5 DEF Follows
    <3>2. scope'[p] = scope[p] /\ p \in Op
      BY <1>2, <3>1, RowsHaveHistory
    <3>3. CASE msg[p] = "done"
      BY <2>1, <2>2, <2>3, <2>5, <3>2, <3>3 DEF Summarised
    <3>4. CASE msg[p] = "streaming" /\ Live(p)
      <4>1. p = o
        BY <1>2, <2>1, <2>2, <2>5, <3>2, <3>4, LeaseIsExclusive DEF IInv
      <4>2. msg[o] = "none"
        BY <1>2, <2>1 DEF IInv, Sound, Placed
      <4> QED BY <3>4, <4>1, <4>2
    <3> QED BY <3>1, <3>3, <3>4
  <2> QED BY <2>1, <2>2, <2>3, <2>4, <2>5 DEF Summarised
<1>10. AnswersAreRemembered'
  <2> SUFFICES ASSUME NEW p \in Sends, msg'[p] = "done"
               PROVE  (<<"answer", p>> \in Known(scope[p]))'
    BY DEF AnswersAreRemembered
  <2>1. msg[p] = "done" \/ (msg[p] = "streaming" /\ Live(p))
    BY DEF Follows
  <2>2. scope'[p] = scope[p] /\ scope[p] \in History
    BY <1>2, <2>1, RowsHaveHistory
  <2>3. \/ number[p] > checkpoint[scope[p]].covers
        \/ <<"answer", p>> \in checkpoint[scope[p]].summary
    BY <1>2, <2>1, KnownIsCovered DEF AnswersComeAfter
  <2>4. \/ number'[p] > checkpoint'[scope'[p]].covers
        \/ <<"answer", p>> \in checkpoint'[scope'[p]].summary
    BY <1>1, <2>2, <2>3
  <2>5. ASSUME NEW h \in History, scope'[p] = h
        PROVE  (<<"answer", p>> \in Known(h))'
    <3>1. (IInv /\ msg[p] = "done" /\ scope[p] = h
             /\ (number[p] > checkpoint[h].covers \/ <<"answer", p>> \in checkpoint[h].summary)
             => <<"answer", p>> \in Known(h))'
      BY KnownAnswersNext
    <3> QED BY <2>4, <2>5, <3>1
  <2> QED BY <2>2, <2>5
<1> QED BY <1>4, <1>5, <1>6, <1>7, <1>8, <1>9, <1>10 DEF CInv

\* A step that leaves the histories of the operations, brings none to life, stores an answer
\* at most for a live turn and builds no context.
LEMMA StepsFollow ==
    ASSUME NEW p \in Sends, scope'[p] = scope[p], Live(p)' => Live(p),
           pc'[p] = pc[p] \/ pc'[p] \notin {"new", "preparing", "ready"},
           \/ msg'[p] = msg[p] \/ msg'[p] = "error"
           \/ msg'[p] = "done" /\ msg[p] = "streaming" /\ Live(p)
    PROVE  Follows(p)
BY DEF Follows

\* What the transactions of a turn that has begun do to the operations.
LEMMA RowsFollow ==
    ASSUME IInv, NEW o \in Sends,
           \/ UNCHANGED rows
           \/ \E outcome \in TerminalStates : Completes(o, outcome)
           \/ Live(o) /\ TransitionRows(o)
           \/ DeadlinePasses(o) \/ MaxRuntimePasses(o)
    PROVE  \A p \in Sends : scope'[p] = scope[p] /\ (Live(p)' => Live(p))
<1>1. o \in Op /\ Sends \subseteq Op /\ state \in [Op -> LiveStates \cup TerminalStates \cup {"absent"}]
  BY SendsAreOperations DEF IInv, TypeOK, RowsTypeOK
<1>2. CASE UNCHANGED rows
  BY <1>2 DEF rows, Live
<1>3. CASE \E outcome \in TerminalStates : Completes(o, outcome)
  BY <1>1, <1>3 DEF Completes, CompleteRows, Live, LiveStates, TerminalStates
<1>4. CASE Live(o) /\ TransitionRows(o)
  BY <1>1, <1>4 DEF TransitionRows, Live, LiveStates
<1>5. CASE DeadlinePasses(o) \/ MaxRuntimePasses(o)
  BY <1>5 DEF DeadlinePasses, MaxRuntimePasses, Live
<1> QED BY <1>2, <1>3, <1>4, <1>5

LEMMA BeginFollows ==
    ASSUME IInv, NEW o \in Sends, NEW h \in History, BeginSend(o, h)
    PROVE  \A p \in Sends : Follows(p)
<1>1. /\ o \in Op /\ "send" \in OperationTypes /\ pc[o] = "new"
      /\ BeginRows(o, h, "send")
      /\ pc' = [pc EXCEPT ![o] = "preparing"] /\ msg' = msg
  BY SendsAreOperations DEF OperationTypes, BeginSend, Goes, TouchesMessages
<1>2. \A p \in Op \ {o} : Falls(p)
  BY <1>1, BeginKeepsLease
<1>3. ASSUME NEW p \in Sends \ {o} PROVE Follows(p)
  <2>1. p \in Op \ {o} /\ pc'[p] = pc[p]
    BY <1>1, SendsAreOperations DEF IInv, TypeOK
  <2>2. scope'[p] = scope[p] /\ (Live(p)' => Live(p))
    BY <1>2, <2>1, StatesDiffer DEF Falls
  <2> QED BY <1>1, <2>1, <2>2, StepsFollow
<1>4. Follows(o)
  <2>1. pc'[o] = "preparing" /\ msg'[o] = "none"
    BY <1>1 DEF IInv, TypeOK, Sound, Placed
  <2> QED BY <1>1, <2>1 DEF Follows
<1> QED BY <1>3, <1>4

\* The steps of a request that has begun.
LEMMA OtherFollows ==
    ASSUME IInv, NEW o \in Sends, OtherStep(o)
    PROVE  \A p \in Sends : Follows(p)
<1>1. CASE \E h \in History : BeginSend(o, h)
  BY <1>1, BeginFollows
<1>2. CASE \E outcome \in {"failed", "timed_out"} : PrestartFails(o, outcome)
  <2>1. PICK outcome \in {"failed", "timed_out"} : PrestartFails(o, outcome)
    BY <1>2
  <2>2. UNCHANGED rows \/ \E t \in TerminalStates : Completes(o, t)
    BY <2>1 DEF PrestartFails, TerminalStates
  <2>3. pc' = [pc EXCEPT ![o] = "over"] /\ msg' = msg
    BY <2>1 DEF PrestartFails, Ends, Goes, TouchesMessages
  <2>4. \A p \in Sends : pc'[p] = pc[p] \/ pc'[p] = "over"
    BY <2>3, SendsAreOperations DEF IInv, TypeOK
  <2> QED BY <2>2, <2>3, <2>4, RowsFollow, StepsFollow
<1>3. CASE Transition(o)
  <2>1. Live(o) /\ TransitionRows(o) /\ pc' = [pc EXCEPT ![o] = "starting"] /\ msg' = msg
    BY <1>3 DEF Transition, Current, Goes, TouchesMessages
  <2>2. \A p \in Sends : pc'[p] = pc[p] \/ pc'[p] = "starting"
    BY <2>1, SendsAreOperations DEF IInv, TypeOK
  <2> QED BY <2>1, <2>2, RowsFollow, StepsFollow
<1>4. CASE StartRefused(o)
  <2>1. UNCHANGED rows \/ \E t \in TerminalStates : Completes(o, t)
    BY <1>4 DEF StartRefused, TerminalStates
  <2>2. pc' = [pc EXCEPT ![o] = "over"] /\ msg' = msg
    BY <1>4 DEF StartRefused, Ends, Goes, TouchesMessages
  <2>3. \A p \in Sends : pc'[p] = pc[p] \/ pc'[p] = "over"
    BY <2>2, SendsAreOperations DEF IInv, TypeOK
  <2> QED BY <2>1, <2>2, <2>3, RowsFollow, StepsFollow
<1>5. CASE ProviderEvent(o)
  <2>1. UNCHANGED <<rows, pc, msg>>
    BY <1>5 DEF ProviderEvent, TouchesMessages
  <2> QED BY <2>1, RowsFollow, StepsFollow
<1>6. CASE ProviderTimesOut(o) \/ \E expected \in BOOLEAN : ProviderFails(o, expected)
  <2>1. PICK t \in TerminalStates : \E x : RecordsFailure(o, t, x) /\ pc' = [pc EXCEPT ![o] = "over"]
    BY <1>6 DEF ProviderTimesOut, ProviderFails, Ends, Goes, TerminalStates
  <2>2. UNCHANGED rows \/ Completes(o, t)
    BY <2>1 DEF RecordsFailure
  <2>3. \A p \in Sends : msg'[p] = msg[p] \/ msg'[p] = "error"
    BY <2>1 DEF RecordsFailure, ClosesOwn, TouchesMessages, IInv, TypeOK
  <2>4. \A p \in Sends : pc'[p] = pc[p] \/ pc'[p] = "over"
    BY <2>1, SendsAreOperations DEF IInv, TypeOK
  <2> QED BY <2>2, <2>3, <2>4, RowsFollow, StepsFollow
<1>7. CASE ProviderEnds(o) \/ SuccessRefused(o)
  <2>1. UNCHANGED <<rows, msg>> /\ \E place \in {"finishing", "over"} : pc' = [pc EXCEPT ![o] = place]
    BY <1>7 DEF ProviderEnds, SuccessRefused, Goes, TouchesMessages
  <2>2. \A p \in Sends : pc'[p] = pc[p] \/ pc'[p] \in {"finishing", "over"}
    BY <2>1, SendsAreOperations DEF IInv, TypeOK
  <2> QED BY <2>1, <2>2, RowsFollow, StepsFollow
<1>8. CASE PersistSuccess(o)
  <2>1. /\ Completes(o, "succeeded") /\ "succeeded" \in TerminalStates
        /\ Live(o) /\ msg[o] = "streaming"
        /\ msg' = [msg EXCEPT ![o] = "done"] /\ pc' = [pc EXCEPT ![o] = "over"]
    BY <1>8 DEF PersistSuccess, HoldsLease, Current, Ends, Goes, TerminalStates
  <2>2. ASSUME NEW p \in Sends
        PROVE  /\ pc'[p] = pc[p] \/ pc'[p] = "over"
               /\ msg'[p] = msg[p] \/ (p = o /\ msg'[p] = "done")
    BY <2>1, SendsAreOperations DEF IInv, TypeOK
  <2> QED BY <2>1, <2>2, RowsFollow, StepsFollow
<1>9. CASE TimePasses(o)
  <2>1. UNCHANGED <<pc, msg>>
    BY <1>9 DEF TimePasses, MessageLate, turns
  <2>2. UNCHANGED rows \/ DeadlinePasses(o) \/ MaxRuntimePasses(o)
    BY <1>9 DEF TimePasses, MessageLate
  <2> QED BY <2>1, <2>2, RowsFollow, StepsFollow
<1> QED BY <1>1, <1>2, <1>3, <1>4, <1>5, <1>6, <1>7, <1>8, <1>9 DEF OtherStep

LEMMA HousekeepingFollows ==
    ASSUME IInv, Housekeeping
    PROVE  \A p \in Sends : Follows(p)
<1> TAKE p \in Sends
<1>1. p \in Op
  BY SendsAreOperations
<1>2. /\ CloseRows(StaleOperations, {h \in History : owner[h] \in StaleOperations}, {})
      /\ ClosesStale(TurnsOfStale \cup LateTurns) /\ pc' = pc
  BY DEF Housekeeping
<1>3. scope' = scope /\ (Live(p)' => Live(p))
  BY <1>1, <1>2 DEF CloseRows, Live, LiveStates
<1>4. msg'[p] = msg[p] \/ msg'[p] = "error"
  BY <1>2 DEF ClosesStale
<1> QED BY <1>2, <1>3, <1>4, StepsFollow

LEMMA CrashFollows ==
    ASSUME IInv, Crash
    PROVE  \A p \in Sends : Follows(p)
<1> TAKE p \in Sends
<1>1. p \in Op
  BY SendsAreOperations
<1>2. pc'[p] = pc[p] \/ pc'[p] = "over"
  BY <1>1 DEF Crash
<1>3. UNCHANGED <<state, scope, msg>>
  BY DEF Crash, rows, TouchesMessages
<1> QED BY <1>2, <1>3, StepsFollow DEF Live

-----------------------------------------------------------------------------
(* The steps of a compaction *)

\* What a request reads anew is every answer of its history.
LEMMA ContextRead ==
    ASSUME CInv, NEW o \in Sends, pc[o] \in {"preparing", "ready"}
    PROVE  scope[o] \in History /\ Known(scope[o]) \subseteq Messages
<1>1. scope[o] \in History
  <2>1. o \in Op /\ state[o] # "absent"
    BY SendsAreOperations DEF CInv, IInv, Sound, Placed
  <2> QED BY <2>1 DEF CInv, IInv, TypeOK, RowsTypeOK
<1>2. checkpoint[scope[o]].summary \subseteq Messages
  BY <1>1 DEF CInv, MemoryTypeOK, Checkpoint
<1> QED BY <1>1, <1>2 DEF Known, VisibleMessages

LEMMA ReadContextKeepsCInv ==
    ASSUME CInv, NEW o \in Sends, ReadContext(o)
    PROVE  CInv'
<1>1. /\ pc[o] = "preparing" /\ Goes(o, "ready")
      /\ context' = [context EXCEPT ![o] = Known(scope[o])]
      /\ UNCHANGED <<rows, answered, TouchesMessages, sink, memory>>
  BY DEF ReadContext
<1>2. UNCHANGED <<answered, msg, excluded, late, sink, state, scope, due>>
  BY <1>1 DEF TouchesMessages, rows
<1>3. RowsTypeOK' /\ Leased' /\ (\A p \in Op : Falls(p)) /\ o \in Op /\ IInv
  BY <1>1, RowsStand, SendsAreOperations DEF CInv
<1>4. scope[o] \in History /\ Known(scope[o]) \subseteq Messages
  BY <1>1, ContextRead
<1>5. TypeOK'
  BY <1>1, <1>2, <1>3, <1>4 DEF IInv, TypeOK, Goes, Places
<1>6. Sound(o)'
  BY <1>1, <1>2, <1>3, StatesDiffer DEF IInv, TypeOK, Goes, Sound, Placed, Told, Expired
<1>7. Informed(o)'
  <2>1. context'[o] = Known(scope[o])
    BY <1>1, <1>3 DEF IInv, TypeOK
  <2> QED BY <1>2, <2>1 DEF Informed, CInv, AnswersAreRemembered
<1>8. IInv'
  BY <1>1, <1>2, <1>3, <1>5, <1>6, <1>7, TaskMoves DEF Places, IInv, TypeOK
<1>9. ASSUME NEW p \in Sends PROVE Follows(p)
  <2>1. pc'[p] = IF p = o THEN "ready" ELSE pc[p]
    BY <1>1, <1>3, SendsAreOperations DEF Goes, IInv, TypeOK
  <2>2. source[o] = NoSource /\ (Live(p)' <=> Live(p))
    BY <1>1, <1>2 DEF CInv, Live
  <2> QED BY <1>1, <1>2, <2>1, <2>2 DEF Follows
<1> QED BY <1>1, <1>8, <1>9, FollowKeepsCInv

\* The source that is read has every answer there is.
LEMMA StartCompactionKeepsCInv ==
    ASSUME CInv, NEW o \in Sends, StartCompaction(o)
    PROVE  CInv'
<1>1. /\ pc[o] = "ready" /\ UNCHANGED <<vars, number, checkpoint, compacted>>
      /\ source' = [source EXCEPT ![o] = [summary |-> Known(scope[o]), covers |-> Coverage(scope[o])]]
  BY DEF StartCompaction
<1>2. /\ UNCHANGED <<state, scope, pc, context, answered, msg, excluded, late, sink>>
      /\ IInv /\ MemoryTypeOK
  BY <1>1 DEF vars, rows, turns, CInv
<1>3. IInv'
  BY <1>1, <1>2, StepKeepsIInv
<1>4. scope[o] \in History /\ Known(scope[o]) \subseteq Messages
  BY <1>1, ContextRead
<1>5. /\ Coverage(scope[o]) \in 0..Cardinality(Sends)
      /\ checkpoint[scope[o]].covers <= Coverage(scope[o])
      /\ CoversTurn(scope[o], Coverage(scope[o]))
  BY <1>4, CoverageFacts
<1> DEFINE src == [summary |-> Known(scope[o]), covers |-> Coverage(scope[o])]
<1>6. src \in Checkpoint
  BY <1>4, <1>5 DEF Checkpoint
<1>7. \A p \in Sends : source'[p] = IF p = o THEN src ELSE source[p]
  BY <1>1, <1>2 DEF MemoryTypeOK
<1>8. MemoryTypeOK'
  BY <1>1, <1>2, <1>6 DEF MemoryTypeOK
<1>9. NumbersCount' /\ AnswersComeAfter' /\ \A h \in History : CoversTurn(h, checkpoint[h].covers)'
  BY <1>1, <1>2 DEF CInv, NumbersCount, Numbered, AnswersComeAfter, CoversTurn, Live
<1>10. ASSUME NEW p \in Sends
       PROVE  (pc[p] \in {"new", "preparing"} => source[p] = NoSource)' /\ Summarised(p)'
  <2>1. CASE p = o
    <3>1. source'[o].summary = Known(scope[o]) /\ source'[o].covers = Coverage(scope[o])
      BY <1>7
    <3>2. CoversTurn(scope[o], source[o].covers)'
      BY <1>1, <1>2, <1>5, <3>1 DEF CoversTurn
    <3>3. \A q \in Sends : scope[q] = scope[o] /\ msg[q] = "done" => <<"answer", q>> \in Known(scope[o])
      BY DEF CInv, AnswersAreRemembered
    <3>4. Coverage(scope[o]) >= checkpoint[scope[o]].covers
      BY <1>4, <1>5, SendsAreCounted, <1>2 DEF MemoryTypeOK, Checkpoint
    <3> QED BY <1>1, <1>2, <2>1, <3>1, <3>2, <3>3, <3>4 DEF Summarised
  <2>2. CASE p # o
    <3>1. source'[p] = source[p]
      BY <1>7, <2>2
    <3> QED BY <1>1, <1>2, <3>1 DEF CInv, Summarised, CoversTurn, Live
  <2> QED BY <2>1, <2>2
<1>11. AnswersAreRemembered'
  BY <1>1, <1>2 DEF CInv, AnswersAreRemembered, Known, VisibleMessages, Suffix
<1> QED BY <1>3, <1>8, <1>9, <1>10, <1>11 DEF CInv

\* What is true of the history whose checkpoint is written, and of its request.
LEMMA EndCompactionFacts ==
    ASSUME CInv, NEW o \in Sends, EndCompaction(o)
    PROVE  /\ UNCHANGED <<rows, pc, answered, msg, excluded, late, sink, number>>
           /\ UNCHANGED <<state, scope, due>>
           /\ pc[o] = "ready" /\ Live(o) /\ scope[o] \in History /\ msg[o] = "none"
           /\ source[o] \in Checkpoint /\ source[o] # NoSource
           /\ \A h \in History : checkpoint'[h] = IF h = scope[o] THEN source[o] ELSE checkpoint[h]
           /\ \A p \in Sends : source'[p] = IF p = o THEN NoSource ELSE source[p]
           /\ checkpoint' \in [History -> Checkpoint]
           /\ source' \in [Sends -> Checkpoint \cup {NoSource}]
           /\ compacted' \in [Sends -> BOOLEAN]
           /\ \A p \in Sends : Live(p) /\ scope[p] = scope[o] => p = o
<1>1. IInv /\ MemoryTypeOK /\ o \in Op /\ Sends \subseteq Op
  BY SendsAreOperations DEF CInv
<1>2. /\ UNCHANGED <<rows, pc, answered, msg, excluded, late, sink, number>>
      /\ UNCHANGED <<state, scope, due>>
      /\ pc[o] = "ready" /\ Live(o) /\ source[o] # NoSource /\ scope[o] \in History
  BY DEF EndCompaction, TouchesMessages, Current, rows
<1>3. msg[o] = "none"
  BY <1>1, <1>2 DEF IInv, Sound, Placed
<1>4. /\ checkpoint' = [checkpoint EXCEPT ![scope[o]] = source[o]]
      /\ source' = [source EXCEPT ![o] = NoSource]
      /\ compacted' = [compacted EXCEPT ![o] = TRUE]
  BY DEF EndCompaction
<1>5. source[o] \in Checkpoint
  BY <1>1, <1>2 DEF MemoryTypeOK
<1>6. /\ \A h \in History : checkpoint'[h] = IF h = scope[o] THEN source[o] ELSE checkpoint[h]
      /\ \A p \in Sends : source'[p] = IF p = o THEN NoSource ELSE source[p]
      /\ checkpoint' \in [History -> Checkpoint]
      /\ source' \in [Sends -> Checkpoint \cup {NoSource}]
      /\ compacted' \in [Sends -> BOOLEAN]
  BY <1>1, <1>4, <1>5 DEF MemoryTypeOK
<1>7. \A p \in Sends : Live(p) /\ scope[p] = scope[o] => p = o
  BY <1>1, <1>2, LeaseIsExclusive DEF IInv
<1> QED BY <1>2, <1>3, <1>5, <1>6, <1>7

\* The context of the request is read anew with the new checkpoint.
LEMMA EndCompactionKeepsIInv ==
    ASSUME CInv, NEW o \in Sends, EndCompaction(o)
    PROVE  IInv'
<1>1. /\ UNCHANGED <<rows, pc, answered, msg, excluded, late, sink, number>>
      /\ UNCHANGED <<state, scope, due>>
      /\ pc[o] = "ready" /\ Live(o) /\ scope[o] \in History /\ msg[o] = "none"
      /\ source[o] \in Checkpoint /\ source[o] # NoSource
      /\ checkpoint'[scope[o]] = source[o]
  BY EndCompactionFacts
<1>2. RowsTypeOK' /\ Leased' /\ (\A p \in Op : Falls(p)) /\ o \in Op /\ IInv
  BY <1>1, RowsStand, SendsAreOperations DEF CInv
<1>3. context' = [context EXCEPT ![o] = Known(scope[o])']
  BY DEF EndCompaction
<1>4. Known(scope[o])' \subseteq Messages
  <2>1. checkpoint'[scope[o]].summary \subseteq Messages
    BY <1>1 DEF Checkpoint
  <2> QED BY <1>1, <2>1 DEF Known, VisibleMessages
<1>5. /\ context'[o] = Known(scope[o])'
      /\ context' \in [Sends -> SUBSET Messages]
      /\ \A p \in Sends \ {o} : context'[p] = context[p]
  BY <1>2, <1>3, <1>4 DEF IInv, TypeOK
<1>6. TypeOK'
  BY <1>1, <1>2, <1>5 DEF IInv, TypeOK
<1>7. Sound(o)'
  BY <1>1, <1>2, StatesDiffer DEF IInv, Sound, Placed, Told, Expired
<1>8. Informed(o)'
  <2>1. ASSUME NEW p \in Sends, scope[p] = scope[o], msg[p] = "done"
        PROVE  <<"answer", p>> \in checkpoint'[scope[o]].summary
    BY <1>1, <2>1 DEF CInv, Summarised
  <2>2. checkpoint'[scope[o]].summary \subseteq Known(scope[o])'
    BY <1>1 DEF Known
  <2> QED BY <1>1, <1>5, <2>1, <2>2 DEF Informed
<1>9. Goes(o, "ready")
  BY <1>1, <1>2 DEF Goes, IInv, TypeOK
<1> QED BY <1>1, <1>2, <1>5, <1>6, <1>7, <1>8, <1>9, TaskMoves DEF Places

\* The checkpoint is written under the fence, so nobody has stored an answer, or another
\* checkpoint, since the source was read.
LEMMA EndCompactionKeepsCInv ==
    ASSUME CInv, NEW o \in Sends, EndCompaction(o)
    PROVE  CInv'
<1>1. /\ UNCHANGED <<rows, pc, answered, msg, excluded, late, sink, number>>
      /\ UNCHANGED <<state, scope, due>>
      /\ pc[o] = "ready" /\ Live(o) /\ scope[o] \in History /\ msg[o] = "none"
      /\ source[o] \in Checkpoint /\ source[o] # NoSource
      /\ \A h \in History : checkpoint'[h] = IF h = scope[o] THEN source[o] ELSE checkpoint[h]
      /\ \A p \in Sends : source'[p] = IF p = o THEN NoSource ELSE source[p]
      /\ \A p \in Sends : Live(p) /\ scope[p] = scope[o] => p = o
  BY EndCompactionFacts
<1>2. IInv' /\ IInv /\ \A p \in Sends : (Live(p)' <=> Live(p))
  BY <1>1, EndCompactionKeepsIInv DEF CInv, Live
<1>3. MemoryTypeOK'
  BY <1>1, EndCompactionFacts DEF CInv, MemoryTypeOK
<1>4. NumbersCount'
  BY <1>1 DEF CInv, NumbersCount, Numbered
<1>5. Summarised(o)
  BY DEF CInv
<1>6. \A h \in History : CoversTurn(h, checkpoint[h].covers)'
  <2> TAKE h \in History
  <2>1. CASE h = scope[o]
    BY <1>1, <1>5, <2>1 DEF Summarised, CoversTurn
  <2>2. CASE h # scope[o]
    BY <1>1, <2>2 DEF CInv, CoversTurn
  <2> QED BY <2>1, <2>2
<1>7. AnswersComeAfter'
  <2> SUFFICES ASSUME NEW p \in Sends, msg[p] = "streaming", Live(p)
               PROVE  number[p] > checkpoint'[scope[p]].covers
    BY <1>1, <1>2 DEF AnswersComeAfter
  <2>1. scope[p] # scope[o] /\ scope[p] \in History
    BY <1>1, <1>2, RowsHaveHistory
  <2> QED BY <1>1, <2>1 DEF CInv, AnswersComeAfter
<1>8. ASSUME NEW p \in Sends
      PROVE  (pc[p] \in {"new", "preparing"} => source[p] = NoSource)' /\ Summarised(p)'
  <2>1. CASE p = o
    BY <1>1, <2>1 DEF Summarised
  <2>2. CASE p # o
    <3>1. pc[p] \in {"new", "preparing"} => source[p] = NoSource
      BY DEF CInv
    <3>2. ASSUME pc[p] = "ready", Live(p) PROVE checkpoint'[scope[p]] = checkpoint[scope[p]]
      BY <1>1, <1>2, <2>2, <3>2, RowsHaveHistory
    <3>3. Summarised(p)'
      BY <1>1, <1>2, <2>2, <3>2 DEF CInv, Summarised, CoversTurn
    <3> QED BY <1>1, <2>2, <3>1, <3>3
  <2> QED BY <2>1, <2>2
<1>9. AnswersAreRemembered'
  <2> SUFFICES ASSUME NEW p \in Sends, msg[p] = "done"
               PROVE  (<<"answer", p>> \in Known(scope[p]))'
    BY <1>1 DEF AnswersAreRemembered
  <2>1. PICK h \in History : h = scope[p]
    BY KnownIsCovered
  <2>2. number[p] > checkpoint'[h].covers \/ <<"answer", p>> \in checkpoint'[h].summary
    BY <1>1, <1>5, <2>1, KnownIsCovered DEF Summarised
  <2>3. (IInv /\ msg[p] = "done" /\ scope[p] = h
           /\ (number[p] > checkpoint[h].covers \/ <<"answer", p>> \in checkpoint[h].summary)
           => <<"answer", p>> \in Known(h))'
    BY KnownAnswersNext
  <2>4. (<<"answer", p>> \in Known(h))'
    BY <1>1, <1>2, <2>1, <2>2, <2>3
  <2>5. (scope[p] = h)'
    BY <1>1, <2>1
  <2> QED BY <2>4, <2>5
<1> QED BY <1>2, <1>3, <1>4, <1>6, <1>7, <1>8, <1>9 DEF CInv

\* The next number of a history: greater than what is covered, and no greater than the count
\* of its numbered turns and one.
LEMMA NextNumber ==
    ASSUME CInv, NEW h \in History
    PROVE  LET next == 1 + Max({0} \cup {number[p] : p \in {p \in Sends : scope[p] = h}})
           IN  /\ next \in Nat /\ next > 0
               /\ next > checkpoint[h].covers
               /\ next <= Cardinality(Numbered(h)) + 1
               /\ IsFiniteSet(Numbered(h)) /\ Cardinality(Numbered(h)) \in Nat
<1> DEFINE T == {0} \cup {number[p] : p \in {p \in Sends : scope[p] = h}}
<1>1. MemoryTypeOK /\ NumbersCount
  BY DEF CInv
<1>2. T \in SUBSET (0..Cardinality(Sends)) /\ 0 \in T /\ T # {}
  BY <1>1, SendsAreCounted DEF MemoryTypeOK
<1>3. Max(T) \in T /\ (\A y \in T : y <= Max(T)) /\ Max(T) \in Nat
  <2> HIDE DEF T
  <2> QED BY <1>2, SendsAreCounted, MaxIsGreatest
<1>4. IsFiniteSet(Numbered(h)) /\ Cardinality(Numbered(h)) \in Nat
  <2>1. Numbered(h) \in SUBSET Sends
    BY DEF Numbered
  <2> QED BY <2>1, SendsFinite, FS_Subset, FS_CardinalityType
<1>5. Max(T) <= Cardinality(Numbered(h))
  <2>1. CASE Max(T) = 0
    BY <1>4, <2>1
  <2>2. CASE \E p \in Sends : scope[p] = h /\ Max(T) = number[p] /\ number[p] > 0
    BY <1>1, <2>2 DEF NumbersCount
  <2>3. Max(T) = 0 \/ \E p \in Sends : scope[p] = h /\ Max(T) = number[p]
    BY <1>3
  <2> HIDE DEF T
  <2> QED BY <1>3, <2>1, <2>2, <2>3
<1>6. checkpoint[h].covers <= Max(T)
  <2>1. CoversTurn(h, checkpoint[h].covers) /\ checkpoint[h].covers \in Nat
    BY <1>1, SendsAreCounted DEF CInv, MemoryTypeOK, Checkpoint
  <2>2. CASE checkpoint[h].covers = 0
    BY <1>3, <2>2
  <2>3. CASE \E q \in Sends : scope[q] = h /\ number[q] >= checkpoint[h].covers
    <3>1. PICK q \in Sends : scope[q] = h /\ number[q] >= checkpoint[h].covers
      BY <2>3
    <3>2. number[q] \in T /\ number[q] \in Nat
      BY <1>1, <3>1, SendsAreCounted DEF MemoryTypeOK
    <3> HIDE DEF T
    <3> QED BY <1>3, <2>1, <3>1, <3>2
  <2> QED BY <2>1, <2>2, <2>3 DEF CoversTurn
<1>7. checkpoint[h].covers \in Nat
  BY <1>1, SendsAreCounted DEF MemoryTypeOK, Checkpoint
<1> HIDE DEF T
<1>8. /\ 1 + Max(T) \in Nat /\ 1 + Max(T) > 0 /\ 1 + Max(T) > checkpoint[h].covers
      /\ 1 + Max(T) <= Cardinality(Numbered(h)) + 1
  BY <1>3, <1>4, <1>5, <1>6, <1>7
<1> QED BY <1>4, <1>8 DEF T

LEMMA NumberTurnKeepsCInv ==
    ASSUME CInv, NEW o \in Sends, NumberTurn(o)
    PROVE  CInv'
<1> DEFINE h == scope[o]
           next == 1 + Max({0} \cup {number[p] : p \in {p \in Sends : scope[p] = scope[o]}})
<1>1. /\ PersistTurn(o) /\ number' = [number EXCEPT ![o] = next]
      /\ UNCHANGED <<checkpoint, source, compacted>>
  BY DEF NumberTurn
<1>2. IInv /\ IInv' /\ MemoryTypeOK /\ NumbersCount /\ AnswersComeAfter /\ o \in Op
  <2>1. [Next]_vars
    BY <1>1 DEF Next, SendStep
  <2> QED BY <2>1, StepKeepsIInv, SendsAreOperations DEF CInv
<1>3. /\ pc[o] = "starting" /\ Live(o) /\ h \in History
      /\ pc' = [pc EXCEPT ![o] = "streaming"] /\ msg' = [msg EXCEPT ![o] = "streaming"]
      /\ UNCHANGED <<state, scope, excluded>>
  BY <1>1 DEF PersistTurn, Current, Goes
<1>4. msg[o] = "none" /\ number[o] = 0
  BY <1>2, <1>3 DEF IInv, Sound, Placed, NumbersCount
<1>5. /\ next \in Nat /\ next > 0 /\ next > checkpoint[h].covers
      /\ next <= Cardinality(Numbered(h)) + 1
      /\ IsFiniteSet(Numbered(h)) /\ Cardinality(Numbered(h)) \in Nat
  BY <1>3, NextNumber
<1> HIDE DEF next
<1>6. ASSUME NEW p \in Sends
      PROVE  /\ number'[p] = IF p = o THEN next ELSE number[p]
             /\ msg'[p] = IF p = o THEN "streaming" ELSE msg[p]
             /\ pc'[p] = IF p = o THEN "streaming" ELSE pc[p]
             /\ number[p] \in Nat /\ number'[p] \in Nat /\ number'[p] >= number[p]
             /\ (Live(p)' <=> Live(p))
  BY <1>1, <1>2, <1>3, <1>4, <1>5, SendsAreOperations, SendsAreCounted
     DEF MemoryTypeOK, IInv, TypeOK, Live
<1>7. /\ Numbered(h)' = Numbered(h) \cup {o} /\ o \notin Numbered(h)
      /\ \A g \in History \ {h} : Numbered(g)' = Numbered(g)
  <2>1. \A g \in History : Numbered(g)' = {p \in Sends : scope[p] = g /\ number'[p] > 0}
    BY <1>3 DEF Numbered
  <2>2. Numbered(h)' = {p \in Sends : scope'[p] = scope'[o] /\ number'[p] > 0}
    BY <1>3 DEF Numbered
  <2> QED BY <1>3, <1>4, <1>5, <1>6, <2>1, <2>2 DEF Numbered
<1>8. Cardinality(Numbered(h) \cup {o}) = Cardinality(Numbered(h)) + 1
  BY <1>5, <1>7, FS_AddElement
<1>9. next <= Cardinality(Sends)
  <2>1. Numbered(h) \cup {o} \in SUBSET Sends
    BY DEF Numbered
  <2>2. Cardinality(Numbered(h) \cup {o}) <= Cardinality(Sends)
    BY <2>1, SendsFinite, FS_Subset
  <2> QED BY <1>5, <1>8, <2>2, SendsAreCounted
<1>10. MemoryTypeOK'
  <2>1. number' \in [Sends -> 0..Cardinality(Sends)]
    BY <1>1, <1>2, <1>5, <1>9, SendsAreCounted DEF MemoryTypeOK
  <2> QED BY <1>1, <1>2, <2>1 DEF MemoryTypeOK
<1>11. NumbersCount'
  <2>1. ASSUME NEW p \in Sends, number'[p] > 0
        PROVE  number'[p] <= Cardinality(Numbered(scope[p])')
    <3>1. CASE p = o
      <4>1. number'[o] <= Cardinality(Numbered(h) \cup {o})
        BY <1>5, <1>6, <1>8
      <4>2. Numbered(scope[p])' = Numbered(h) \cup {o}
        BY <1>3, <1>7, <3>1
      <4> QED BY <3>1, <4>1, <4>2
    <3>2. CASE p # o
      <4>1. number'[p] = number[p] /\ scope[p] \in History
        BY <1>2, <1>6, <2>1, <3>2, NumberedHasBegun
      <4>2. number[p] <= Cardinality(Numbered(scope[p]))
        BY <1>2, <2>1, <4>1 DEF NumbersCount
      <4>3. CASE scope[p] = h
        BY <1>3, <1>5, <1>6, <1>7, <1>8, <4>1, <4>2, <4>3
      <4>4. CASE scope[p] # h
        <5>1. {q \in Sends : scope'[q] = scope'[p] /\ number'[q] > 0} = Numbered(scope[p])
          BY <1>3, <1>6, <4>4 DEF Numbered
        <5>2. Numbered(scope[p])' = {q \in Sends : scope'[q] = scope'[p] /\ number'[q] > 0}
          BY DEF Numbered
        <5> QED BY <4>1, <4>2, <5>1, <5>2
      <4> QED BY <4>3, <4>4
    <3> QED BY <3>1, <3>2
  <2>2. \A p \in Sends : msg'[p] = "none" => number'[p] = 0
    BY <1>2, <1>6 DEF NumbersCount
  <2> QED BY <2>1, <2>2 DEF NumbersCount
<1>12. ASSUME NEW g \in History, NEW c \in Nat, CoversTurn(g, c) PROVE CoversTurn(g, c)'
  <2>1. CASE c = 0
    BY <2>1 DEF CoversTurn
  <2>2. CASE \E q \in Sends : scope[q] = g /\ number[q] >= c
    BY <1>3, <1>6, <2>2 DEF CoversTurn
  <2> QED BY <1>12, <2>1, <2>2 DEF CoversTurn
<1>13. \A g \in History : CoversTurn(g, checkpoint[g].covers)'
  <2> TAKE g \in History
  <2>1. PICK c \in Nat : c = checkpoint[g].covers
    BY <1>2, SendsAreCounted DEF MemoryTypeOK, Checkpoint
  <2>2. CoversTurn(g, c)'
    BY <1>12, <2>1 DEF CInv
  <2> QED BY <1>1, <2>1, <2>2 DEF CoversTurn
<1>14. AnswersComeAfter'
  <2> SUFFICES ASSUME NEW p \in Sends, msg'[p] = "streaming", Live(p)'
               PROVE  number'[p] > checkpoint[scope[p]].covers
    BY <1>1, <1>3 DEF AnswersComeAfter
  <2>1. CASE p = o
    BY <1>5, <1>6, <2>1
  <2>2. CASE p # o
    BY <1>2, <1>6, <2>2 DEF AnswersComeAfter
  <2> QED BY <2>1, <2>2
<1>15. ASSUME NEW p \in Sends
       PROVE  (pc[p] \in {"new", "preparing"} => source[p] = NoSource)' /\ Summarised(p)'
  <2>1. pc'[p] \in {"new", "preparing"} => source'[p] = NoSource
    BY <1>1, <1>6 DEF CInv
  <2>2. ASSUME source[p] # NoSource, pc'[p] = "ready", Live(p)'
        PROVE  /\ source[p].covers >= checkpoint[scope[p]].covers
               /\ CoversTurn(scope[p], source[p].covers)'
               /\ \A q \in Sends :
                     scope[q] = scope[p] /\ msg'[q] = "done" => <<"answer", q>> \in source[p].summary
    <3>1. pc[p] = "ready" /\ Live(p) /\ Summarised(p)
      BY <1>6, <2>2 DEF CInv
    <3>2. PICK g \in History, c \in Nat : g = scope[p] /\ c = source[p].covers
      BY <1>2, <2>2, <3>1, RowsHaveHistory, SendsAreCounted DEF MemoryTypeOK, Checkpoint
    <3>3. CoversTurn(g, c)'
      BY <1>12, <2>2, <3>1, <3>2 DEF Summarised
    <3>4. CoversTurn(scope[p], source[p].covers)'
      BY <1>1, <1>3, <3>2, <3>3 DEF CoversTurn
    <3> QED BY <1>6, <2>2, <3>1, <3>4 DEF Summarised
  <2> QED BY <1>1, <1>3, <2>1, <2>2 DEF Summarised
<1>16. AnswersAreRemembered'
  <2> SUFFICES ASSUME NEW p \in Sends, msg'[p] = "done"
               PROVE  (<<"answer", p>> \in Known(scope[p]))'
    BY DEF AnswersAreRemembered
  <2>1. p # o /\ msg[p] = "done" /\ number'[p] = number[p]
    BY <1>6
  <2>2. PICK g \in History : g = scope[p]
    BY <2>1, KnownIsCovered
  <2>3. number'[p] > checkpoint'[g].covers \/ <<"answer", p>> \in checkpoint'[g].summary
    BY <1>1, <2>1, <2>2, KnownIsCovered
  <2>4. (IInv /\ msg[p] = "done" /\ scope[p] = g
           /\ (number[p] > checkpoint[g].covers \/ <<"answer", p>> \in checkpoint[g].summary)
           => <<"answer", p>> \in Known(g))'
    BY KnownAnswersNext
  <2>5. (<<"answer", p>> \in Known(g))' /\ (scope[p] = g)'
    BY <1>2, <1>3, <2>2, <2>3, <2>4
  <2> QED BY <2>5
<1> QED BY <1>2, <1>10, <1>11, <1>13, <1>14, <1>15, <1>16 DEF CInv

-----------------------------------------------------------------------------
(* The invariant *)

LEMMA CompactionInitSound == CompactionInit => CInv
<1> SUFFICES ASSUME CompactionInit PROVE CInv
  OBVIOUS
<1>1. IInv
  BY InitSound DEF CompactionInit
<1>2. /\ number = [o \in Sends |-> 0] /\ source = [o \in Sends |-> NoSource]
      /\ checkpoint = [h \in History |-> [summary |-> {}, covers |-> 0]]
      /\ compacted = [o \in Sends |-> FALSE]
      /\ msg = [o \in Sends |-> "none"]
  BY DEF CompactionInit, Init
<1>3. 0 \in 0..Cardinality(Sends)
  BY SendsAreCounted
<1>4. [summary |-> {}, covers |-> 0] \in Checkpoint
  BY <1>3 DEF Checkpoint
<1>5. MemoryTypeOK
  BY <1>2, <1>3, <1>4 DEF MemoryTypeOK
<1>6. NumbersCount /\ AnswersComeAfter /\ AnswersAreRemembered
  BY <1>2 DEF NumbersCount, AnswersComeAfter, AnswersAreRemembered
<1>7. \A h \in History : CoversTurn(h, checkpoint[h].covers)
  BY <1>2 DEF CoversTurn
<1> QED BY <1>1, <1>2, <1>5, <1>6, <1>7 DEF CInv, Summarised

LEMMA CompactionStepKeepsCInv == CInv /\ [CompactionNext]_allVars => CInv'
<1> SUFFICES ASSUME CInv, [CompactionNext]_allVars PROVE CInv'
  OBVIOUS
<1>1. IInv
  BY DEF CInv
<1>2. ASSUME NEW o \in Sends, OtherStep(o), UNCHANGED memory PROVE CInv'
  <2>1. [Next]_vars
    BY <1>2, SendsAreOperations DEF OtherStep, Next, SendStep
  <2> QED BY <1>1, <1>2, <2>1, StepKeepsIInv, OtherFollows, FollowKeepsCInv
<1>3. CASE (Housekeeping \/ Crash) /\ UNCHANGED memory
  <2>1. [Next]_vars
    BY <1>3 DEF Next
  <2> QED BY <1>1, <1>3, <2>1, StepKeepsIInv, HousekeepingFollows, CrashFollows, FollowKeepsCInv
<1>4. CASE UNCHANGED allVars
  <2>1. UNCHANGED vars /\ UNCHANGED memory /\ UNCHANGED <<scope, pc, msg, state>>
    BY <1>4 DEF allVars, vars, rows, turns
  <2>2. \A p \in Sends : Follows(p)
    BY <2>1 DEF Follows, Live
  <2> QED BY <1>1, <2>1, <2>2, StepKeepsIInv, FollowKeepsCInv
<1> QED BY <1>2, <1>3, <1>4, ReadContextKeepsCInv, StartCompactionKeepsCInv, EndCompactionKeepsCInv,
           NumberTurnKeepsCInv DEF CompactionNext

\* A chat turn with compaction, for every finite set of sends and any histories: the
\* invariant of the turn holds, numbers and coverage stay within the turns there are, and
\* what is under way for a request that holds its lease is no less than what is stored.
THEOREM CompactionInductive == CompactionSpec => []CInv
BY CompactionInitSound, CompactionStepKeepsCInv, PTL DEF CompactionSpec

\* The types, the bound on the sequence numbers included: no more numbers are given in a
\* history than turns are stored there.
THEOREM CompactionTypes == CompactionSpec => []CompactionTypeOK
<1>1. CInv => CompactionTypeOK
  BY DEF CInv, IInv, MemoryTypeOK, CompactionTypeOK
<1> QED BY <1>1, CompactionInductive, PTL

\* AnswersAreRemembered for any number of sends and histories: between the reading of the
\* source of a compaction and the writing of its checkpoint (request_builder.py:81-137) lies
\* a call of the provider, yet no answer falls between the summary and the suffix.
THEOREM NoAnswerIsLost == CompactionSpec => []AnswersAreRemembered
<1>1. CInv => AnswersAreRemembered
  BY DEF CInv
<1> QED BY <1>1, CompactionInductive, PTL

\* CheckpointNeverFallsBack: the one checkpoint that may be written in a history was made
\* from the one that is there (pipeline.py:150-159).
THEOREM CoverageOnlyGrows == CompactionSpec => CheckpointNeverFallsBack
<1>1. CInv /\ [CompactionNext]_allVars =>
        [\A h \in History : checkpoint'[h].covers >= checkpoint[h].covers]_allVars
  <2> SUFFICES ASSUME CInv, [CompactionNext]_allVars, NEW h \in History
               PROVE  checkpoint'[h].covers >= checkpoint[h].covers
    BY DEF allVars
  <2>1. checkpoint[h].covers \in Nat
    BY SendsAreCounted DEF CInv, MemoryTypeOK, Checkpoint
  <2>2. CASE UNCHANGED checkpoint
    BY <2>1, <2>2
  <2>3. ASSUME NEW o \in Sends, EndCompaction(o)
        PROVE  checkpoint'[h].covers >= checkpoint[h].covers
    <3>1. /\ pc[o] = "ready" /\ Live(o) /\ source[o] # NoSource
          /\ checkpoint'[h] = IF h = scope[o] THEN source[o] ELSE checkpoint[h]
      BY <2>3, EndCompactionFacts
    <3>2. Summarised(o)
      BY DEF CInv
    <3> QED BY <2>1, <3>1, <3>2 DEF Summarised
  <2> QED BY <2>2, <2>3
          DEF CompactionNext, ReadContext, StartCompaction, NumberTurn, OtherStep, memory, allVars
<1> QED BY <1>1, CompactionInductive, PTL DEF CompactionSpec, CheckpointNeverFallsBack

\* ContextIsComplete of the chat turn holds with compaction as well: a turn that starts has
\* been told of every answer of its history, in the summary or after it, although its
\* request may have been built before and after a compression.
THEOREM SummariesKeepContextsComplete == CompactionSpec => ContextIsComplete
<1>1. CInv /\ [CompactionNext]_allVars =>
        [\A o \in Sends :
            PersistTurn(o) =>
                \A p \in Sends :
                    scope[p] = scope[o] /\ msg[p] = "done" => <<"answer", p>> \in context[o]]_vars
  <2> SUFFICES ASSUME CInv, NEW o \in Sends, PersistTurn(o), NEW p \in Sends,
                      scope[p] = scope[o], msg[p] = "done"
               PROVE  <<"answer", p>> \in context[o]
    OBVIOUS
  <2>1. pc[o] = "starting" /\ Live(o)
    BY DEF PersistTurn, Current
  <2> QED BY <2>1 DEF CInv, IInv, Informed
<1> QED BY <1>1, CompactionInductive, PTL DEF CompactionSpec, ContextIsComplete

================================================================================
