----------------------------- MODULE Sessions_proofs -----------------------------
(***************************************************************************)
(* Theorems about Sessions for every set of keys, flows and requests and   *)
(* every setting: the session limit, one session per login, and that       *)
(* requests neither wait in a circle nor go back.                          *)
(*                                                                         *)
(* LimitHolds is inductive only with what the lock on the user's row buys: *)
(* while one request holds it (OneIssuer), active sessions can only become *)
(* fewer, so the room it made is still there when it writes (RoomIsMade). *)
(* OneSessionPerLogin needs that a flow or a ticket is held by one request *)
(* (HeldAlone) and stays open until it is spent (HeldIsOpen, Unspent).     *)
(***************************************************************************)
EXTENDS Sessions, FiniteSetTheorems, TLAPS

OneIssuer == \A r, o \in Request : LocksUser(r) /\ LocksUser(o) => r = o

RoomIsMade ==
    \A r \in Request : LocksUser(r) /\ ~request[r].conflict =>
        Cardinality(Active \ (request[r].rows \cup request[r].idle)) < Limit

LimitInv == OneIssuer /\ RoomIsMade /\ LimitHolds

Holds(r, f) == request[r].at # "rest" /\ request[r].flow = f

HeldAlone == \A r, o \in Request, f \in Flow : Holds(r, f) /\ Holds(o, f) => r = o

HeldIsOpen ==
    \A r \in Request, f \in Flow : Holds(r, f) =>
        /\ request[r].resolves => tickets[f].state = "open" /\ ~request[r].conflict
        /\ ~request[r].resolves => flows[f].state = "open"

Unspent ==
    \A f \in Flow :
        /\ flows[f].state \in {"none", "open"} =>
             tickets[f].state # "open" /\ \A s \in Session : sessions[s].source # f
        /\ tickets[f].state = "open" => \A s \in Session : sessions[s].source # f

LoginInv == HeldAlone /\ HeldIsOpen /\ Unspent /\ OneSessionPerLogin

-----------------------------------------------------------------------------
(* Types *)

\* Only the fields a step names change in what a request holds.
LEMMA RestIsWork == Rest \in Work /\ Asleep \in Sweep
BY DEF Rest, Work, Asleep, Sweep

LEMMA ExpireType ==
    ASSUME TypeOK, NEW idle, NEW evicted
    PROVE  Expire(idle, evicted) \in [Session -> SessionRow]
BY DEF TypeOK, Expire, SessionRow

\* A flow or a ticket changes state, or is written anew; NoFlow names no row.
LEMMA GrantState ==
    ASSUME NEW g \in [Flow -> Grant], NEW f \in Flow \cup {NoFlow}
    PROVE  /\ [g EXCEPT ![f].state = "deleted"] \in [Flow -> Grant]
           /\ [g EXCEPT ![f].state = "consumed"] \in [Flow -> Grant]
<1>1. CASE f \in Flow
  <2>1. /\ [g[f] EXCEPT !.state = "deleted"] \in Grant
        /\ [g[f] EXCEPT !.state = "consumed"] \in Grant
    BY <1>1 DEF Grant
  <2>2. QED BY <1>1, <2>1
<1>2. CASE f = NoFlow
  BY <1>2, SessionAssumption
<1>3. QED BY <1>1, <1>2

LEMMA GrantRow ==
    ASSUME NEW g \in [Flow -> Grant], NEW f \in Flow \cup {NoFlow}, NEW e \in Nat
    PROVE  [g EXCEPT ![f] = [state |-> "open", expires |-> e]] \in [Flow -> Grant]
BY SessionAssumption DEF Grant

\* The variables keep their types, whatever the settings: each request and the
\* clean-up only ever hold rows that exist.
THEOREM TypeCorrect == Spec => []TypeOK
<1>1. Init => TypeOK
  BY RestIsWork DEF Init, TypeOK, SessionRow, Grant
<1>2. TypeOK /\ [Next]_vars => TypeOK'
  <2> SUFFICES ASSUME TypeOK, [Next]_vars PROVE TypeOK'
    OBVIOUS
  <2> USE SessionAssumption, RestIsWork
  <2>0. CASE UNCHANGED vars
    BY <2>0 DEF TypeOK, vars
  <2>1. ASSUME NEW f \in Flow, StartFlow(f) \/ InspectTicket(f) PROVE TypeOK'
    <3>1. now + FlowTTL \in Nat
      BY DEF TypeOK
    <3>2. flows' \in [Flow -> Grant] /\ tickets' \in [Flow -> Grant]
      <4>1. flows \in [Flow -> Grant] /\ tickets \in [Flow -> Grant]
        BY DEF TypeOK
      <4>2. [flows EXCEPT ![f] = [state |-> "open", expires |-> now + FlowTTL]]
              \in [Flow -> Grant]
        BY <3>1, <4>1, GrantRow
      <4>3. [tickets EXCEPT ![f].state = "deleted"] \in [Flow -> Grant]
        BY <4>1, GrantState
      <4>4. QED BY <2>1, <4>1, <4>2, <4>3 DEF StartFlow, InspectTicket
    <3>3. QED BY <2>1, <3>2 DEF TypeOK, StartFlow, InspectTicket
  <2>2. ASSUME NEW r \in Request, NEW f \in Flow, Callback(r, f) PROVE TypeOK'
    <3>1. [Rest EXCEPT !.at = "exchange", !.flow = f] \in Work
      BY DEF Rest, Work
    <3>2. QED BY <2>2, <3>1 DEF TypeOK, Callback, DropsFlow, Does, Grant
  <2>3. ASSUME NEW r \in Request, NEW f \in Flow, ResolveConflict(r, f) PROVE TypeOK'
    <3>1. [Rest EXCEPT !.at = "issue", !.time = now, !.flow = f, !.resolves = TRUE] \in Work
      BY DEF Rest, Work, TypeOK
    <3>2. QED BY <2>3, <3>1 DEF TypeOK, ResolveConflict, TicketIsKept, Does, Grant
  <2>4. ASSUME NEW r \in Request, ExchangeSucceeds(r) PROVE TypeOK'
    <3>0. request[r] \in Work
      BY DEF TypeOK
    <3>1. [request[r] EXCEPT !.at = "identify"] \in Work
      BY <3>0, Z3 DEF Work
    <3>2. QED BY <2>4, <3>1 DEF TypeOK, ExchangeSucceeds, Does
  <2>5. ASSUME NEW r \in Request, ExchangeRefused(r) PROVE TypeOK'
    BY <2>5 DEF TypeOK, ExchangeRefused, DropsFlow, Ends, Does, Grant
  <2>6. ASSUME NEW r \in Request, ExchangeBreaks(r) \/ IssueFails(r) PROVE TypeOK'
    BY <2>6 DEF TypeOK, ExchangeBreaks, IssueFails, Ends, Does
  <2>7. ASSUME NEW r \in Request, GuestLogin(r) PROVE TypeOK'
    BY <2>7 DEF TypeOK, GuestLogin, Does, Rest, Work
  <2>8. ASSUME NEW r \in Request, Identify(r) PROVE TypeOK'
    <3>0. request[r] \in Work /\ now \in Nat
      BY DEF TypeOK
    <3>1. \A i \in BOOLEAN :
             [request[r] EXCEPT !.at = "issue", !.time = now, !.writes = i] \in Work
      BY <3>0 DEF Work
    <3>2. QED BY <2>8, <3>1 DEF TypeOK, Identify, Ends, Does
  <2>9. ASSUME NEW r \in Request, LockUser(r) PROVE TypeOK'
    <3> DEFINE idle == {s \in Active : IsIdle(s, request[r].time)}
               over == Overflow(Cardinality(Active \ idle))
               conflict == over > 0 /\ StrategyOf(r) = "reject"
    <3>1. CASE Ends(r)
      BY <2>9, <3>1 DEF TypeOK, LockUser, Ends, Does
    <3>2. ASSUME NEW rows \in SUBSET (Active \ idle),
                 Does(r, [request[r] EXCEPT !.at = "write", !.rows = rows,
                                            !.idle = idle, !.conflict = conflict])
          PROVE TypeOK'
      <4>1. rows \in SUBSET Session /\ idle \in SUBSET Session /\ conflict \in BOOLEAN
        BY DEF Active
      <4> HIDE DEF idle, conflict
      <4>2. [request[r] EXCEPT !.at = "write", !.rows = rows, !.idle = idle,
                               !.conflict = conflict] \in Work
        <5>1. request[r] \in Work
          BY DEF TypeOK
        <5>2. QED BY <4>1, <5>1 DEF Work
      <4>3. UNCHANGED <<now, user, sessions, flows, tickets, sweep>>
        BY <2>9 DEF LockUser
      <4>4. QED BY <3>2, <4>2, <4>3 DEF TypeOK, Does
    <3>3. QED BY <2>9, <3>1, <3>2 DEF LockUser
  <2>10. ASSUME NEW r \in Request, IssueTicket(r) PROVE TypeOK'
    <3>1. request[r].flow \in Flow \cup {NoFlow} /\ now + TicketTTL \in Nat
      BY DEF TypeOK, Work
    <3>2. flows' \in [Flow -> Grant] /\ tickets' \in [Flow -> Grant]
      BY <2>10, <3>1, GrantRow, GrantState DEF TypeOK, IssueTicket, DropsFlow
    <3>3. QED BY <2>10, <3>2, ExpireType DEF TypeOK, IssueTicket, WritesUser, Ends, Does
  <2>11. ASSUME NEW r \in Request, NEW s \in Session, Issue(r, s) PROVE TypeOK'
    <3> DEFINE row == [state |-> "active", seen |-> request[r].time,
                       created |-> request[r].time, source |-> request[r].flow]
    <3>0. row \in SessionRow
      BY DEF TypeOK, SessionRow, Work
    <3>1. sessions' \in [Session -> SessionRow]
      <4>1. sessions' = [Expire(request[r].idle, request[r].rows) EXCEPT ![s] = row]
        BY <2>11 DEF Issue
      <4> HIDE DEF row
      <4>2. QED BY <4>1, <3>0, ExpireType
    <3>2. flows' \in [Flow -> Grant] /\ tickets' \in [Flow -> Grant]
      <4>1. request[r].flow \in Flow \cup {NoFlow}
        BY DEF TypeOK, Work
      <4>2. flows \in [Flow -> Grant] /\ tickets \in [Flow -> Grant]
        BY DEF TypeOK
      <4>3. /\ [flows EXCEPT ![request[r].flow].state = "deleted"] \in [Flow -> Grant]
            /\ [tickets EXCEPT ![request[r].flow].state = "consumed"] \in [Flow -> Grant]
        BY <4>1, <4>2, GrantState
      <4>4. QED BY <2>11, <4>2, <4>3 DEF Issue, Spent, DropsFlow
    <3>3. QED BY <2>11, <3>1, <3>2 DEF TypeOK, Issue, WritesUser, Ends, Does
  <2>12. ASSUME NEW r \in Request, Touch(r) \/ ExpireOnUse(r) PROVE TypeOK'
    <3>1. request[r].time \in Nat
      BY DEF TypeOK, Work
    <3>2. \A s \in Session : /\ [sessions[s] EXCEPT !.seen = request[r].time] \in SessionRow
                             /\ [sessions[s] EXCEPT !.state = "idle"] \in SessionRow
                             /\ sessions[s] \in SessionRow
      BY <3>1 DEF TypeOK, SessionRow
    <3>3. sessions' \in [Session -> SessionRow]
      BY <2>12, <3>2 DEF Touch, ExpireOnUse
    <3>4. QED BY <2>12, <3>3 DEF TypeOK, Touch, ExpireOnUse, Ends, Does
  <2>13. ASSUME NEW r \in Request, NEW s \in Session, Use(r, s) PROVE TypeOK'
    <3>1. \A a \in {"expire", "touch"} :
             [Rest EXCEPT !.at = a, !.time = now, !.rows = {s}] \in Work
      BY DEF TypeOK, Rest, Work
    <3>2. QED BY <2>13, <3>1 DEF TypeOK, Use, Does
  <2>14. ASSUME NEW s \in Session, UseOfDisabled(s) \/ Logout(s) PROVE TypeOK'
    BY <2>14 DEF TypeOK, UseOfDisabled, Logout, Deleted, SessionRow
  <2>15. CASE SweepReads
    BY <2>15 DEF TypeOK, SweepReads, Sweep, Active
  <2>16. CASE SweepWrites
    <3>1. sessions' \in [Session -> SessionRow]
      BY <2>16, ExpireType DEF TypeOK, SweepWrites, Deleted, SessionRow
    <3>2. flows' \in [Flow -> Grant] /\ tickets' \in [Flow -> Grant]
      BY <2>16 DEF TypeOK, SweepWrites, Swept, Grant
    <3>3. QED BY <2>16, <3>1, <3>2 DEF TypeOK, SweepWrites
  <2>17. CASE Disable \/ Tick
    BY <2>17 DEF TypeOK, Disable, Tick
  <2>18. QED
    BY <2>0, <2>1, <2>2, <2>3, <2>4, <2>5, <2>6, <2>7, <2>8, <2>9, <2>10, <2>11,
       <2>12, <2>13, <2>14, <2>15, <2>16, <2>17 DEF Next
<1>3. QED BY <1>1, <1>2, PTL DEF Spec

-----------------------------------------------------------------------------
(* The limit *)

LEMMA LimitIsPositive == Limit \in Nat \ {0}
BY SessionAssumption DEF Limit

LEMMA ActiveIsFinite == IsFiniteSet(Active) /\ \A S \in SUBSET Active : IsFiniteSet(S)
BY SessionAssumption, FS_Subset DEF Active

\* A step that activates nothing and lets nobody in keeps the room that was made.
LEMMA FewerKeepsLimit ==
    ASSUME LimitInv, Active' \subseteq Active,
           \A r \in Request : LocksUser(r)' => LocksUser(r) /\ request'[r] = request[r]
    PROVE  LimitInv'
<1>1. OneIssuer'
  BY DEF LimitInv, OneIssuer
<1>2. RoomIsMade'
  <2> SUFFICES ASSUME NEW r \in Request, LocksUser(r)', ~request'[r].conflict
      PROVE  Cardinality(Active' \ (request'[r].rows \cup request'[r].idle)) < Limit
    BY DEF RoomIsMade, Limit
  <2> DEFINE was == Active \ (request[r].rows \cup request[r].idle)
             is == Active' \ (request'[r].rows \cup request'[r].idle)
  <2>1. LocksUser(r) /\ request'[r] = request[r]
    OBVIOUS
  <2>2. Cardinality(was) < Limit
    BY <2>1 DEF LimitInv, RoomIsMade
  <2>3. IsFiniteSet(was) /\ is \subseteq was
    BY <2>1, ActiveIsFinite
  <2>4. Cardinality(is) <= Cardinality(was) /\ Cardinality(is) \in Nat /\ Cardinality(was) \in Nat
    BY <2>3, FS_Subset, FS_CardinalityType
  <2>5. QED BY <2>2, <2>4, LimitIsPositive
<1>3. LimitHolds'
  BY ActiveIsFinite, FS_Subset, FS_CardinalityType, LimitIsPositive
     DEF LimitInv, LimitHolds, Limit
<1>4. QED BY <1>1, <1>2, <1>3 DEF LimitInv

\* What is left of the active sessions when enough of them are set aside.
LEMMA SetAside ==
    ASSUME NEW live \in SUBSET Active, NEW rows \in SUBSET live,
           Cardinality(rows) = Overflow(Cardinality(live))
    PROVE  Cardinality(live \ rows) < Limit
<1>1. IsFiniteSet(live) /\ IsFiniteSet(rows) /\ IsFiniteSet(live \ rows)
  BY ActiveIsFinite
<1>2. /\ Cardinality(live) \in Nat /\ Cardinality(rows) \in Nat
      /\ Cardinality(live \ rows) \in Nat
  BY <1>1, FS_CardinalityType
<1>3. (live \ rows) \cup rows = live /\ (live \ rows) \cap rows = {}
  OBVIOUS
<1>4. Cardinality(live) = Cardinality(live \ rows) + Cardinality(rows)
  BY <1>1, <1>2, <1>3, FS_Union, FS_EmptySet
<1>5. QED BY <1>2, <1>4, LimitIsPositive DEF Overflow

LEMMA LockUserKeepsLimit ==
    ASSUME TypeOK, LimitInv, NEW r \in Request, LockUser(r)
    PROVE  LimitInv'
<1> DEFINE idle == {s \in Active : IsIdle(s, request[r].time)}
           live == Active \ idle
           over == Overflow(Cardinality(live))
           conflict == over > 0 /\ StrategyOf(r) = "reject"
<1>1. Active' = Active /\ LimitHolds'
  BY DEF LockUser, Active, LimitInv, LimitHolds, Limit
<1>2. CASE Ends(r)
  <2>1. \A o \in Request : LocksUser(o)' => LocksUser(o) /\ request'[o] = request[o]
    BY <1>2 DEF TypeOK, Ends, Does, LocksUser, Rest
  <2>2. QED BY <1>1, <2>1, FewerKeepsLimit
<1>3. ASSUME NEW rows \in SUBSET live,
             Cardinality(rows) = IF conflict THEN 0 ELSE over,
             Does(r, [request[r] EXCEPT !.at = "write", !.rows = rows,
                                        !.idle = idle, !.conflict = conflict])
      PROVE  LimitInv'
  <2>1. \A o \in Request \ {r} : ~LocksUser(o) /\ request'[o] = request[o]
    BY <1>3 DEF TypeOK, LockUser, MayLock, UserFree, Does
  <2>2. OneIssuer'
    BY <2>1 DEF OneIssuer, LocksUser
  <2>3. /\ request'[r].rows = rows /\ request'[r].idle = idle
        /\ request'[r].conflict = conflict
    <3> HIDE DEF idle, live, over, conflict
    <3>1. QED BY <1>3 DEF TypeOK, Does, Work
  <2>4. ASSUME ~conflict PROVE Cardinality(Active' \ (rows \cup idle)) < Limit
    <3>1. Active' \ (rows \cup idle) = live \ rows
      BY <1>1
    <3>2. live \in SUBSET Active /\ Cardinality(rows) = over
      BY <1>3, <2>4
    <3> HIDE DEF live, idle
    <3>3. QED BY <3>1, <3>2, SetAside
  <2>5. RoomIsMade'
    <3> HIDE DEF idle, live, over, conflict
    <3>1. QED BY <2>1, <2>3, <2>4 DEF RoomIsMade, LocksUser, Limit
  <2>6. QED BY <1>1, <2>2, <2>5 DEF LimitInv
<1>4. QED BY <1>2, <1>3 DEF LockUser

LEMMA IssueKeepsLimit ==
    ASSUME TypeOK, LimitInv, NEW r \in Request, NEW s \in Session, Issue(r, s)
    PROVE  LimitInv'
<1> DEFINE left == Active \ (request[r].rows \cup request[r].idle)
<1>1. LocksUser(r) /\ ~request[r].conflict
  BY DEF Issue, LocksUser
<1>2. \A o \in Request : ~LocksUser(o)'
  BY <1>1 DEF TypeOK, LimitInv, OneIssuer, Issue, Ends, Does, LocksUser, Rest
<1>3. Active' \subseteq left \cup {s}
  BY DEF TypeOK, Issue, Expire, Active, SessionRow
<1>4. Cardinality(left) < Limit /\ IsFiniteSet(left)
  BY <1>1, ActiveIsFinite DEF LimitInv, RoomIsMade
<1>5. Cardinality(left \cup {s}) <= Limit /\ IsFiniteSet(left \cup {s})
  <2> HIDE DEF left
  <2>1. /\ IsFiniteSet(left \cup {s}) /\ Cardinality(left) \in Nat
        /\ Cardinality(left \cup {s}) \in {Cardinality(left), Cardinality(left) + 1}
    BY <1>4, FS_AddElement, FS_CardinalityType
  <2>2. QED BY <1>4, <2>1, LimitIsPositive
<1>6. Cardinality(Active') <= Limit
  <2> HIDE DEF left
  <2>1. Cardinality(Active') <= Cardinality(left \cup {s}) /\ IsFiniteSet(Active')
    BY <1>3, <1>5, FS_Subset
  <2>2. QED BY <1>5, <2>1, FS_CardinalityType, LimitIsPositive
<1>7. QED BY <1>2, <1>6 DEF LimitInv, OneIssuer, RoomIsMade, LimitHolds, Limit

\* The use of a session leaves its state alone, or finds that it was idle too long.
LEMMA UsesOnlyIdle ==
    ASSUME TypeOK, NEW r \in Request, Touch(r) \/ ExpireOnUse(r), NEW s \in Session
    PROVE  sessions'[s].state \in {sessions[s].state, "idle"}
<1>1. sessions[s] \in SessionRow
  BY DEF TypeOK
<1>2. CASE Touch(r)
  <2>1. sessions'[s] \in {[sessions[s] EXCEPT !.seen = request[r].time], sessions[s]}
    BY <1>2 DEF Touch
  <2> QED BY <1>1, <2>1 DEF SessionRow
<1>3. CASE ExpireOnUse(r)
  <2>1. sessions'[s] \in {[sessions[s] EXCEPT !.state = "idle"], sessions[s]}
    BY <1>3 DEF ExpireOnUse
  <2> QED BY <1>1, <2>1 DEF SessionRow
<1> QED BY <1>2, <1>3

\* Only Issue activates a session, and only LockUser lets a request in.
LEMMA OthersActivateNothing ==
    ASSUME TypeOK, [Next]_vars,
           \A r \in Request : ~LockUser(r) /\ \A s \in Session : ~Issue(r, s)
    PROVE  /\ Active' \subseteq Active
           /\ \A r \in Request : LocksUser(r)' => LocksUser(r) /\ request'[r] = request[r]
<1>1. Active' \subseteq Active
  <2>1. CASE UNCHANGED sessions
    BY <2>1 DEF Active
  <2>2. ASSUME NEW r \in Request, IssueTicket(r) PROVE Active' \subseteq Active
    BY <2>2 DEF TypeOK, IssueTicket, Expire, Active, SessionRow
  <2>3. ASSUME NEW r \in Request, Touch(r) \/ ExpireOnUse(r) PROVE Active' \subseteq Active
    BY <2>3, UsesOnlyIdle DEF Active
  <2>4. ASSUME NEW s \in Session, UseOfDisabled(s) \/ Logout(s) PROVE Active' \subseteq Active
    BY <2>4 DEF TypeOK, UseOfDisabled, Logout, Deleted, Active, SessionRow
  <2>5. CASE SweepWrites
    BY <2>5 DEF TypeOK, SweepWrites, Deleted, Expire, Active, SessionRow
  <2>6. QED
    BY <2>1, <2>2, <2>3, <2>4, <2>5
       DEF Next, vars, StartFlow, InspectTicket, Callback, ResolveConflict,
           ExchangeSucceeds, ExchangeRefused, ExchangeBreaks, GuestLogin, Identify,
           IssueFails, Use, SweepReads, Disable, Tick
<1>2. \A r \in Request : LocksUser(r)' => LocksUser(r) /\ request'[r] = request[r]
  <2>1. CASE UNCHANGED request
    BY <2>1 DEF LocksUser
  <2>2. ASSUME NEW r \in Request, NEW w, Does(r, w), w.at # "write"
        PROVE  \A o \in Request : LocksUser(o)' => LocksUser(o) /\ request'[o] = request[o]
    BY <2>2 DEF TypeOK, Does, LocksUser
  <2>3. Rest.at # "write"
    BY DEF Rest
  <2>4. ASSUME NEW r \in Request, ExchangeSucceeds(r) \/ Identify(r)
        PROVE  Ends(r) \/ \E w : Does(r, w) /\ w.at # "write"
    <3>1. request[r] \in Work
      BY DEF TypeOK
    <3>2. [request[r] EXCEPT !.at = "identify"].at # "write"
      BY <3>1 DEF Work
    <3>3. [request[r] EXCEPT !.at = "issue", !.time = now,
                             !.writes = user # "active"].at # "write"
      BY <3>1 DEF Work
    <3>4. QED BY <2>4, <3>2, <3>3 DEF ExchangeSucceeds, Identify
  <2>5. ASSUME NEW r \in Request, NEW f \in Flow, Callback(r, f) \/ ResolveConflict(r, f)
        PROVE  UNCHANGED request \/ \E w : Does(r, w) /\ w.at # "write"
    <3>1. [Rest EXCEPT !.at = "exchange", !.flow = f].at # "write"
      BY DEF Rest
    <3>2. [Rest EXCEPT !.at = "issue", !.time = now, !.flow = f, !.resolves = TRUE].at # "write"
      BY DEF Rest
    <3>3. QED BY <2>5, <3>1, <3>2 DEF Callback, ResolveConflict
  <2>6. ASSUME NEW r \in Request, NEW s \in Session, Use(r, s)
        PROVE  \E w : Does(r, w) /\ w.at # "write"
    <3>1. \A a \in {"expire", "touch"} :
             [Rest EXCEPT !.at = a, !.time = now, !.rows = {s}].at # "write"
      BY DEF Rest
    <3>2. QED BY <2>6, <3>1 DEF Use
  <2>7. ASSUME NEW r \in Request, GuestLogin(r) PROVE \E w : Does(r, w) /\ w.at # "write"
    BY <2>7 DEF GuestLogin, Rest
  <2>8. ASSUME NEW r \in Request,
               \/ ExchangeRefused(r) \/ ExchangeBreaks(r) \/ IssueTicket(r)
               \/ IssueFails(r) \/ Touch(r) \/ ExpireOnUse(r)
        PROVE  Ends(r)
    BY <2>8 DEF ExchangeRefused, ExchangeBreaks, IssueTicket, IssueFails, Touch, ExpireOnUse
  <2>9. UNCHANGED request \/ \E r \in Request : Ends(r) \/ \E w : Does(r, w) /\ w.at # "write"
    BY <2>4, <2>5, <2>6, <2>7, <2>8
       DEF Next, vars, StartFlow, InspectTicket, UseOfDisabled, Logout, SweepReads,
           SweepWrites, Disable, Tick
  <2>10. QED BY <2>1, <2>2, <2>3, <2>9 DEF Ends
<1>3. QED BY <1>1, <1>2

LEMMA LimitStarts == Init => LimitInv
<1> SUFFICES ASSUME Init PROVE LimitInv
  OBVIOUS
<1>1. \A r \in Request : ~LocksUser(r)
  BY DEF Init, LocksUser, Rest
<1>2. Active = {}
  BY DEF Init, Active
<1>3. LimitHolds
  BY <1>2, FS_EmptySet, LimitIsPositive DEF LimitHolds
<1>4. QED BY <1>1, <1>3 DEF LimitInv, OneIssuer, RoomIsMade

LEMMA LimitStays == TypeOK /\ LimitInv /\ [Next]_vars => LimitInv'
BY LockUserKeepsLimit, IssueKeepsLimit, OthersActivateNothing, FewerKeepsLimit

\* However many requests issue, resolve, use and expire sessions at once, the user
\* never has more active ones than the limit.
THEOREM LimitIsKept == Spec => []LimitHolds
<1>1. LimitInv => LimitHolds
  BY DEF LimitInv
<1>2. QED BY <1>1, LimitStarts, LimitStays, TypeCorrect, PTL DEF Spec

-----------------------------------------------------------------------------
(* The order of eviction *)

\* What a request has set aside is still the oldest when it issues its session:
\* nobody is seen in between.
SetAsideIsOldest ==
    \A r \in Request : LocksUser(r) =>
        AreOldest(request[r].rows, Active \ request[r].idle)

LEMMA LockUserSetsOldestAside ==
    ASSUME TypeOK, LimitInv, NEW r \in Request, LockUser(r)
    PROVE  SetAsideIsOldest'
<1> DEFINE idle == {s \in Active : IsIdle(s, request[r].time)}
<1>1. UNCHANGED sessions /\ Active' = Active
  BY DEF LockUser, Active
<1>2. \A o \in Request \ {r} : ~LocksUser(o)'
  BY DEF TypeOK, LockUser, MayLock, UserFree, LocksUser, Ends, Does
<1>3. CASE Ends(r)
  BY <1>2, <1>3 DEF TypeOK, Ends, Does, LocksUser, Rest, SetAsideIsOldest
<1>4. ASSUME NEW rows, NEW conflict, AreOldest(rows, Active \ idle),
             Does(r, [request[r] EXCEPT !.at = "write", !.rows = rows, !.idle = idle,
                                        !.conflict = conflict])
      PROVE  SetAsideIsOldest'
  <2> HIDE DEF idle
  <2>1. request'[r].rows = rows /\ request'[r].idle = idle
    BY <1>4 DEF TypeOK, Does, Work
  <2>2. QED BY <1>1, <1>2, <1>4, <2>1 DEF SetAsideIsOldest, AreOldest, Before
<1>5. QED BY <1>3, <1>4 DEF LockUser

LEMMA OthersKeepOldestAside ==
    ASSUME TypeOK, LimitInv, SetAsideIsOldest, [Next]_vars,
           \A r \in Request : ~LockUser(r) /\ \A s \in Session : ~Issue(r, s)
    PROVE  SetAsideIsOldest'
<1> DEFINE KeptOrGone(s) ==
      \/ /\ sessions'[s].seen = sessions[s].seen
         /\ sessions'[s].created = sessions[s].created
      \/ /\ sessions'[s].state = "deleted"
         /\ sessions'[s].seen = 0 /\ sessions'[s].created = 0
<1>1. /\ Active' \subseteq Active
      /\ \A r \in Request : LocksUser(r)' => LocksUser(r) /\ request'[r] = request[r]
  BY OthersActivateNothing
<1>2. CASE \E r \in Request : Touch(r)
  <2>1. \A r \in Request : ~LocksUser(r)
    BY <1>2 DEF Touch, MayTouch
  <2>2. QED BY <1>1, <2>1 DEF SetAsideIsOldest
<1>3. CASE \A r \in Request : ~Touch(r)
  <2>1. \A s \in Session : KeptOrGone(s)
    <3>1. CASE UNCHANGED sessions
      BY <3>1
    <3>2. ASSUME NEW idle, sessions' = Expire(idle, {})
          PROVE  \A s \in Session : KeptOrGone(s)
      BY <3>2 DEF TypeOK, Expire, SessionRow
    <3>3. ASSUME NEW r \in Request, ExpireOnUse(r)
          PROVE  \A s \in Session : KeptOrGone(s)
      BY <3>3 DEF TypeOK, ExpireOnUse, SessionRow
    <3>4. ASSUME NEW s \in Session, UseOfDisabled(s) \/ Logout(s)
          PROVE  \A t \in Session : KeptOrGone(t)
      BY <3>4 DEF TypeOK, UseOfDisabled, Logout, Deleted, SessionRow
    <3>5. CASE SweepWrites
      BY <3>5 DEF TypeOK, SweepWrites, Deleted, Expire, SessionRow
    <3>6. QED
      BY <1>3, <3>1, <3>2, <3>3, <3>4, <3>5
         DEF Next, vars, StartFlow, InspectTicket, Callback, ResolveConflict,
             ExchangeSucceeds, ExchangeRefused, ExchangeBreaks, GuestLogin, Identify,
             IssueTicket, IssueFails, Use, SweepReads, Disable, Tick
  <2>2. SUFFICES ASSUME NEW r \in Request, LocksUser(r)',
                        NEW s \in request'[r].rows,
                        NEW t \in (Active' \ request'[r].idle) \ request'[r].rows
        PROVE  Before(s, t)'
    BY DEF SetAsideIsOldest, AreOldest
  <2>3. LocksUser(r) /\ request'[r] = request[r]
    BY <1>1, <2>2
  <2>4. Before(s, t)
    BY <1>1, <2>2, <2>3 DEF SetAsideIsOldest, AreOldest
  <2>5. s \in Session /\ t \in Session
    BY <2>2, <2>3 DEF TypeOK, Work, Active
  <2>6. sessions'[t].seen = sessions[t].seen /\ sessions'[t].created = sessions[t].created
    BY <2>1, <2>2, <2>5 DEF Active
  <2>7. /\ sessions'[t].seen \in Nat /\ sessions'[t].created \in Nat
        /\ sessions[s].seen \in Nat /\ sessions[s].created \in Nat
    BY <2>5, <2>6 DEF TypeOK, SessionRow
  <2>8. KeptOrGone(s)
    BY <2>1, <2>5
  <2>9. QED BY <2>4, <2>6, <2>7, <2>8 DEF Before
<1>4. QED BY <1>2, <1>3

\* A login under the strategy evict_oldest, and the resolution of a conflict, evict
\* the sessions that were seen least recently, whatever the others do meanwhile.
THEOREM EvictionIsFair == Spec => EvictsLeastRecentlySeen
<1>1. Init => SetAsideIsOldest
  BY DEF Init, SetAsideIsOldest, LocksUser, Rest
<1>2. TypeOK /\ LimitInv /\ SetAsideIsOldest /\ [Next]_vars => SetAsideIsOldest'
  <2>1. ASSUME TypeOK, LimitInv, NEW r \in Request, NEW s \in Session, Issue(r, s)
        PROVE  SetAsideIsOldest'
    BY <2>1 DEF TypeOK, LimitInv, OneIssuer, Issue, Ends, Does, LocksUser, Rest,
                SetAsideIsOldest
  <2>2. QED BY <2>1, LockUserSetsOldestAside, OthersKeepOldestAside
<1>3. TypeOK /\ SetAsideIsOldest /\ [Next]_vars =>
        [\A s, t \in Session :
           /\ sessions[s].state = "active" /\ sessions'[s].state = "evicted"
           /\ sessions[t].state = "active" /\ sessions'[t].state = "active"
           => Before(s, t)]_vars
  <2> SUFFICES ASSUME TypeOK, SetAsideIsOldest, [Next]_vars,
                      NEW s \in Session, NEW t \in Session,
                      sessions[s].state = "active", sessions'[s].state = "evicted",
                      sessions[t].state = "active", sessions'[t].state = "active"
      PROVE  Before(s, t)
    OBVIOUS
  <2>1. ASSUME NEW r \in Request, NEW new \in Session, Issue(r, new) PROVE Before(s, t)
    <3>1. s # new /\ t # new
      BY <2>1 DEF Issue
    <3>2. /\ sessions'[s] = Expire(request[r].idle, request[r].rows)[s]
          /\ sessions'[t] = Expire(request[r].idle, request[r].rows)[t]
      BY <2>1, <3>1, ExpireType DEF Issue
    <3>3. s \in request[r].rows /\ t \notin request[r].rows \cup request[r].idle
      BY <3>2 DEF TypeOK, Expire, SessionRow
    <3>4. QED BY <2>1, <3>3 DEF SetAsideIsOldest, AreOldest, Active, Issue, LocksUser
  <2>2. ASSUME NEW idle, sessions'[s] = Expire(idle, {})[s] PROVE FALSE
    BY <2>2 DEF TypeOK, Expire, SessionRow
  <2>3. ASSUME NEW r \in Request, Touch(r) \/ ExpireOnUse(r) PROVE FALSE
    BY <2>3, UsesOnlyIdle
  <2>4. ASSUME NEW u \in Session, UseOfDisabled(u) \/ Logout(u) PROVE FALSE
    BY <2>4 DEF TypeOK, UseOfDisabled, Logout, Deleted, SessionRow
  <2>5. ASSUME SweepWrites PROVE FALSE
    BY <2>5 DEF TypeOK, SweepWrites, Deleted, Expire, SessionRow
  <2>6. ASSUME UNCHANGED sessions PROVE FALSE
    BY <2>6
  <2>7. QED
    BY <2>1, <2>2, <2>3, <2>4, <2>5, <2>6
       DEF Next, vars, StartFlow, InspectTicket, Callback, ResolveConflict,
           ExchangeSucceeds, ExchangeRefused, ExchangeBreaks, GuestLogin, Identify,
           LockUser, IssueTicket, IssueFails, Use, SweepReads, Disable, Tick
<1>4. Init => LimitInv
  BY LimitStarts
<1>5. TypeOK /\ LimitInv /\ [Next]_vars => LimitInv'
  BY LimitStays
<1>6. QED
  BY <1>1, <1>2, <1>3, <1>4, <1>5, TypeCorrect, PTL DEF Spec, EvictsLeastRecentlySeen

-----------------------------------------------------------------------------
(* One session for each login *)

\* A step that issues nothing and lets no request take a flow or a ticket, and that
\* gives one up only if it is nobody's.
LEMMA QuietStep ==
    ASSUME LoginInv,
           \A s \in Session : sessions'[s].source = sessions[s].source,
           \A r \in Request, f \in Flow : Holds(r, f)' =>
              /\ Holds(r, f) /\ request'[r].resolves = request[r].resolves
              /\ request[r].resolves => ~request'[r].conflict,
           \A f \in Flow :
              \/ flows'[f].state = flows[f].state
              \/ flows[f].state = "none" /\ flows'[f].state = "open"
              \/ /\ flows'[f].state = "deleted"
                 /\ \A r \in Request : Holds(r, f)' => request'[r].resolves,
           \A f \in Flow :
              \/ tickets'[f].state = tickets[f].state
              \/ /\ tickets'[f].state = "deleted"
                 /\ \A r \in Request : Holds(r, f)' => ~request'[r].resolves
    PROVE  LoginInv'
<1>1. HeldAlone'
  BY DEF LoginInv, HeldAlone
<1>2. HeldIsOpen'
  <2> SUFFICES ASSUME NEW r \in Request, NEW f \in Flow, Holds(r, f)'
      PROVE  /\ request'[r].resolves => tickets'[f].state = "open" /\ ~request'[r].conflict
             /\ ~request'[r].resolves => flows'[f].state = "open"
    BY DEF HeldIsOpen
  <2>1. /\ request[r].resolves => tickets[f].state = "open" /\ ~request[r].conflict
        /\ ~request[r].resolves => flows[f].state = "open"
    BY DEF LoginInv, HeldIsOpen
  <2>2. QED BY <2>1
<1>3. Unspent'
  BY DEF LoginInv, Unspent
<1>4. OneSessionPerLogin'
  BY DEF LoginInv, OneSessionPerLogin
<1>5. QED BY <1>1, <1>2, <1>3, <1>4 DEF LoginInv

LEMMA ExpireKeepsSource ==
    ASSUME TypeOK, NEW idle, NEW evicted, NEW s \in Session
    PROVE  Expire(idle, evicted)[s].source = sessions[s].source
BY DEF TypeOK, Expire, SessionRow

\* The other requests hold what they held, and the one that ends holds nothing.
LEMMA EndsHolds ==
    ASSUME TypeOK, NEW r \in Request, Ends(r)
    PROVE  \A o \in Request, f \in Flow : Holds(o, f)' =>
              o # r /\ Holds(o, f) /\ request'[o] = request[o]
BY DEF TypeOK, Ends, Does, Holds, Rest

LEMMA TakeFlow ==
    ASSUME TypeOK, LoginInv, NEW r \in Request, NEW f \in Flow, Callback(r, f)
    PROVE  LoginInv'
<1>1. CASE UNCHANGED request
  <2>1. \A o \in Request : ~(Holds(o, f)' /\ ~request'[o].resolves)
    BY <1>1 DEF Callback, LocksFlow, Holds
  <2>2. flows' = [flows EXCEPT ![f].state = "deleted"] \/ UNCHANGED flows
    BY <1>1 DEF Callback, DropsFlow, Arrives, Does
  <2>3. \A o \in Request, g \in Flow : Holds(o, g)' =>
           /\ Holds(o, g) /\ request'[o].resolves = request[o].resolves
           /\ request[o].resolves => ~request'[o].conflict
    BY <1>1 DEF Holds, LoginInv, HeldIsOpen
  <2>4. UNCHANGED <<sessions, tickets>>
    BY DEF Callback
  <2>5. \A g \in Flow : \/ flows'[g].state = flows[g].state
                        \/ g = f /\ flows'[g].state = "deleted"
    <3>1. flows[f] \in Grant /\ flows \in [Flow -> Grant]
      BY DEF TypeOK
    <3>2. [flows[f] EXCEPT !.state = "deleted"].state = "deleted"
      BY <3>1 DEF Grant
    <3>3. QED BY <2>2, <3>1, <3>2
  <2>6. QED BY <2>1, <2>3, <2>4, <2>5, QuietStep
<1>2. CASE Does(r, [Rest EXCEPT !.at = "exchange", !.flow = f]) /\ UNCHANGED flows
  <2>1. /\ request'[r].at = "exchange" /\ request'[r].flow = f /\ ~request'[r].resolves
        /\ \A o \in Request \ {r} : request'[o] = request[o]
    BY <1>2 DEF TypeOK, Does, Rest
  <2>2. flows[f].state = "open" /\ \A o \in Request : ~Holds(o, f)
    BY DEF Callback, LocksFlow, Holds, LoginInv, HeldIsOpen, Unspent
  <2>3. HeldAlone' /\ HeldIsOpen'
    BY <1>2, <2>1, <2>2 DEF Callback, LoginInv, HeldAlone, HeldIsOpen, Holds
  <2>4. QED BY <1>2, <2>3 DEF Callback, LoginInv, Unspent, OneSessionPerLogin
<1>3. QED BY <1>1, <1>2 DEF Callback

LEMMA TakeTicket ==
    ASSUME TypeOK, LoginInv, NEW r \in Request, NEW f \in Flow, ResolveConflict(r, f)
    PROVE  LoginInv'
<1>1. CASE UNCHANGED request
  <2>1. \A o \in Request : ~(Holds(o, f)' /\ request'[o].resolves)
    BY <1>1 DEF ResolveConflict, LocksTicket, Holds
  <2>2. tickets' = [tickets EXCEPT ![f].state = "deleted"] \/ UNCHANGED tickets
    BY <1>1 DEF ResolveConflict, TicketIsKept
  <2>3. \A o \in Request, g \in Flow : Holds(o, g)' =>
           /\ Holds(o, g) /\ request'[o].resolves = request[o].resolves
           /\ request[o].resolves => ~request'[o].conflict
    BY <1>1 DEF Holds, LoginInv, HeldIsOpen
  <2>4. UNCHANGED <<sessions, flows>>
    BY DEF ResolveConflict
  <2>5. \A g \in Flow : \/ tickets'[g].state = tickets[g].state
                        \/ g = f /\ tickets'[g].state = "deleted"
    <3>1. tickets[f] \in Grant /\ tickets \in [Flow -> Grant]
      BY DEF TypeOK
    <3>2. [tickets[f] EXCEPT !.state = "deleted"].state = "deleted"
      BY <3>1 DEF Grant
    <3>3. QED BY <2>2, <3>1, <3>2
  <2>6. QED BY <2>1, <2>3, <2>4, <2>5, QuietStep
<1>2. CASE /\ Does(r, [Rest EXCEPT !.at = "issue", !.time = now, !.flow = f,
                                   !.resolves = TRUE])
           /\ TicketIsKept(f)
  <2>1. /\ request'[r].at = "issue" /\ request'[r].flow = f /\ request'[r].resolves
        /\ ~request'[r].conflict /\ \A o \in Request \ {r} : request'[o] = request[o]
    BY <1>2 DEF TypeOK, Does, Rest
  <2>2. tickets[f].state = "open" /\ \A o \in Request : ~Holds(o, f)
    BY DEF ResolveConflict, TicketUsable, LocksTicket, Holds, LoginInv, HeldIsOpen, Unspent
  <2>3. HeldAlone' /\ HeldIsOpen'
    BY <1>2, <2>1, <2>2
       DEF ResolveConflict, TicketIsKept, LoginInv, HeldAlone, HeldIsOpen, Holds
  <2>4. QED BY <1>2, <2>3
    DEF ResolveConflict, TicketIsKept, LoginInv, Unspent, OneSessionPerLogin
<1>3. QED BY <1>1, <1>2 DEF ResolveConflict

LEMMA EndsLogin ==
    ASSUME TypeOK, LoginInv, NEW r \in Request, Ends(r), UNCHANGED tickets,
           \A s \in Session : sessions'[s].source = sessions[s].source,
           UNCHANGED flows \/ (DropsFlow(request[r].flow) /\ request[r].at = "exchange")
    PROVE  LoginInv'
<1>1. \A o \in Request, f \in Flow : Holds(o, f)' =>
         o # r /\ Holds(o, f) /\ request'[o] = request[o]
  BY EndsHolds
<1>2. \A o \in Request, f \in Flow : Holds(o, f)' =>
         /\ Holds(o, f) /\ request'[o].resolves = request[o].resolves
         /\ request[o].resolves => ~request'[o].conflict
  BY <1>1 DEF LoginInv, HeldIsOpen
<1>3. \A f \in Flow :
         \/ flows'[f].state = flows[f].state
         \/ /\ flows'[f].state = "deleted"
            /\ \A o \in Request : Holds(o, f)' => request'[o].resolves
  <2> SUFFICES ASSUME NEW f \in Flow, flows'[f].state # flows[f].state
      PROVE  flows'[f].state = "deleted" /\ \A o \in Request : ~Holds(o, f)'
    OBVIOUS
  <2>1. request[r].flow = f /\ request[r].at = "exchange" /\ flows'[f].state = "deleted"
    BY DEF TypeOK, Grant, DropsFlow
  <2>2. Holds(r, f)
    BY <2>1 DEF Holds
  <2>3. QED BY <1>1, <2>1, <2>2 DEF LoginInv, HeldAlone
<1>4. QED BY <1>2, <1>3, QuietStep

LEMMA SpendLogin ==
    ASSUME TypeOK, LoginInv, NEW r \in Request,
           IssueTicket(r) \/ \E s \in Session : Issue(r, s)
    PROVE  LoginInv'
<1> DEFINE f == request[r].flow
<1>1. \A o \in Request, g \in Flow : Holds(o, g)' =>
         o # r /\ Holds(o, g) /\ request'[o] = request[o]
  BY EndsHolds DEF IssueTicket, Issue
<1>2. request[r].at = "write" /\ f \in Flow \cup {NoFlow}
  BY DEF IssueTicket, Issue, TypeOK, Work
<1>3. f \in Flow => Holds(r, f)
  BY <1>2 DEF Holds
<1>4. \A o \in Request, g \in Flow : Holds(o, g)' => g # f
  BY <1>1, <1>3 DEF LoginInv, HeldAlone
<1>5. HeldAlone'
  BY <1>1 DEF LoginInv, HeldAlone
<1>6. \A g \in Flow \ {f} : flows'[g] = flows[g] /\ tickets'[g] = tickets[g]
  BY DEF TypeOK, IssueTicket, Issue, Spent, DropsFlow
<1>7. HeldIsOpen'
  BY <1>1, <1>4, <1>6 DEF LoginInv, HeldIsOpen
<1>8. f \in Flow => \A s \in Session : sessions[s].source # f
  BY <1>3 DEF LoginInv, HeldIsOpen, Unspent
<1>9. CASE IssueTicket(r)
  <2>1. \A s \in Session : sessions'[s].source = sessions[s].source
    BY <1>9, ExpireKeepsSource DEF IssueTicket
  <2>2. OneSessionPerLogin'
    BY <2>1 DEF LoginInv, OneSessionPerLogin
  <2>3. f \in Flow => flows'[f].state = "deleted"
    BY <1>9 DEF TypeOK, IssueTicket, DropsFlow, Grant
  <2>4. Unspent'
    <3> HIDE DEF f
    <3>1. QED BY <1>6, <1>8, <2>1, <2>3 DEF LoginInv, Unspent
  <2>5. QED BY <1>5, <1>7, <2>2, <2>4 DEF LoginInv
<1>10. ASSUME NEW s \in Session, Issue(r, s) PROVE LoginInv'
  <2>1. /\ sessions'[s].source = f
        /\ \A t \in Session \ {s} : sessions'[t].source = sessions[t].source
    <3>1. Expire(request[r].idle, request[r].rows) \in [Session -> SessionRow]
      BY ExpireType
    <3>2. sessions' = [Expire(request[r].idle, request[r].rows) EXCEPT
                         ![s] = [state |-> "active", seen |-> request[r].time,
                                 created |-> request[r].time, source |-> f]]
      BY <1>10 DEF Issue
    <3>3. QED BY <3>1, <3>2, ExpireKeepsSource
  <2>2. OneSessionPerLogin'
    <3> SUFFICES ASSUME NEW t \in Session, NEW u \in Session, t # u,
                        sessions'[t].source # NoFlow,
                        sessions'[t].source = sessions'[u].source
        PROVE  FALSE
      BY DEF OneSessionPerLogin
    <3>1. CASE t # s /\ u # s
      BY <2>1, <3>1 DEF LoginInv, OneSessionPerLogin
    <3>2. CASE t = s
      BY <1>2, <1>8, <2>1, <3>2
    <3>3. CASE u = s
      BY <1>2, <1>8, <2>1, <3>3
    <3>4. QED BY <3>1, <3>2, <3>3
  <2>3. f \in Flow => /\ flows'[f].state \notin {"none", "open"}
                     /\ tickets'[f].state # "open"
    <3>1. CASE request[r].resolves
      <4>1. \/ tickets' = [tickets EXCEPT ![f].state = "consumed"] /\ UNCHANGED flows
            \/ f = NoFlow
        BY <1>10, <3>1 DEF Issue, Spent
      <4>2. f \in Flow => tickets[f].state = "open"
        BY <1>3, <3>1 DEF LoginInv, HeldIsOpen
      <4>3. f \in Flow => flows[f].state \notin {"none", "open"}
        BY <4>2 DEF LoginInv, Unspent
      <4>4. QED BY <4>1, <4>3, SessionAssumption DEF TypeOK, Grant
    <3>2. CASE ~request[r].resolves
      <4>1. \/ DropsFlow(f) /\ UNCHANGED tickets
            \/ f = NoFlow
        BY <1>10, <3>2 DEF Issue, Spent
      <4>2. f \in Flow => flows[f].state = "open"
        BY <1>3, <3>2 DEF LoginInv, HeldIsOpen
      <4>3. f \in Flow => tickets[f].state # "open"
        BY <4>2 DEF LoginInv, Unspent
      <4>4. QED BY <4>1, <4>3, SessionAssumption DEF TypeOK, DropsFlow, Grant
    <3>3. QED BY <3>1, <3>2
  <2>4. Unspent'
    <3> HIDE DEF f
    <3>1. QED BY <1>6, <2>1, <2>3 DEF LoginInv, Unspent
  <2>5. QED BY <1>5, <1>7, <2>2, <2>4 DEF LoginInv
<1>11. QED BY <1>9, <1>10

LEMMA OthersKeepLogin ==
    ASSUME TypeOK, LoginInv, [Next]_vars,
           \A r \in Request : ~IssueTicket(r) /\ \A s \in Session : ~Issue(r, s),
           \A r \in Request, f \in Flow : ~Callback(r, f) /\ ~ResolveConflict(r, f)
    PROVE  LoginInv'
<1>1. CASE UNCHANGED <<sessions, flows, tickets, request>>
  BY <1>1, QuietStep DEF Holds, LoginInv, HeldIsOpen
<1>2. ASSUME NEW f \in Flow, StartFlow(f) \/ InspectTicket(f) PROVE LoginInv'
  <2>1. UNCHANGED <<sessions, request>>
    BY <1>2 DEF StartFlow, InspectTicket
  <2>2. \A g \in Flow : \/ flows'[g].state = flows[g].state
                        \/ flows[g].state = "none" /\ flows'[g].state = "open"
    <3>1. flows \in [Flow -> Grant]
      BY DEF TypeOK
    <3>2. CASE StartFlow(f)
      BY <3>1, <3>2 DEF StartFlow
    <3>3. CASE InspectTicket(f)
      BY <3>3 DEF InspectTicket
    <3>4. QED BY <1>2, <3>2, <3>3
  <2>3. \A g \in Flow : \/ tickets'[g].state = tickets[g].state
                        \/ /\ tickets'[g].state = "deleted"
                           /\ \A r \in Request : Holds(r, g)' => ~request'[r].resolves
    BY <1>2 DEF TypeOK, Grant, StartFlow, InspectTicket, LocksTicket, Holds
  <2>4. \A r \in Request, g \in Flow : Holds(r, g)' =>
           /\ Holds(r, g) /\ request'[r].resolves = request[r].resolves
           /\ request[r].resolves => ~request'[r].conflict
    BY <2>1 DEF Holds, LoginInv, HeldIsOpen
  <2>5. QED BY <2>1, <2>2, <2>3, <2>4, QuietStep
<1>3. ASSUME NEW r \in Request, ExchangeRefused(r) PROVE LoginInv'
  BY <1>3, EndsLogin DEF ExchangeRefused
<1>4. ASSUME NEW r \in Request, ExchangeBreaks(r) \/ IssueFails(r) PROVE LoginInv'
  BY <1>4, EndsLogin DEF ExchangeBreaks, IssueFails
<1>5. ASSUME NEW r \in Request, Touch(r) \/ ExpireOnUse(r) PROVE LoginInv'
  <2>1. \A s \in Session : sessions'[s].source = sessions[s].source
    BY <1>5 DEF TypeOK, SessionRow, Touch, ExpireOnUse
  <2>2. QED BY <1>5, <2>1, EndsLogin DEF Touch, ExpireOnUse
<1>6. ASSUME NEW r \in Request, NEW w,
             UNCHANGED <<sessions, flows, tickets>>, Does(r, w),
             w.at # "rest" => \/ w.flow = NoFlow
                              \/ /\ w.flow = request[r].flow /\ request[r].at # "rest"
                                 /\ w.resolves = request[r].resolves
                                 /\ w.resolves => ~w.conflict
      PROVE  LoginInv'
  <2>1. \A o \in Request \ {r} : request'[o] = request[o]
    BY <1>6 DEF TypeOK, Does
  <2>2. request'[r] = w
    BY <1>6 DEF TypeOK, Does
  <2>3. \A o \in Request, g \in Flow : Holds(o, g)' =>
           /\ Holds(o, g) /\ request'[o].resolves = request[o].resolves
           /\ request[o].resolves => ~request'[o].conflict
    BY <1>6, <2>1, <2>2, SessionAssumption DEF Holds, LoginInv, HeldIsOpen
  <2>4. QED BY <1>6, <2>3, QuietStep
<1>7. ASSUME NEW r \in Request, ExchangeSucceeds(r) \/ Identify(r) PROVE LoginInv'
  <2>1. request[r] \in Work /\ request[r].at # "rest"
    BY <1>7 DEF TypeOK, ExchangeSucceeds, Identify
  <2>2. \A f \in Flow : Holds(r, f) => (request[r].resolves => ~request[r].conflict)
    BY DEF LoginInv, HeldIsOpen
  <2>3. \A i \in BOOLEAN :
           LET w == [request[r] EXCEPT !.at = "issue", !.time = now, !.writes = i]
           IN  /\ w.flow = request[r].flow /\ w.resolves = request[r].resolves
               /\ w.conflict = request[r].conflict
    BY <2>1 DEF Work
  <2>4. LET w == [request[r] EXCEPT !.at = "identify"]
        IN  /\ w.flow = request[r].flow /\ w.resolves = request[r].resolves
            /\ w.conflict = request[r].conflict
    BY <2>1 DEF Work
  <2>5. request[r].flow = NoFlow \/ (request[r].resolves => ~request[r].conflict)
    BY <2>1, <2>2 DEF Work, Holds
  <2>6. CASE ExchangeSucceeds(r)
    BY <1>6, <2>1, <2>4, <2>5, <2>6 DEF ExchangeSucceeds
  <2>7. CASE Ends(r) /\ Identify(r)
    BY <2>7, EndsLogin DEF Identify
  <2>8. CASE Does(r, [request[r] EXCEPT !.at = "issue", !.time = now,
                                        !.writes = user # "active"]) /\ Identify(r)
    <3>1. (user # "active") \in BOOLEAN
      OBVIOUS
    <3>2. QED BY <1>6, <2>1, <2>3, <2>5, <2>8, <3>1 DEF Identify
  <2>9. QED BY <1>7, <2>6, <2>7, <2>8 DEF Identify
<1>8. ASSUME NEW r \in Request, LockUser(r) PROVE LoginInv'
  <2>1. request[r] \in Work /\ request[r].at = "issue"
    BY <1>8 DEF TypeOK, LockUser
  <2>2. CASE Ends(r)
    BY <1>8, <2>2, EndsLogin DEF LockUser
  <2>3. ASSUME NEW rows, NEW idle, NEW conflict, request[r].resolves => ~conflict,
               Does(r, [request[r] EXCEPT !.at = "write", !.rows = rows,
                                          !.idle = idle, !.conflict = conflict])
        PROVE  LoginInv'
    <3>1. LET w == [request[r] EXCEPT !.at = "write", !.rows = rows,
                                      !.idle = idle, !.conflict = conflict]
          IN  /\ w.flow = request[r].flow /\ w.resolves = request[r].resolves
              /\ w.conflict = conflict
      BY <2>1 DEF Work
    <3>2. UNCHANGED <<sessions, flows, tickets>>
      BY <1>8 DEF LockUser
    <3>3. QED BY <1>6, <2>1, <2>3, <3>1, <3>2
  <2>4. request[r].resolves => StrategyOf(r) # "reject"
    BY DEF StrategyOf
  <2>5. QED BY <1>8, <2>2, <2>3, <2>4 DEF LockUser
<1>9. ASSUME NEW r \in Request, GuestLogin(r) PROVE LoginInv'
  <2>1. [Rest EXCEPT !.at = "identify"].flow = NoFlow
    BY DEF Rest
  <2>2. QED BY <1>6, <1>9, <2>1 DEF GuestLogin
<1>10. ASSUME NEW r \in Request, NEW s \in Session, Use(r, s) PROVE LoginInv'
  <2>1. \A a : [Rest EXCEPT !.at = a, !.time = now, !.rows = {s}].flow = NoFlow
    BY DEF Rest
  <2>2. QED BY <1>6, <1>10, <2>1 DEF Use
<1>11. ASSUME UNCHANGED <<flows, tickets, request>>,
              \A s \in Session : sessions'[s].source = sessions[s].source
       PROVE  LoginInv'
  BY <1>11, QuietStep DEF Holds, LoginInv, HeldIsOpen
<1>12. ASSUME NEW s \in Session, UseOfDisabled(s) \/ Logout(s) PROVE LoginInv'
  BY <1>11, <1>12 DEF TypeOK, SessionRow, UseOfDisabled, Logout, Deleted
<1>13. CASE SweepWrites
  <2>1. \A s \in Session : sessions'[s].source = sessions[s].source
    BY <1>13, ExpireKeepsSource DEF TypeOK, SessionRow, SweepWrites, Deleted
  <2>2. \A g \in Flow : \/ flows'[g].state = flows[g].state
                        \/ /\ flows'[g].state = "deleted"
                           /\ \A r \in Request : Holds(r, g)' => request'[r].resolves
    BY <1>13 DEF TypeOK, Grant, SweepWrites, Swept, SweepMayWrite, LocksFlow, Holds
  <2>3. \A g \in Flow : \/ tickets'[g].state = tickets[g].state
                        \/ /\ tickets'[g].state = "deleted"
                           /\ \A r \in Request : Holds(r, g)' => ~request'[r].resolves
    BY <1>13 DEF TypeOK, Grant, SweepWrites, Swept, SweepMayWrite, LocksTicket, Holds
  <2>4. \A r \in Request, g \in Flow : Holds(r, g)' =>
           /\ Holds(r, g) /\ request'[r].resolves = request[r].resolves
           /\ request[r].resolves => ~request'[r].conflict
    BY <1>13 DEF SweepWrites, Holds, LoginInv, HeldIsOpen
  <2>5. QED BY <2>1, <2>2, <2>3, <2>4, QuietStep
<1>14. QED
  BY <1>1, <1>2, <1>3, <1>4, <1>5, <1>7, <1>8, <1>9, <1>10, <1>12, <1>13
     DEF Next, vars, SweepReads, Disable, Tick

\* An authorisation, and the ticket it may have become, gives one session at most,
\* however often its callback and its resolution are repeated and overlap.
THEOREM LoginIsSpentOnce == Spec => []OneSessionPerLogin
<1>1. Init => LoginInv
  BY SessionAssumption
     DEF Init, LoginInv, HeldAlone, HeldIsOpen, Unspent, OneSessionPerLogin, Holds, Rest
<1>2. TypeOK /\ LoginInv /\ [Next]_vars => LoginInv'
  BY TakeFlow, TakeTicket, SpendLogin, OthersKeepLogin
<1>3. LoginInv => OneSessionPerLogin
  BY DEF LoginInv
<1>4. QED BY <1>1, <1>2, <1>3, TypeCorrect, PTL DEF Spec

-----------------------------------------------------------------------------
(* Nothing is spent in vain *)

\* A flow that has not been spent has no ticket yet, and what the clean-up has read
\* is still expired or spent when it writes: no ticket opens again under the name of
\* one it found expired.
SweptIsSpent ==
    \A f \in Flow :
        /\ flows[f].state \in {"none", "open"} => tickets[f].state = "none"
        /\ f \in sweep.flows =>
             flows[f].state # "none" /\ (flows[f].state = "open" => flows[f].expires <= now)
        /\ f \in sweep.tickets =>
             /\ flows[f].state \notin {"none", "open"}
             /\ tickets[f].state = "open" => tickets[f].expires <= now

\* What a step may give up a ticket or a flow for (NothingSpentInVain).
TicketGoesFor(f) ==
    tickets[f].state = "open" /\ tickets'[f].state # "open" =>
        \/ tickets[f].expires <= now
        \/ \E s \in Session : sessions'[s].source = f /\ sessions[s].source # f
FlowGoesFor(f) ==
    flows[f].state = "open" /\ flows'[f].state # "open" =>
        \/ flows[f].expires <= now
        \/ \E s \in Session : sessions'[s].source = f
        \/ tickets'[f].state = "open"
        \/ \E r \in Request : request[r].at = "exchange" /\ request[r].flow = f

Accounted == SweptIsSpent' /\ \A f \in Flow : TicketGoesFor(f) /\ FlowGoesFor(f)

\* A step of the clock, the clean-up's reading, and whatever touches neither.
LEMMA ReadsAreAccounted ==
    ASSUME TypeOK, SweptIsSpent, UNCHANGED <<flows, tickets>>,
           UNCHANGED <<now, sweep>> \/ SweepReads \/ (Tick /\ UNCHANGED sweep)
    PROVE  Accounted
<1>1. \A f \in Flow : TicketGoesFor(f) /\ FlowGoesFor(f)
  BY DEF TicketGoesFor, FlowGoesFor
<1>0. /\ flows' = flows /\ tickets' = tickets /\ now \in Nat
      /\ \A f \in Flow : flows[f].expires \in Nat /\ tickets[f].expires \in Nat
  BY DEF TypeOK, Grant
<1>2. CASE UNCHANGED <<now, sweep>>
  <2>1. now' = now /\ sweep' = sweep
    BY <1>2
  <2> QED BY <1>0, <1>1, <2>1 DEF SweptIsSpent, Accounted
<1>3. CASE SweepReads
  <2>1. /\ sweep'.flows = {f \in Flow : flows[f].state = "open" /\ flows[f].expires <= now}
        /\ sweep'.tickets = {f \in Flow : \/ tickets[f].state = "consumed"
                                          \/ /\ tickets[f].state = "open"
                                             /\ tickets[f].expires <= now}
    BY <1>3 DEF SweepReads
  <2>2. now' = now
    BY <1>3 DEF SweepReads
  <2> QED BY <1>0, <1>1, <2>1, <2>2 DEF SweptIsSpent, Accounted
<1>4. CASE Tick /\ UNCHANGED sweep
  <2>1. now' = now + 1 /\ sweep' = sweep
    BY <1>4 DEF Tick
  <2> QED BY <1>0, <1>1, <2>1 DEF SweptIsSpent, Accounted
<1> QED BY <1>2, <1>3, <1>4

\* A flow is started, dropped by its callback, or refused by Microsoft.
LEMMA FlowStepsAreAccounted ==
    ASSUME TypeOK, SweptIsSpent, NEW f \in Flow, UNCHANGED <<now, tickets, sweep>>,
           \/ StartFlow(f)
           \/ DropsFlow(f) /\ flows[f].state = "open" /\ flows[f].expires <= now
           \/ /\ DropsFlow(f)
              /\ \E r \in Request : request[r].at = "exchange" /\ request[r].flow = f
    PROVE  Accounted
<1>1. \A g \in Flow \ {f} : flows'[g] = flows[g]
  BY DEF StartFlow, DropsFlow, TypeOK
<1>2. flows[f] \in Grant /\ (flows'[f].state = "deleted" \/ StartFlow(f))
  BY DEF DropsFlow, TypeOK, Grant
<1>3. StartFlow(f) => flows[f].state = "none" /\ flows'[f].state = "open"
  BY DEF StartFlow, TypeOK
<1>4. SweptIsSpent'
  BY <1>1, <1>2, <1>3 DEF SweptIsSpent
<1>5. \A g \in Flow : TicketGoesFor(g)
  BY DEF TicketGoesFor
<1>6. \A g \in Flow \ {f} : FlowGoesFor(g)
  BY <1>1 DEF FlowGoesFor
<1>7. FlowGoesFor(f)
  BY <1>3 DEF FlowGoesFor
<1> QED BY <1>4, <1>5, <1>6, <1>7 DEF Accounted

\* A ticket that has expired is deleted when it is looked at.
LEMMA TicketStepsAreAccounted ==
    ASSUME TypeOK, SweptIsSpent, NEW f \in Flow, UNCHANGED <<now, flows, sweep>>,
           tickets[f].state = "open", tickets[f].expires <= now,
           tickets' = [tickets EXCEPT ![f].state = "deleted"]
    PROVE  Accounted
<1>1. /\ \A g \in Flow \ {f} : tickets'[g] = tickets[g]
      /\ tickets'[f].state = "deleted"
  BY DEF TypeOK, Grant
<1>2. SweptIsSpent'
  BY <1>1 DEF SweptIsSpent
<1>3. \A g \in Flow : TicketGoesFor(g) /\ FlowGoesFor(g)
  BY <1>1 DEF TicketGoesFor, FlowGoesFor
<1> QED BY <1>2, <1>3 DEF Accounted

\* A session or a ticket is issued: the request still held what it is issued for.
LEMMA IssuesAreAccounted ==
    ASSUME TypeOK, LoginInv, SweptIsSpent, NEW r \in Request,
           IssueTicket(r) \/ \E s \in Session : Issue(r, s)
    PROVE  Accounted
<1> DEFINE f == request[r].flow
<1>1. request[r].at = "write" /\ f \in Flow \cup {NoFlow} /\ UNCHANGED <<now, sweep>>
  BY DEF IssueTicket, Issue, TypeOK, Work
<1>2. \A g \in Flow \ {f} : flows'[g] = flows[g] /\ tickets'[g] = tickets[g]
  BY DEF TypeOK, IssueTicket, Issue, Spent, DropsFlow
<1>3. \A g \in Flow \ {f} : TicketGoesFor(g) /\ FlowGoesFor(g)
  BY <1>2 DEF TicketGoesFor, FlowGoesFor
<1>4. f \in Flow => Holds(r, f) /\ \A s \in Session : sessions[s].source # f
  BY <1>1 DEF Holds, LoginInv, HeldIsOpen, Unspent
<1>5. CASE IssueTicket(r)
  <2>1. f \in Flow => /\ flows[f].state = "open" /\ flows'[f].state = "deleted"
                      /\ tickets'[f].state = "open"
    <3>1. f \in Flow => flows[f].state = "open"
      BY <1>4, <1>5 DEF LoginInv, HeldIsOpen, IssueTicket
    <3> QED BY <1>5, <3>1 DEF IssueTicket, DropsFlow, TypeOK, Grant
  <2>2. SweptIsSpent'
    <3> HIDE DEF f
    <3> QED BY <1>1, <1>2, <2>1 DEF SweptIsSpent
  <2>3. f \in Flow => TicketGoesFor(f) /\ FlowGoesFor(f)
    BY <2>1 DEF TicketGoesFor, FlowGoesFor
  <2> QED BY <1>3, <2>2, <2>3 DEF Accounted
<1>6. ASSUME NEW s \in Session, Issue(r, s) PROVE Accounted
  <2>1. sessions'[s].source = f
    <3>1. Expire(request[r].idle, request[r].rows) \in [Session -> SessionRow]
      BY ExpireType
    <3>2. sessions' = [Expire(request[r].idle, request[r].rows) EXCEPT
                         ![s] = [state |-> "active", seen |-> request[r].time,
                                 created |-> request[r].time, source |-> f]]
      BY <1>6 DEF Issue
    <3> QED BY <3>1, <3>2
  <2>2. f \in Flow => TicketGoesFor(f) /\ FlowGoesFor(f)
    <3> HIDE DEF f
    <3> QED BY <1>4, <2>1 DEF TicketGoesFor, FlowGoesFor
  <2>3. f \in Flow => /\ flows'[f].state \notin {"none", "open"}
                      /\ tickets'[f].state # "open"
    <3>1. CASE request[r].resolves
      <4>1. \/ tickets' = [tickets EXCEPT ![f].state = "consumed"] /\ UNCHANGED flows
            \/ f = NoFlow
        BY <1>6, <3>1 DEF Issue, Spent
      <4>2. f \in Flow => tickets[f].state = "open"
        BY <1>4, <3>1 DEF LoginInv, HeldIsOpen
      <4>3. f \in Flow => flows[f].state \notin {"none", "open"}
        BY <4>2 DEF LoginInv, Unspent
      <4> QED BY <4>1, <4>3, SessionAssumption DEF TypeOK, Grant
    <3>2. CASE ~request[r].resolves
      <4>1. \/ DropsFlow(f) /\ UNCHANGED tickets
            \/ f = NoFlow
        BY <1>6, <3>2 DEF Issue, Spent
      <4>2. f \in Flow => flows[f].state = "open"
        BY <1>4, <3>2 DEF LoginInv, HeldIsOpen
      <4>3. f \in Flow => tickets[f].state # "open"
        BY <4>2 DEF LoginInv, Unspent
      <4> QED BY <4>1, <4>3, SessionAssumption DEF TypeOK, DropsFlow, Grant
    <3> QED BY <3>1, <3>2
  <2>4. SweptIsSpent'
    <3> HIDE DEF f
    <3> QED BY <1>1, <1>2, <2>3 DEF SweptIsSpent
  <2> QED BY <1>3, <2>2, <2>4 DEF Accounted
<1> QED BY <1>5, <1>6

\* The clean-up writes: what it deletes had expired or been spent when it read, and is
\* no other grant since.
LEMMA SweepIsAccounted ==
    ASSUME TypeOK, SweptIsSpent, SweepWrites
    PROVE  Accounted
<1>1. \A f \in Flow :
        /\ flows'[f] = flows[f] \/ (f \in sweep.flows /\ flows'[f].state = "deleted")
        /\ tickets'[f] = tickets[f] \/ (f \in sweep.tickets /\ tickets'[f].state = "deleted")
  BY DEF SweepWrites, Swept, TypeOK, Grant
<1>2. sweep'.flows = {} /\ sweep'.tickets = {} /\ now' = now
  BY DEF SweepWrites, Asleep
<1>3. SweptIsSpent'
  BY <1>1, <1>2 DEF SweptIsSpent
<1>4. \A f \in Flow : TicketGoesFor(f) /\ FlowGoesFor(f)
  BY <1>1 DEF SweptIsSpent, TicketGoesFor, FlowGoesFor
<1> QED BY <1>3, <1>4 DEF Accounted

LEMMA StepsAreAccounted ==
    TypeOK /\ LoginInv /\ SweptIsSpent /\ [Next]_vars => Accounted
<1> SUFFICES ASSUME TypeOK, LoginInv, SweptIsSpent, [Next]_vars PROVE Accounted
  OBVIOUS
<1>1. CASE UNCHANGED <<now, flows, tickets, sweep>>
  BY <1>1, ReadsAreAccounted
<1>2. ASSUME NEW f \in Flow, StartFlow(f) \/ InspectTicket(f) PROVE Accounted
  BY <1>2, FlowStepsAreAccounted, TicketStepsAreAccounted DEF StartFlow, InspectTicket
<1>3. ASSUME NEW r \in Request, NEW f \in Flow, Callback(r, f) PROVE Accounted
  BY <1>1, <1>3, FlowStepsAreAccounted DEF Callback
<1>4. ASSUME NEW r \in Request, NEW f \in Flow, ResolveConflict(r, f) PROVE Accounted
  BY <1>1, <1>4, TicketStepsAreAccounted DEF ResolveConflict, TicketIsKept, TicketUsable
<1>5. ASSUME NEW r \in Request, ExchangeRefused(r) PROVE Accounted
  <2>1. request[r].flow \in Flow \cup {NoFlow}
    BY DEF TypeOK, Work
  <2>2. CASE request[r].flow \in Flow
    BY <1>5, <2>2, FlowStepsAreAccounted DEF ExchangeRefused
  <2>3. CASE request[r].flow = NoFlow
    <3>1. UNCHANGED <<now, flows, tickets, sweep>>
      BY <1>5, <2>3, SessionAssumption DEF ExchangeRefused, DropsFlow, TypeOK
    <3> QED BY <1>1, <3>1
  <2> QED BY <2>1, <2>2, <2>3
<1>6. CASE \E r \in Request : IssueTicket(r) \/ \E s \in Session : Issue(r, s)
  BY <1>6, IssuesAreAccounted
<1>7. CASE SweepReads \/ Tick
  BY <1>7, ReadsAreAccounted DEF SweepReads, Tick
<1>8. CASE SweepWrites
  BY <1>8, SweepIsAccounted
<1> QED
  BY <1>1, <1>2, <1>3, <1>4, <1>5, <1>6, <1>7, <1>8
     DEF Next, vars, ExchangeSucceeds, ExchangeBreaks, GuestLogin, Identify, LockUser,
         IssueFails, Touch, ExpireOnUse, Use, UseOfDisabled, Logout, Disable

\* An authorisation or a ticket is given up only for a session, for a ticket, because it
\* has expired, or because Microsoft refused it: a login that fails half way, or that the
\* clean-up overtakes, can be tried again (microsoft_oauth.py, conflict_tickets.py,
\* auth_cleanup.py).
THEOREM NothingIsWasted == Spec => NothingSpentInVain
<1>1. Init => LoginInv /\ SweptIsSpent
  BY SessionAssumption
     DEF Init, LoginInv, HeldAlone, HeldIsOpen, Unspent, OneSessionPerLogin, Holds, Rest,
         SweptIsSpent, Asleep
<1>2. TypeOK /\ LoginInv /\ [Next]_vars => LoginInv'
  BY TakeFlow, TakeTicket, SpendLogin, OthersKeepLogin
<1>3. TypeOK /\ LoginInv /\ SweptIsSpent /\ [Next]_vars => SweptIsSpent'
  BY StepsAreAccounted DEF Accounted
<1>4. TypeOK /\ LoginInv /\ SweptIsSpent /\ [Next]_vars =>
        [\A f \in Flow :
           /\ (tickets[f].state = "open" /\ tickets'[f].state # "open"
               => \/ tickets[f].expires <= now
                  \/ \E s \in Session : sessions'[s].source = f /\ sessions[s].source # f)
           /\ (flows[f].state = "open" /\ flows'[f].state # "open"
               => \/ flows[f].expires <= now
                  \/ \E s \in Session : sessions'[s].source = f
                  \/ tickets'[f].state = "open"
                  \/ \E r \in Request : request[r].at = "exchange" /\ request[r].flow = f)]_vars
  BY StepsAreAccounted DEF Accounted, TicketGoesFor, FlowGoesFor
<1> QED
  BY <1>1, <1>2, <1>3, <1>4, TypeCorrect, PTL DEF Spec, NothingSpentInVain
-----------------------------------------------------------------------------
(* What EveryRequestEnds rests on besides fairness *)

\* The requests whose row locks a request waits on: the insert of its identity, the
\* row of the user for an issue, and the same row for the last_seen_at of a touch.
WaitsOn(r, o) ==
    \/ request[r].at = "identify" /\ user = "absent" /\ Inserts(o)
    \/ request[r].at = "issue" /\ o # r /\ (LocksUser(o) \/ Inserts(o))
    \/ request[r].at = "touch" /\ LocksUser(o)

WaitsOnNone(r) == \A o \in Request : ~WaitsOn(r, o)

\* How many more steps a request takes at most.
StepsLeft(r) ==
    LET at == request[r].at IN
    IF at = "exchange" THEN 4
    ELSE IF at = "identify" THEN 3
    ELSE IF at = "issue" THEN 2
    ELSE IF at = "rest" THEN 0 ELSE 1

\* Of the threads that insert the user only one is past the unique index, only
\* a thread that has identified the user writes its row, and until the row is there
\* nobody is that far without inserting it.
InsertInv ==
    /\ \A r, o \in Request : Inserts(r) /\ Inserts(o) => r = o
    /\ \A r \in Request : request[r].writes => request[r].at \in {"issue", "write"}
    /\ user = "absent" =>
         \A r \in Request : request[r].at \in {"issue", "write"} => request[r].writes

\* What a step makes of the request that takes it.
Moves(r) ==
    \/ /\ request[r].at = "rest" /\ ~request'[r].writes
       /\ request'[r].at \in {"issue", "write"} => user = "active"
    \/ request[r].at # "rest" /\ request'[r] = Rest
    \/ /\ request[r].at = "exchange" /\ request'[r].at = "identify"
       /\ request'[r].writes = request[r].writes
    \/ /\ request[r].at = "identify" /\ IdentityFree(r) /\ request'[r].at = "issue"
       /\ request'[r].writes = (user # "active")
    \/ /\ request[r].at = "issue" /\ request'[r].at = "write"
       /\ request'[r].writes = request[r].writes

\* WaitsOn is what the guards of the model say: a request whose step is held by a
\* lock waits on another one, and no other step of a request is held by any.
LEMMA GuardsAreWaits ==
    ASSUME NEW r \in Request
    PROVE  /\ request[r].at = "identify" => (IdentityFree(r) <=> WaitsOnNone(r))
           /\ request[r].at = "issue" => (MayLock(r) <=> WaitsOnNone(r))
           /\ request[r].at = "touch" => (MayTouch(r) <=> WaitsOnNone(r))
           /\ request[r].at \notin {"identify", "issue", "touch"} => WaitsOnNone(r)
BY DEF WaitsOn, WaitsOnNone, IdentityFree, MayLock, UserFree, MayTouch

LEMMA OneMoves ==
    ASSUME TypeOK, [Next]_vars
    PROVE  /\ user' = "absent" => user = "absent"
           /\ \/ UNCHANGED request
              \/ \E r \in Request :
                   Moves(r) /\ \A o \in Request \ {r} : request'[o] = request[o]
<1> USE DEF Does, Ends, Moves
<1>0. request \in [Request -> Work]
  BY DEF TypeOK
<1>1. CASE UNCHANGED <<user, request>>
  BY <1>1
<1>2. ASSUME NEW r \in Request, NEW f \in Flow, Callback(r, f) \/ ResolveConflict(r, f)
      PROVE  /\ UNCHANGED user
             /\ \/ UNCHANGED request
                \/ Moves(r) /\ \A o \in Request \ {r} : request'[o] = request[o]
  BY <1>0, <1>2 DEF Callback, ResolveConflict, Arrives, Rest
<1>3. ASSUME NEW r \in Request, ExchangeSucceeds(r)
      PROVE  UNCHANGED user /\ Moves(r) /\ \A o \in Request \ {r} : request'[o] = request[o]
  <2>1. request[r] \in Work
    BY <1>0
  <2>2. request'[r] = [request[r] EXCEPT !.at = "identify"]
    BY <1>0, <1>3 DEF ExchangeSucceeds
  <2>3. request'[r].at = "identify" /\ request'[r].writes = request[r].writes
    BY <2>1, <2>2 DEF Work
  <2> QED BY <1>0, <1>3, <2>3 DEF ExchangeSucceeds
<1>4. ASSUME NEW r \in Request,
             \/ ExchangeRefused(r) \/ ExchangeBreaks(r) \/ IssueFails(r)
             \/ Touch(r) \/ ExpireOnUse(r)
      PROVE  UNCHANGED user /\ Moves(r) /\ \A o \in Request \ {r} : request'[o] = request[o]
  BY <1>0, <1>4 DEF ExchangeRefused, ExchangeBreaks, IssueFails, Touch, ExpireOnUse
<1>5. ASSUME NEW r \in Request, IssueTicket(r) \/ \E s \in Session : Issue(r, s)
      PROVE  /\ user' = "absent" => user = "absent"
             /\ Moves(r) /\ \A o \in Request \ {r} : request'[o] = request[o]
  BY <1>0, <1>5 DEF IssueTicket, Issue, WritesUser
<1>6. ASSUME NEW r \in Request, GuestLogin(r) \/ \E s \in Session : Use(r, s)
      PROVE  UNCHANGED user /\ Moves(r) /\ \A o \in Request \ {r} : request'[o] = request[o]
  <2>1. CASE GuestLogin(r)
    BY <1>0, <2>1 DEF GuestLogin, Arrives, Rest
  <2>2. ASSUME NEW s \in Session, Use(r, s)
        PROVE  UNCHANGED user /\ Moves(r) /\ \A o \in Request \ {r} : request'[o] = request[o]
    <3>1. \A at : ~[Rest EXCEPT !.at = at, !.time = now, !.rows = {s}].writes
      BY DEF Rest
    <3>0. \A at \in {"expire", "touch"} :
             [Rest EXCEPT !.at = at, !.time = now, !.rows = {s}].at = at
      BY DEF Rest
    <3> DEFINE read == [Rest EXCEPT !.at = IF IsIdle(s, now) THEN "expire" ELSE "touch",
                                    !.time = now, !.rows = {s}]
    <3>2. request' = [request EXCEPT ![r] = read] /\ ~read.writes
           /\ read.at \in {"expire", "touch"}
      BY <2>2, <3>0, <3>1 DEF Use
    <3> HIDE DEF read
    <3>3. /\ ~request'[r].writes /\ request'[r].at \in {"expire", "touch"}
          /\ \A o \in Request \ {r} : request'[o] = request[o]
      BY <1>0, <3>2
    <3> QED BY <2>2, <3>3 DEF Use, Arrives
  <2> QED BY <1>6, <2>1, <2>2
<1>7. ASSUME NEW r \in Request, Identify(r)
      PROVE  UNCHANGED user /\ Moves(r) /\ \A o \in Request \ {r} : request'[o] = request[o]
  <2>1. request[r] \in Work
    BY <1>0
  <2>2. \A w \in BOOLEAN :
          LET n == [request[r] EXCEPT !.at = "issue", !.time = now, !.writes = w]
          IN  n.at = "issue" /\ n.writes = w
    BY <2>1 DEF Work
  <2>3. CASE Ends(r)
    BY <1>0, <1>7, <2>3 DEF Identify
  <2>4. CASE Does(r, [request[r] EXCEPT !.at = "issue", !.time = now,
                                        !.writes = user # "active"])
    <3>1. request'[r] = [request[r] EXCEPT !.at = "issue", !.time = now,
                                           !.writes = user # "active"]
      BY <1>0, <2>4
    <3>2. request'[r].at = "issue" /\ request'[r].writes = (user # "active")
      BY <2>2, <3>1
    <3> QED BY <1>0, <1>7, <2>4, <3>2 DEF Identify
  <2> QED BY <1>7, <2>3, <2>4 DEF Identify
<1>8. ASSUME NEW r \in Request, LockUser(r)
      PROVE  UNCHANGED user /\ Moves(r) /\ \A o \in Request \ {r} : request'[o] = request[o]
  <2> DEFINE idle == {s \in Active : IsIdle(s, request[r].time)}
             over == Overflow(Cardinality(Active \ idle))
             conflict == over > 0 /\ StrategyOf(r) = "reject"
             Set(rows) == [request[r] EXCEPT !.at = "write", !.rows = rows,
                                             !.idle = idle, !.conflict = conflict]
  <2> HIDE DEF Does, Ends, Moves
  <2>1. UNCHANGED user /\ request[r].at = "issue"
    BY <1>8 DEF LockUser
  <2>2. Ends(r) \/ \E rows \in SUBSET (Active \ idle) : Does(r, Set(rows))
    BY <1>8 DEF LockUser
  <2>3. CASE Ends(r)
    BY <1>0, <2>1, <2>3 DEF Does, Ends, Moves
  <2>4. ASSUME NEW rows, Does(r, Set(rows))
        PROVE  Moves(r) /\ \A o \in Request \ {r} : request'[o] = request[o]
    <3> HIDE DEF idle, conflict
    <3>1. request[r] \in Work
      BY <1>0
    <3>2. Set(rows).at = "write" /\ Set(rows).writes = request[r].writes
      BY <3>1 DEF Work
    <3> HIDE DEF Set
    <3>3. request'[r] = Set(rows) /\ \A o \in Request \ {r} : request'[o] = request[o]
      BY <1>0, <2>4 DEF Does
    <3> QED BY <2>1, <3>2, <3>3 DEF Moves
  <2> HIDE DEF Set, idle
  <2> QED BY <2>1, <2>2, <2>3, <2>4
<1>9. ASSUME [Next]_vars
      PROVE  \/ UNCHANGED <<user, request>>
             \/ \E r \in Request, f \in Flow : Callback(r, f) \/ ResolveConflict(r, f)
             \/ \E r \in Request :
                  \/ ExchangeSucceeds(r) \/ ExchangeRefused(r) \/ ExchangeBreaks(r)
                  \/ IssueFails(r) \/ Touch(r) \/ ExpireOnUse(r)
                  \/ IssueTicket(r) \/ GuestLogin(r) \/ Identify(r) \/ LockUser(r)
                  \/ \E s \in Session : Issue(r, s) \/ Use(r, s)
             \/ Disable
  BY <1>9 DEF Next, vars, StartFlow, InspectTicket, UseOfDisabled, Logout, SweepReads,
              SweepWrites, Tick
<1>10. CASE Disable
  BY <1>10 DEF Disable
<1> HIDE DEF Does, Ends, Moves
<1> QED BY <1>1, <1>2, <1>3, <1>4, <1>5, <1>6, <1>7, <1>8, <1>9, <1>10

LEMMA InsertStays == TypeOK /\ InsertInv /\ [Next]_vars => InsertInv'
<1> SUFFICES ASSUME TypeOK, InsertInv, [Next]_vars PROVE InsertInv'
  OBVIOUS
<1>1. user' = "absent" => user = "absent"
  BY OneMoves
<1>2. CASE UNCHANGED request
  BY <1>1, <1>2 DEF InsertInv, Inserts
<1>3. ASSUME NEW r \in Request, Moves(r),
             \A o \in Request \ {r} : request'[o] = request[o]
      PROVE  InsertInv'
  <2>1. \A o \in Request \ {r} : Inserts(o)' => Inserts(o)
    BY <1>1, <1>3 DEF Inserts
  <2>2. request'[r].writes => request'[r].at \in {"issue", "write"}
    <3>1. request[r].writes => request[r].at \in {"issue", "write"}
      BY DEF InsertInv
    <3>2. ~Rest.writes
      BY DEF Rest
    <3> QED BY <1>3, <3>1, <3>2 DEF Moves
  <2>3. Inserts(r)' => Inserts(r) \/ \A o \in Request : ~Inserts(o)
    <3> SUFFICES ASSUME user' = "absent", request'[r].writes, ~request[r].writes
        PROVE  \A o \in Request : ~Inserts(o)
      BY <1>1 DEF Inserts
    <3>1. ~Rest.writes
      BY DEF Rest
    <3>2. IdentityFree(r)
      BY <1>3, <3>1 DEF Moves
    <3> QED BY <1>1, <3>2 DEF IdentityFree
  <2>4. \A p, o \in Request : Inserts(p)' /\ Inserts(o)' => p = o
    <3> SUFFICES ASSUME NEW p \in Request, NEW o \in Request, Inserts(p)', Inserts(o)'
        PROVE  p = o
      OBVIOUS
    <3>1. CASE p = r /\ o # r
      BY <2>1, <2>3, <3>1 DEF InsertInv
    <3>2. CASE p # r /\ o = r
      BY <2>1, <2>3, <3>2 DEF InsertInv
    <3>3. CASE p # r /\ o # r
      BY <2>1, <3>3 DEF InsertInv
    <3> QED BY <3>1, <3>2, <3>3
  <2>5. \A o \in Request : request'[o].writes => request'[o].at \in {"issue", "write"}
    BY <1>3, <2>2 DEF InsertInv
  <2>6. ASSUME user' = "absent", NEW o \in Request, request'[o].at \in {"issue", "write"}
        PROVE  request'[o].writes
    <3>1. CASE o # r
      BY <1>1, <1>3, <2>6, <3>1 DEF InsertInv
    <3>2. CASE o = r
      <4>1. request'[r] # Rest
        BY <2>6, <3>2 DEF Rest
      <4>2. CASE request[r].at = "rest" \/ request[r].at = "exchange"
        BY <1>1, <1>3, <2>6, <3>2, <4>1, <4>2 DEF Moves
      <4>3. CASE request[r].at = "identify"
        BY <1>1, <1>3, <2>6, <3>2, <4>1, <4>3 DEF Moves
      <4>4. CASE request[r].at = "issue"
        <5>1. request[r].writes
          BY <1>1, <2>6, <4>4 DEF InsertInv
        <5> QED BY <1>3, <3>2, <4>1, <4>4, <5>1 DEF Moves
      <4> QED BY <1>3, <4>1, <4>2, <4>3, <4>4 DEF Moves
    <3> QED BY <3>1, <3>2
  <2> QED BY <2>4, <2>5, <2>6 DEF InsertInv, Inserts
<1> QED BY <1>2, <1>3, OneMoves

\* No deadlock between requests, however many: who is waited on waits on nobody.
\* The insert of the identity comes before the lock on the row of the user, and the
\* first thread to get there is alone (session_lifecycle.py:234-243,
\* guest_sessions.py:55-85, microsoft_oauth.py:250-284).
WaitedOnNeverWaits == \A r, o \in Request : WaitsOn(r, o) => WaitsOnNone(o)

THEOREM LocksAreInOrder == Spec => []WaitedOnNeverWaits
<1>1. Init => InsertInv
  BY DEF Init, InsertInv, Inserts, Rest
<1>2. InsertInv => WaitedOnNeverWaits
  <2> SUFFICES ASSUME InsertInv, NEW r \in Request, NEW o \in Request, WaitsOn(r, o)
      PROVE  WaitsOnNone(o)
    BY DEF WaitedOnNeverWaits
  <2>1. CASE LocksUser(o)
    BY <2>1 DEF LocksUser, WaitsOnNone, WaitsOn
  <2>2. CASE Inserts(o) /\ ~LocksUser(o)
    <3>1. user = "absent" /\ request[o].at = "issue"
      BY <2>2 DEF InsertInv, Inserts, LocksUser
    <3>2. \A p \in Request : LocksUser(p) => Inserts(p)
      BY <3>1 DEF InsertInv, Inserts, LocksUser
    <3>3. \A p \in Request : Inserts(p) => p = o
      BY <2>2 DEF InsertInv
    <3> QED BY <3>1, <3>2, <3>3 DEF WaitsOnNone, WaitsOn
  <2> QED BY <2>1, <2>2 DEF WaitsOn
<1> QED BY <1>1, <1>2, InsertStays, TypeCorrect, PTL DEF Spec

\* No request goes round in circles: each step of one that is served brings its answer
\* nearer, no step of another one or of the clean-up sends it back, and four steps
\* are the most it takes (microsoft_oauth.py:93-152, session_lifecycle.py:234-281).
EachStepIsTowardsTheAnswer ==
    [][\A r \in Request :
         request[r].at # "rest" /\ request'[r] # request[r]
         => StepsLeft(r)' < StepsLeft(r)]_vars

THEOREM RequestsOnlyAdvance == Spec => EachStepIsTowardsTheAnswer
<1>1. TypeOK /\ [Next]_vars =>
        [\A r \in Request : request[r].at # "rest" /\ request'[r] # request[r]
                            => StepsLeft(r)' < StepsLeft(r)]_vars
  <2> SUFFICES ASSUME TypeOK, [Next]_vars, NEW r \in Request,
                      request[r].at # "rest", request'[r] # request[r]
      PROVE  StepsLeft(r)' < StepsLeft(r)
    OBVIOUS
  <2>1. Moves(r)
    BY OneMoves
  <2>2. request[r].at \in {"exchange", "identify", "issue", "write", "touch", "expire"}
    BY DEF TypeOK, Work
  <2>3. StepsLeft(r) \in 1 .. 4
    BY <2>2 DEF StepsLeft
  <2>4. CASE request'[r] = Rest
    BY <2>3, <2>4 DEF StepsLeft, Rest
  <2>5. CASE request'[r] # Rest
    BY <2>1, <2>5 DEF Moves, StepsLeft
  <2> QED BY <2>4, <2>5
<1> QED BY <1>1, TypeCorrect, PTL DEF Spec, EachStepIsTowardsTheAnswer
=============================================================================
