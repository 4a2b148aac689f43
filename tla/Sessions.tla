-------------------------------- MODULE Sessions --------------------------------
(***************************************************************************)
(* The sessions of one user (app/auth, workers/auth_cleanup.py): logins as *)
(* a guest or through Microsoft, the session limit and its two strategies, *)
(* conflict tickets, the rolling idle timeout and the clean-up.            *)
(*                                                                         *)
(* The endpoints run in the thread pool, so every step below is what one   *)
(* request does between two points where PostgreSQL lets another one in.   *)
(* issue_session holds the row of the user FOR UPDATE from LockUser to     *)
(* Issue; a callback holds the row of its OAuth transaction, a conflict    *)
(* resolution that of its ticket.  A transaction that finds a row it       *)
(* means to write gone fails (StaleDataError) and is rolled back.          *)
(***************************************************************************)
EXTENDS Integers, FiniteSets

CONSTANTS
    Session,     \* keys of the rows of auth_sessions that may be issued
    Flow,        \* OAuth transactions; the conflict ticket of one has its name
    Request,     \* threads that serve requests
    Guest,       \* the user is a guest, known by address, and not a Microsoft one
    Strategy,    \* auth_session_limit_strategy
    MaxSessions, \* auth_guest_max_sessions, auth_microsoft_max_sessions
    SessionTTL, FlowTTL, TicketTTL,
    Horizon,     \* bound on time, for TLC
    NoFlow

ASSUME SessionAssumption ==
    /\ Strategy \in {"reject", "evict_oldest"}
    /\ Guest \in BOOLEAN
    /\ MaxSessions \in Int /\ Horizon \in Nat
    /\ SessionTTL \in Nat /\ FlowTTL \in Nat /\ TicketTTL \in Nat
    /\ IsFiniteSet(Session)
    /\ NoFlow \notin Flow

VARIABLES
    now,
    user,      \* the row of the user: absent, active or disabled
    sessions,  \* auth_sessions; source is the login a row came of (history)
    flows,     \* oauth_transactions
    tickets,   \* auth_conflict_tickets
    request,   \* what each thread has read
    sweep      \* what the clean-up has read

vars == <<now, user, sessions, flows, tickets, request, sweep>>

-----------------------------------------------------------------------------

Limit == IF MaxSessions < 1 THEN 1 ELSE MaxSessions

\* The columns of a row, and what a thread holds: the instant it took for now, the
\* rows it goes by, those it found idle, and whether it writes the row of the user.
SessionRow ==
    [state : {"none", "active", "idle", "evicted", "deleted"},
     seen : Nat, created : Nat, source : Flow \cup {NoFlow}]
Grant == [state : {"none", "open", "consumed", "deleted"}, expires : Nat]
Work ==
    [at : {"rest", "exchange", "identify", "issue", "write", "touch", "expire"},
     time : Nat, flow : Flow \cup {NoFlow}, resolves : BOOLEAN,
     rows : SUBSET Session, idle : SUBSET Session,
     writes : BOOLEAN, conflict : BOOLEAN]
Sweep == [on : BOOLEAN, idle : SUBSET Session, expired : SUBSET Session,
          flows : SUBSET Flow, tickets : SUBSET Flow]

TypeOK ==
    /\ now \in Nat
    /\ user \in {"absent", "active", "disabled"}
    /\ sessions \in [Session -> SessionRow]
    /\ flows \in [Flow -> Grant] /\ tickets \in [Flow -> Grant]
    /\ request \in [Request -> Work]
    /\ sweep \in Sweep

Rest == [at |-> "rest", time |-> 0, flow |-> NoFlow, resolves |-> FALSE,
         rows |-> {}, idle |-> {}, writes |-> FALSE, conflict |-> FALSE]
Asleep == [on |-> FALSE, idle |-> {}, expired |-> {}, flows |-> {},
           tickets |-> {}]

Init ==
    /\ now = 0
    /\ user = "absent"
    /\ sessions = [s \in Session |->
                     [state |-> "none", seen |-> 0, created |-> 0, source |-> NoFlow]]
    /\ flows = [f \in Flow |-> [state |-> "none", expires |-> 0]]
    /\ tickets = [f \in Flow |-> [state |-> "none", expires |-> 0]]
    /\ request = [r \in Request |-> Rest]
    /\ sweep = Asleep

\* Row locks.  The insert of an identity holds off another insert of the same one.
LocksUser(r) == request[r].at = "write"
Inserts(r) == request[r].writes /\ user = "absent"
LocksFlow(f) ==
    \E r \in Request : request[r].at # "rest" /\ request[r].flow = f /\ ~request[r].resolves
LocksTicket(f) ==
    \E r \in Request : request[r].at # "rest" /\ request[r].flow = f /\ request[r].resolves
UserFree(r) == \A o \in Request \ {r} : ~LocksUser(o) /\ ~Inserts(o)

Active == {s \in Session : sessions[s].state = "active"}

\* is_session_expired.
IsIdle(s, time) == sessions[s].seen + SessionTTL <= time

\* A row that is gone: only the login it came of is remembered.
Deleted(s) ==
    [state |-> "deleted", seen |-> 0, created |-> 0, source |-> sessions[s].source]

\* The order in which active sessions are loaded.
Before(s, t) ==
    \/ sessions[s].seen < sessions[t].seen
    \/ sessions[s].seen = sessions[t].seen /\ sessions[s].created <= sessions[t].created

Logins == {r \in Request : request[r].at \in {"exchange", "identify", "issue", "write"}}
Unused == {s \in Session : sessions[s].state = "none"}

\* Keys are random: which of the unused names a new row gets tells nothing.
NextOf(unused) == CHOOSE key \in unused : TRUE

\* The loop hands a request to a thread, unless the clean-up has it.  A login
\* starts only while a row is left for it: the bound on sessions.
Arrives(r) == request[r].at = "rest" /\ ~sweep.on
Room == Cardinality(Logins) < Cardinality(Unused)

Does(r, work) == request' = [request EXCEPT ![r] = work]
Ends(r) == Does(r, Rest)

-----------------------------------------------------------------------------
(* Microsoft: build_microsoft_authorization_url, complete_microsoft_authorization *)

StartFlow(f) ==
    /\ ~Guest /\ ~sweep.on
    /\ flows[f].state = "none" /\ f = NextOf({g \in Flow : flows[g].state = "none"})
    /\ flows' = [flows EXCEPT ![f] = [state |-> "open", expires |-> now + FlowTTL]]
    /\ UNCHANGED <<now, user, sessions, tickets, request, sweep>>

DropsFlow(f) == flows' = [flows EXCEPT ![f].state = "deleted"]

\* _load_active_transaction: consumed_at is flushed, not committed.
Callback(r, f) ==
    /\ Arrives(r) /\ Room
    /\ flows[f].state = "open" /\ ~LocksFlow(f)
    /\ IF flows[f].expires <= now
         THEN DropsFlow(f) /\ UNCHANGED request
         ELSE Does(r, [Rest EXCEPT !.at = "exchange", !.flow = f]) /\ UNCHANGED flows
    /\ UNCHANGED <<now, user, sessions, tickets, sweep>>

\* acquire_token_by_auth_code_flow answers, with the row of the flow still locked.
ExchangeSucceeds(r) ==
    /\ request[r].at = "exchange"
    /\ Does(r, [request[r] EXCEPT !.at = "identify"])
    /\ UNCHANGED <<now, user, sessions, flows, tickets, sweep>>

ExchangeRefused(r) ==
    /\ request[r].at = "exchange"
    /\ DropsFlow(request[r].flow)
    /\ Ends(r)
    /\ UNCHANGED <<now, user, sessions, tickets, sweep>>

\* Any other exception: the session is closed and the transaction rolled back.
ExchangeBreaks(r) ==
    /\ request[r].at = "exchange"
    /\ Ends(r)
    /\ UNCHANGED <<now, user, sessions, flows, tickets, sweep>>

-----------------------------------------------------------------------------
(* create_guest_session, _resolve_microsoft_user *)

GuestLogin(r) ==
    /\ Guest
    /\ Arrives(r) /\ Room
    /\ Does(r, [Rest EXCEPT !.at = "identify"])
    /\ UNCHANGED <<now, user, sessions, flows, tickets, sweep>>

\* The unique index on the identity: a second insert waits for the first.
IdentityFree(r) == user = "absent" => \A o \in Request : ~Inserts(o)

\* The user is found or inserted; a guest that was disabled is active again.
Identify(r) ==
    /\ request[r].at = "identify"
    /\ IdentityFree(r)
    /\ IF user = "disabled" /\ ~Guest
         THEN Ends(r)
         ELSE Does(r, [request[r] EXCEPT !.at = "issue", !.time = now,
                                         !.writes = user # "active"])
    /\ UNCHANGED <<now, user, sessions, flows, tickets, sweep>>

-----------------------------------------------------------------------------
(* resolve_session_conflict *)

\* Slip: a ticket that was consumed is accepted.
TicketUsableAgain(f) == tickets[f].state \in {"open", "consumed"}

TicketUsable(f) == tickets[f].state = "open"

\* Slip: consumed_at is committed before the session is issued.
TicketWhileResolving(f) == tickets' = [tickets EXCEPT ![f].state = "consumed"]

TicketIsKept(f) == UNCHANGED tickets

\* load_valid_conflict_ticket, _resolve_conflict_ticket.
ResolveConflict(r, f) ==
    /\ Arrives(r) /\ Room
    /\ TicketUsable(f) /\ ~LocksTicket(f)
    /\ IF tickets[f].expires <= now
         THEN tickets' = [tickets EXCEPT ![f].state = "deleted"] /\ UNCHANGED request
         ELSE /\ user = "active"
              /\ Does(r, [Rest EXCEPT !.at = "issue", !.time = now, !.flow = f,
                                      !.resolves = TRUE])
              /\ TicketIsKept(f)
    /\ UNCHANGED <<now, user, sessions, flows, sweep>>

\* inspect_session_conflict_ticket deletes a ticket that has expired.
InspectTicket(f) ==
    /\ ~sweep.on
    /\ tickets[f].state = "open" /\ ~LocksTicket(f)
    /\ tickets[f].expires <= now
    /\ tickets' = [tickets EXCEPT ![f].state = "deleted"]
    /\ UNCHANGED <<now, user, sessions, flows, request, sweep>>

-----------------------------------------------------------------------------
(* issue_session *)

\* Slip: one session too many is let in.
OverflowLate(n) == IF n > Limit THEN n - Limit ELSE 0

Overflow(n) == IF n + 1 > Limit THEN n + 1 - Limit ELSE 0

\* Slip: the lock is taken on a connection of its own, which waits for the first.
MayLockApart(r) == \A o \in Request : ~LocksUser(o) /\ ~Inserts(o)

MayLock(r) == UserFree(r)

StrategyOf(r) == IF request[r].resolves THEN "evict_oldest" ELSE Strategy

AreOldest(rows, live) == \A s \in rows, t \in live \ rows : Before(s, t)

\* _lock_user_for_session_issue and _enforce_session_limit.  A guest that meets
\* the limit is turned away and everything is rolled back; a Microsoft login goes
\* on to write a ticket.
LockUser(r) ==
    /\ request[r].at = "issue"
    /\ MayLock(r)
    /\ LET idle == {s \in Active : IsIdle(s, request[r].time)}
           live == Active \ idle
           over == Overflow(Cardinality(live))
           conflict == over > 0 /\ StrategyOf(r) = "reject"
       IN  IF conflict /\ Guest
             THEN Ends(r)
             ELSE \E rows \in SUBSET live :
                    /\ Cardinality(rows) = IF conflict THEN 0 ELSE over
                    /\ AreOldest(rows, live)
                    /\ Does(r, [request[r] EXCEPT !.at = "write", !.rows = rows,
                                                  !.idle = idle, !.conflict = conflict])
    /\ UNCHANGED <<now, user, sessions, flows, tickets, sweep>>

Gone(rows) == \E s \in rows : sessions[s].state = "deleted"

\* expire_session on the rows found idle and on those evicted.
Expire(idle, evicted) ==
    [s \in Session |->
        IF s \in evicted THEN [sessions[s] EXCEPT !.state = "evicted"]
        ELSE IF s \in idle THEN [sessions[s] EXCEPT !.state = "idle"]
        ELSE sessions[s]]

\* What becomes of the flow or the ticket that a session is issued for.
Spent(r) ==
    LET f == request[r].flow IN
    IF f = NoFlow THEN UNCHANGED <<flows, tickets>>
    ELSE IF request[r].resolves
      THEN tickets' = [tickets EXCEPT ![f].state = "consumed"] /\ UNCHANGED flows
      ELSE DropsFlow(f) /\ UNCHANGED tickets

\* The user, new or enabled again, is committed with the session or the ticket.
WritesUser(r) == user' = IF request[r].writes THEN "active" ELSE user

Issue(r, s) ==
    /\ request[r].at = "write" /\ ~request[r].conflict
    /\ ~Gone(request[r].rows \cup request[r].idle)
    /\ sessions[s].state = "none" /\ s = NextOf(Unused)
    /\ sessions' = [Expire(request[r].idle, request[r].rows) EXCEPT
                      ![s] = [state |-> "active", seen |-> request[r].time,
                              created |-> request[r].time, source |-> request[r].flow]]
    /\ Spent(r)
    /\ WritesUser(r)
    /\ Ends(r)
    /\ UNCHANGED <<now, sweep>>

\* create_session_conflict_ticket; the sessions found idle expire with it.
IssueTicket(r) ==
    /\ request[r].at = "write" /\ request[r].conflict
    /\ ~Gone(request[r].idle)
    /\ sessions' = Expire(request[r].idle, {})
    /\ tickets' = [tickets EXCEPT ![request[r].flow] =
                     [state |-> "open", expires |-> now + TicketTTL]]
    /\ DropsFlow(request[r].flow)
    /\ WritesUser(r)
    /\ Ends(r)
    /\ UNCHANGED <<now, sweep>>

IssueFails(r) ==
    /\ request[r].at = "write"
    /\ Gone(request[r].rows \cup request[r].idle)
    /\ Ends(r)
    /\ UNCHANGED <<now, user, sessions, flows, tickets, sweep>>

-----------------------------------------------------------------------------
(* resolve_session, delete_session *)

\* The row is read; what follows is written later.
Use(r, s) ==
    /\ Arrives(r)
    /\ sessions[s].state = "active"
    /\ user = "active"
    /\ Does(r, [Rest EXCEPT !.at = IF IsIdle(s, now) THEN "expire" ELSE "touch",
                            !.time = now, !.rows = {s}])
    /\ UNCHANGED <<now, user, sessions, flows, tickets, sweep>>

UseOfDisabled(s) ==
    /\ ~sweep.on
    /\ sessions[s].state = "active"
    /\ user = "disabled"
    /\ sessions' = [sessions EXCEPT ![s] = Deleted(s)]
    /\ UNCHANGED <<now, user, flows, tickets, request, sweep>>

\* Slip: a touch leaves the row of the user alone, and waits for nobody.
MayTouchAlways(r) == TRUE

MayTouch(r) == \A o \in Request : ~LocksUser(o)

\* last_seen_at of the user is written first, so a touch waits for a login.
Touch(r) ==
    /\ request[r].at = "touch"
    /\ MayTouch(r)
    /\ sessions' = [s \in Session |->
                      IF s \in request[r].rows /\ ~Gone({s})
                        THEN [sessions[s] EXCEPT !.seen = request[r].time]
                        ELSE sessions[s]]
    /\ Ends(r)
    /\ UNCHANGED <<now, user, flows, tickets, sweep>>

ExpireOnUse(r) ==
    /\ request[r].at = "expire"
    /\ sessions' = [s \in Session |->
                      IF s \in request[r].rows /\ ~Gone({s})
                        THEN [sessions[s] EXCEPT !.state = "idle"]
                        ELSE sessions[s]]
    /\ Ends(r)
    /\ UNCHANGED <<now, user, flows, tickets, sweep>>

Logout(s) ==
    /\ ~sweep.on
    /\ sessions[s].state \in {"active", "idle", "evicted"}
    /\ sessions' = [sessions EXCEPT ![s] = Deleted(s)]
    /\ UNCHANGED <<now, user, flows, tickets, request, sweep>>

-----------------------------------------------------------------------------
(* purge_expired_auth_data, on the loop *)

\* Rows that are marked expired now are deleted by the next run: no autoflush.
SweepReads ==
    /\ ~sweep.on
    /\ sweep' = [on |-> TRUE,
                 idle |-> {s \in Active : IsIdle(s, now)},
                 expired |-> {s \in Session : sessions[s].state \in {"idle", "evicted"}},
                 flows |-> {f \in Flow : flows[f].state = "open" /\ flows[f].expires <= now},
                 tickets |-> {f \in Flow : \/ tickets[f].state = "consumed"
                                           \/ /\ tickets[f].state = "open"
                                              /\ tickets[f].expires <= now}]
    /\ UNCHANGED <<now, user, sessions, flows, tickets, request>>

Swept(grants, set) ==
    [f \in Flow |-> IF f \in set THEN [grants[f] EXCEPT !.state = "deleted"] ELSE grants[f]]

\* A row that a request has locked holds the clean-up, and with it the loop.
SweepMayWrite ==
    /\ \A f \in sweep.flows : ~LocksFlow(f)
    /\ \A f \in sweep.tickets : ~LocksTicket(f)

SweepWrites ==
    /\ sweep.on
    /\ SweepMayWrite
    /\ IF Gone(sweep.idle)
         THEN UNCHANGED <<sessions, flows, tickets>>
         ELSE /\ sessions' = [s \in Session |->
                    IF s \in sweep.expired THEN Deleted(s)
                    ELSE Expire(sweep.idle, {})[s]]
              /\ flows' = Swept(flows, sweep.flows)
              /\ tickets' = Swept(tickets, sweep.tickets)
    /\ sweep' = Asleep
    /\ UNCHANGED <<now, user, request>>

-----------------------------------------------------------------------------

\* An operator disables the user, by hand.
Disable ==
    /\ user = "active"
    /\ \A r \in Request : ~LocksUser(r)
    /\ user' = "disabled"
    /\ UNCHANGED <<now, sessions, flows, tickets, request, sweep>>

Tick ==
    /\ now < Horizon
    /\ now' = now + 1
    /\ UNCHANGED <<user, sessions, flows, tickets, request, sweep>>

Next ==
    \/ \E f \in Flow : StartFlow(f) \/ InspectTicket(f)
    \/ \E r \in Request, f \in Flow : Callback(r, f) \/ ResolveConflict(r, f)
    \/ \E r \in Request :
         \/ ExchangeSucceeds(r) \/ ExchangeRefused(r) \/ ExchangeBreaks(r)
         \/ GuestLogin(r) \/ Identify(r) \/ LockUser(r) \/ IssueTicket(r) \/ IssueFails(r)
         \/ Touch(r) \/ ExpireOnUse(r)
    \/ \E r \in Request, s \in Session : Issue(r, s) \/ Use(r, s)
    \/ \E s \in Session : UseOfDisabled(s) \/ Logout(s)
    \/ SweepReads \/ SweepWrites \/ Disable \/ Tick

Spec == Init /\ [][Next]_vars

\* What a thread does once it has a request, until it answers.
GoesOn(r) ==
    \/ ExchangeSucceeds(r) \/ ExchangeRefused(r) \/ ExchangeBreaks(r)
    \/ Identify(r) \/ LockUser(r)
    \/ IssueTicket(r) \/ IssueFails(r) \/ \E s \in Session : Issue(r, s)
    \/ Touch(r) \/ ExpireOnUse(r)

\* The threads and the loop go on; Microsoft answers or the call fails.
Fairness == (\A r \in Request : WF_vars(GoesOn(r))) /\ WF_vars(SweepWrites)

FairSpec == Spec /\ Fairness

-----------------------------------------------------------------------------
(* Properties *)

\* A user never has more active sessions than the limit, whichever logins,
\* conflict resolutions and expiries overlap (session_lifecycle.py:246-281).
LimitHolds == Cardinality(Active) <= Limit

\* One authorisation yields one session: neither a callback that is repeated nor a
\* ticket that is resolved twice gives a second one (microsoft_oauth.py:295-310,
\* conflict_tickets.py:170-227).
OneSessionPerLogin ==
    \A s, t \in Session :
        sessions[s].source # NoFlow /\ sessions[s].source = sessions[t].source => s = t

\* A session is evicted only if no session that stays was seen before it: a use
\* that overlaps the login waits on the row of the user
\* (session_lifecycle.py:143-149, 246-281).
EvictsLeastRecentlySeen ==
    [][\A s, t \in Session :
         /\ sessions[s].state = "active" /\ sessions'[s].state = "evicted"
         /\ sessions[t].state = "active" /\ sessions'[t].state = "active"
         => Before(s, t)]_vars

\* An authorisation or a ticket is given up only for a session, for a ticket, when
\* it has expired, or when Microsoft refuses it: a login that fails half way can be
\* tried again (microsoft_oauth.py:93-152, conflict_tickets.py:189-227).
NothingSpentInVain ==
    [][\A f \in Flow :
         /\ (tickets[f].state = "open" /\ tickets'[f].state # "open"
             => \/ tickets[f].expires <= now
                \/ \E s \in Session : sessions'[s].source = f /\ sessions[s].source # f)
         /\ (flows[f].state = "open" /\ flows'[f].state # "open"
             => \/ flows[f].expires <= now
                \/ \E s \in Session : sessions'[s].source = f
                \/ tickets'[f].state = "open"
                \/ \E r \in Request : request[r].at = "exchange" /\ request[r].flow = f)]_vars

\* Every request is answered, however the locks of the user, of the flows and of
\* the tickets are waited for (session_lifecycle.py:234-243, microsoft_oauth.py:295-310).
EveryRequestEnds == \A r \in Request : request[r].at # "rest" ~> request[r].at = "rest"
=============================================================================
