------------------------------- MODULE UsageCaps -------------------------------
(***************************************************************************)
(* Spending limits: the append-only ledger of services/usage_ledger.py,    *)
(* the check of services/usage_caps.py in front of every chat request and  *)
(* the operators' commands of maintenance/usage_caps.py.                   *)
(*                                                                         *)
(* A request is checked on the event loop in one go, and pays afterwards:  *)
(* for a compaction, and for the answer.  A command is a process of its    *)
(* own: it reads at READ COMMITTED, one statement after another, and       *)
(* writes at its commit.  A flush writes only the columns whose value is   *)
(* not the one that was read, and the INSERT of a row that has appeared    *)
(* meanwhile fails the whole command.                                      *)
(*                                                                         *)
(* Amounts are natural numbers: the ledger in its own unit, caps and       *)
(* baselines in the coarser one the sum is rounded to.                     *)
(***************************************************************************)
EXTENDS Integers, FiniteSets

CONSTANTS
    Users,
    Requests,     \* chat requests at work at a time
    Operators,    \* commands at work at a time
    Commands,     \* the commands they give
    NewCaps,      \* the amounts given to set-cap
    DefaultCap,   \* USAGE_DEFAULT_CAP_USD
    Unit,         \* ledger units in a unit of a cap
    MaxCost,      \* the most one provider call costs, in ledger units
    MaxLedger,    \* bound of a user's ledger
    NoCap,        \* no row in user_usage_caps
    Unread        \* what a command has not read yet

ASSUME AmountAssumption ==
    /\ DefaultCap \in Nat /\ MaxCost \in Nat /\ MaxLedger \in Nat
    /\ NewCaps \subseteq Nat
    /\ Unit \in Nat \ {0}

ASSUME RequestsFinite == IsFiniteSet(Requests)

ASSUME CommandAssumption ==
    Commands \subseteq {"set-cap", "reset-cap", "reset-all", "disable-cap"}

\* A row of user_usage_caps.
CapRow == [amount : Nat, baseline : Nat, enabled : BOOLEAN]

ASSUME MissingAssumption ==
    NoCap # Unread /\ NoCap \notin CapRow /\ Unread \notin CapRow \cup Nat

VARIABLES
    ledger,     \* [Users -> sum of the billable rows]
    cap,        \* [Users -> row of user_usage_caps]
    granted,    \* [Users -> the most ledger units a cap of the user's has let through,
                \* NoCap once one was disabled] (history)
    request,    \* [Requests -> a chat request]
    command     \* [Operators -> a command and what it has read]

capVars == <<ledger, cap, granted, request, command>>

NoRequest == [at |-> "idle"]
ChatRequest == {NoRequest} \cup [at : {"validated", "compacted"}, user : Users]

\* A command, and what it knows of each user: the sum and the row.
NoCommand == [name |-> "none"]
Command ==
    {NoCommand} \cup
    [name : Commands, scope : SUBSET Users, amount : Nat,
     usage : [Users -> Nat \cup {Unread}],
     row : [Users -> CapRow \cup {NoCap, Unread}]]

CapsTypeOK ==
    /\ ledger \in [Users -> 0..MaxLedger]
    /\ cap \in [Users -> CapRow \cup {NoCap}]
    /\ granted \in [Users -> Nat \cup {NoCap}]
    /\ request \in [Requests -> ChatRequest]
    /\ command \in [Operators -> Command]

CapsInit ==
    /\ ledger = [u \in Users |-> 0]
    /\ cap = [u \in Users |-> NoCap]
    /\ granted = [u \in Users |-> Unit * DefaultCap]
    /\ request = [r \in Requests |-> NoRequest]
    /\ command = [o \in Operators |-> NoCommand]

-----------------------------------------------------------------------------
(* The state of a cap *)

\* _display_decimal: rounded to the coarser unit, half to even.
Rounded(sum) ==
    LET whole == sum \div Unit
        rest == sum % Unit
    IN  IF 2 * rest > Unit \/ (2 * rest = Unit /\ whole % 2 = 1) THEN whole + 1 ELSE whole

\* get_user_estimated_usage_usd.
Usage(u) == Rounded(ledger[u])

\* get_user_usage_cap_state: without a row, the default cap from zero.
StateOf(u) ==
    IF cap[u] = NoCap THEN [amount |-> DefaultCap, baseline |-> 0, enabled |-> TRUE]
    ELSE cap[u]

Effective(u) ==
    IF Usage(u) < StateOf(u).baseline THEN 0 ELSE Usage(u) - StateOf(u).baseline

\* The ledger units a user's cap lets through before it locks.
Allowance(u) == Unit * (StateOf(u).baseline + StateOf(u).amount)

\* Slip: only the default cap is enforced, a row of its own sets the user free.
LockedByDefault(u) == cap[u] = NoCap /\ Effective(u) >= DefaultCap

\* enforce_user_usage_cap raises usage_cap_exceeded.
Locked(u) == StateOf(u).enabled /\ Effective(u) >= StateOf(u).amount

-----------------------------------------------------------------------------
(* Chat requests *)

\* run_chat_validation: a locked user's request ends here.
Validates(r, u) ==
    /\ request[r] = NoRequest
    /\ ~Locked(u)
    /\ request' = [request EXCEPT ![r] = [at |-> "validated", user |-> u]]
    /\ UNCHANGED <<ledger, cap, granted, command>>

\* append_chat_usage_ledger_event.
Pays(u, cost) ==
    /\ ledger[u] + cost <= MaxLedger
    /\ ledger' = [ledger EXCEPT ![u] = @ + cost]

\* run_context_compaction, once for a request.
Compacts(r) ==
    /\ request[r].at = "validated"
    /\ \E cost \in 0..MaxCost : Pays(request[r].user, cost)
    /\ request' = [request EXCEPT ![r].at = "compacted"]
    /\ UNCHANGED <<cap, granted, command>>

\* persist_chat_turn_success; whatever ends the turn otherwise pays nothing.
Answers(r) ==
    /\ request[r] # NoRequest
    /\ \E cost \in 0..MaxCost : Pays(request[r].user, cost)
    /\ request' = [request EXCEPT ![r] = NoRequest]
    /\ UNCHANGED <<cap, granted, command>>

Fails(r) ==
    /\ request[r] # NoRequest
    /\ request' = [request EXCEPT ![r] = NoRequest]
    /\ UNCHANGED <<ledger, cap, granted, command>>

-----------------------------------------------------------------------------
(* The commands of an operator *)

Gives(o, name, scope, amount) ==
    /\ command[o] = NoCommand
    /\ name \in Commands
    /\ IF name = "reset-all" THEN scope = Users ELSE Cardinality(scope) = 1
    /\ IF name = "set-cap" THEN amount \in NewCaps ELSE amount = 0
    /\ command' = [command EXCEPT ![o] =
           [name |-> name, scope |-> scope, amount |-> amount,
            usage |-> [u \in Users |-> Unread], row |-> [u \in Users |-> Unread]]]
    /\ UNCHANGED <<ledger, cap, granted, request>>

IsReset(o) == command[o].name \in {"reset-cap", "reset-all"}

\* Slip: the sum a command reads is rounded up.
ReadRoundedUp(u) == (ledger[u] + Unit - 1) \div Unit

\* The sum a command reads for a user.
Read(u) == Usage(u)

\* A reset reads the sum first and the row after it; disable-cap the sum only when
\* there is no row.
ReadsUsage(o, u) ==
    /\ command[o] # NoCommand
    /\ u \in command[o].scope
    /\ command[o].usage[u] = Unread
    /\ \/ IsReset(o) /\ command[o].row[u] = Unread
       \/ command[o].name = "disable-cap" /\ command[o].row[u] = NoCap
    /\ command' = [command EXCEPT ![o].usage[u] = Read(u)]
    /\ UNCHANGED <<ledger, cap, granted, request>>

ReadsRow(o, u) ==
    /\ command[o] # NoCommand
    /\ u \in command[o].scope
    /\ command[o].row[u] = Unread
    /\ IsReset(o) => command[o].usage[u] # Unread
    /\ command' = [command EXCEPT ![o].row[u] = cap[u]]
    /\ UNCHANGED <<ledger, cap, granted, request>>

\* The row as the command wants it.
Wanted(o, u) ==
    LET c == command[o]
        old == c.row[u]
    IN  CASE c.name = "set-cap" ->
               [amount |-> c.amount, baseline |-> IF old = NoCap THEN 0 ELSE old.baseline,
                enabled |-> TRUE]
          [] c.name = "disable-cap" ->
               [amount |-> IF old = NoCap THEN DefaultCap ELSE old.amount,
                baseline |-> IF old = NoCap THEN c.usage[u] ELSE old.baseline,
                enabled |-> FALSE]
          [] OTHER ->
               [amount |-> IF old = NoCap THEN DefaultCap ELSE old.amount,
                baseline |-> c.usage[u], enabled |-> TRUE]

\* The flush of a row: an INSERT, or an UPDATE of the columns that differ from what
\* was read.
Flushed(o, u) ==
    LET old == command[o].row[u]
    IN  IF old = NoCap THEN Wanted(o, u)
        ELSE [column \in {"amount", "baseline", "enabled"} |->
                IF Wanted(o, u)[column] = old[column] THEN cap[u][column]
                ELSE Wanted(o, u)[column]]

\* Everything the command needs has been read.
IsReady(o) ==
    /\ command[o] # NoCommand
    /\ \A u \in command[o].scope :
          /\ command[o].row[u] # Unread
          /\ IsReset(o) => command[o].usage[u] # Unread
          /\ (command[o].name = "disable-cap" /\ command[o].row[u] = NoCap)
                => command[o].usage[u] # Unread

\* The INSERT of a row that another command has committed meanwhile.
Collides(o) == \E u \in command[o].scope : command[o].row[u] = NoCap /\ cap[u] # NoCap

CommitsCommand(o) ==
    /\ IsReady(o) /\ ~Collides(o)
    /\ cap' = [u \in Users |-> IF u \in command[o].scope THEN Flushed(o, u) ELSE cap[u]]
    /\ granted' = [u \in Users |->
                     IF granted[u] = NoCap \/ ~StateOf(u)'.enabled THEN NoCap
                     ELSE IF granted[u] < Allowance(u)' THEN Allowance(u)' ELSE granted[u]]
    /\ command' = [command EXCEPT ![o] = NoCommand]
    /\ UNCHANGED <<ledger, request>>

\* One row that cannot be inserted rolls back the reset of every user.
RollsBack(o) ==
    /\ IsReady(o) /\ Collides(o)
    /\ command' = [command EXCEPT ![o] = NoCommand]
    /\ UNCHANGED <<ledger, cap, granted, request>>

-----------------------------------------------------------------------------

RequestStep(r) ==
    \/ \E u \in Users : Validates(r, u)
    \/ Compacts(r)
    \/ Answers(r)
    \/ Fails(r)

CommandStep(o) ==
    \/ \E name \in Commands, scope \in SUBSET Users, amount \in NewCaps \cup {0} :
          Gives(o, name, scope, amount)
    \/ \E u \in Users : ReadsUsage(o, u) \/ ReadsRow(o, u)
    \/ CommitsCommand(o)
    \/ RollsBack(o)

CapsNext ==
    \/ \E r \in Requests : RequestStep(r)
    \/ \E o \in Operators : CommandStep(o)

CapsSpec == CapsInit /\ [][CapsNext]_capVars

-----------------------------------------------------------------------------
(* Properties *)

\* The overshoot docs/USAGE_CAPS.md admits is bounded: however requests and commands
\* follow one another, what a user has spent exceeds the highest cap it ever had by
\* no more than what the requests at work at one time cost, an answer and a
\* compaction each (usage_caps.py:27-49).
OvershootIsBounded ==
    \A u \in Users :
        granted[u] # NoCap =>
            ledger[u] <= granted[u] + 2 * MaxCost * Cardinality(Requests)

\* A baseline is an amount the user has spent: whatever commands do to each other,
\* no spending that is still to come is forgiven (maintenance/usage_caps.py:140-182).
ForgivesOnlyTheSpent == \A u \in Users : StateOf(u).baseline <= Usage(u)

=============================================================================
