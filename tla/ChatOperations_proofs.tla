------------------------- MODULE ChatOperations_proofs -------------------------
(***************************************************************************)
(* Safety of ChatOperations for every set of operations, histories and     *)
(* operation types.  IInv is the inductive invariant; its parts are in the *)
(* order they depend on each other.  The rows change in nine ways only     *)
(* (RowStep), which every action is reduced to before the rows are argued  *)
(* about.                                                                  *)
(***************************************************************************)
EXTENDS ChatOperations, TLAPS

\* An operation that was not requested has no row, owns nothing and writes nothing.
Fresh ==
    \A o \in Op : task[o] = "new" =>
        /\ state[o] = "absent"
        /\ window[o] = "none"
        /\ o \notin created
        /\ \A h \in History : owner[h] # o

\* Which type of operation can be where: only a send reaches the provider or
\* creates its history, a metadata change fills no history and only the two kinds of
\* deletion delete one.
Discipline ==
    \A o \in Op :
        /\ o \in created => kind[o] = "send"
        /\ task[o] \in {"starting", "streaming", "closing"} => kind[o] = "send"
        /\ window[o] \in {"transition", "heartbeat"} => kind[o] = "send"
        /\ window[o] = "mutate" => kind[o] \in FileKinds \cup {"send"}
        /\ window[o] = "delete" => kind[o] \in {"delete_file", "delete_history"}

\* Housekeeping and the tasks of the event loop exclude one another.
Exclusive == sweep.job # "none" => \A o \in Op : ~HoldsLoop(o)

\* What housekeeping read stays good enough to write.
SweepSound ==
    sweep.job = "close" =>
        \A o \in sweep.stale :
            /\ state[o] # "absent"
            /\ \A h \in History : owner[h] = o => h \in sweep.cleared

\* Only a history that is there has content, and what housekeeping found empty is.
ContentSound ==
    /\ \A h \in History : filled[h] => HasRow(h)
    /\ sweep.job = "remove" => \A h \in sweep.empty : ~filled[h]

IInv ==
    /\ TypeOK
    /\ Fresh
    /\ Discipline
    /\ Exclusive
    /\ SweepSound
    /\ ContentSound
    /\ OwnerIsLive
    /\ OneLiveOperation

-----------------------------------------------------------------------------
(* What a step may do *)

\* Steps that start no operation change the rows in one of these ways.
OnlyDue ==
    /\ due' \in [Op -> SUBSET Deadlines]
    /\ UNCHANGED <<state, kind, scope, owner, life, filled>>

OnlyFilled ==
    /\ filled' \in [History -> BOOLEAN]
    /\ \A h \in History : filled'[h] => filled[h] \/ (HasRow(h) /\ sweep.job = "none")
    /\ UNCHANGED <<state, kind, scope, due, owner, life>>

QuietRows ==
    \/ UNCHANGED rows
    \/ OnlyDue
    \/ OnlyFilled
    \/ \E o \in Op : state[o] # "absent" /\ TransitionRows(o)
    \/ \E o \in Op, outcome \in Outcomes, reopen \in BOOLEAN :
          state[o] # "absent" /\ CompleteRows(o, outcome, reopen)
    \/ \E H \in SUBSET History : sweep.job # "close" /\ RemoveRows(H)
    \/ sweep.job = "close" /\ CloseRows(sweep.stale, sweep.cleared, sweep.reopened)

\* An operation starts: its row appears, owned and live.
Starts(o) ==
    /\ task[o] = "new"
    /\ task' = [task EXCEPT ![o] = "running"]
    /\ UNCHANGED <<window, seen, sweep>>
    /\ \E h \in History :
          \/ /\ created' = created
             /\ \E k \in Kinds : BeginRows(o, h, k)
          \/ /\ created' = created \cup {o}
             /\ CreateRows(o, h)

\* A fence passes.
Fences(o) ==
    \E w \in Writes :
        /\ OpenWindow(o, w)
        /\ window[o] = "none"
        /\ task[o] \notin {"new", "closing"}
        /\ MayRun(o)
        /\ Live(o)
        /\ w \in {"transition", "heartbeat"} => kind[o] = "send"
        /\ w = "mutate" => kind[o] \in FileKinds \cup {"send"}
        /\ w = "delete" => kind[o] \in {"delete_file", "delete_history"}

\* A task leaves its place: it commits, aborts, gives up or removes its history.
Leaves(o) ==
    /\ QuietRows
    /\ task[o] # "new"
    /\ \E next \in TaskStates \ {"new"} :
          /\ task' = [task EXCEPT ![o] = next]
          /\ next \in {"starting", "streaming", "closing"} => kind[o] = "send"
          /\ next \in {"starting", "closing"} => ~OnThread(o) /\ sweep.job = "none"
    /\ \/ window' = [window EXCEPT ![o] = "none"] /\ seen' = [seen EXCEPT ![o] = "unborn"]
       \/ UNCHANGED <<window, seen>>
    /\ UNCHANGED <<created, sweep>>

\* Housekeeping reads.
Reads ==
    /\ LoopFree
    /\ UNCHANGED <<rows, task, window, seen, created>>
    /\ sweep' \in [job : {"close", "remove"}, stale : SUBSET Op, cleared : SUBSET History,
                    reopened : SUBSET History, empty : SUBSET History]
    /\ sweep'.job = "close" =>
          /\ sweep'.stale = StaleOperations
          /\ sweep'.cleared = {h \in History : HasRow(h) /\ owner[h] \in StaleOperations}
    /\ sweep'.job = "remove" => \A h \in sweep'.empty : ~filled[h]

\* Housekeeping writes.
Sweeps ==
    /\ QuietRows
    /\ sweep' = NoSweep
    /\ UNCHANGED <<task, window, seen, created>>

Ticks == OnlyDue /\ UNCHANGED tasks

StepForm ==
    \/ \E o \in Op : Starts(o) \/ Fences(o) \/ Leaves(o)
    \/ Reads
    \/ Sweeps
    \/ Crash
    \/ Ticks

-----------------------------------------------------------------------------
(* Every step has one of those forms *)

\* A send never runs in the thread pool.
LEMMA SendOnLoop ==
    ASSUME NEW o \in Op, kind[o] # "update_metadata"
    PROVE  ~OnThread(o)
BY KindsAssumption DEF OnThread

LEMMA CloseForm ==
    ASSUME NEW o \in Op, NEW next \in TaskStates \ {"new"}, CloseWindow(o, next),
           QuietRows, task[o] # "new",
           next \in {"starting", "streaming", "closing"} => kind[o] = "send",
           next \in {"starting", "closing"} => ~OnThread(o) /\ sweep.job = "none"
    PROVE  Leaves(o)
BY DEF CloseWindow, Leaves

\* Only what is in flight leaves its place, so the holder is not new.
LEMMA CommitForm ==
    ASSUME IInv, NEW o \in Op, Commit(o) \/ WriteAborts(o)
    PROVE  Leaves(o)
<1>0. scope[o] \in History \/ state[o] = "absent"
  BY DEF IInv, TypeOK, RowsTypeOK
<1>1. window[o] # "none" /\ task[o] # "new"
  BY DEF IInv, Fresh, Commit, WriteTransition, WriteHeartbeat, WriteMutate, WriteDelete, WriteOutcome,
         WriteAborts, Outcomes
<1>2. window[o] \in {"transition", "heartbeat", "mutate", "delete"} =>
          ~OnThread(o) /\ sweep.job = "none"
  BY <1>1, SendOnLoop DEF IInv, Discipline, FileKinds, Exclusive, HoldsLoop
<1>3. AfterClose(o) \in {"closing", "over"} /\ (AfterClose(o) = "closing" => kind[o] = "send")
  BY DEF AfterClose, IInv, Discipline
<1>4. AfterClose(o) = "closing" => ~OnThread(o) /\ sweep.job = "none"
  BY <1>1, <1>3, SendOnLoop DEF IInv, Exclusive, HoldsLoop
<1>5. CASE state[o] # "absent" /\ WriteTransition(o)
  <2>1. QuietRows BY <1>5 DEF QuietRows, WriteTransition
  <2>2. kind[o] = "send" BY <1>5 DEF IInv, Discipline, WriteTransition
  <2>3. ~OnThread(o) /\ sweep.job = "none" BY <1>2, <1>5 DEF WriteTransition
  <2> QED BY <1>1, <1>5, <2>1, <2>2, <2>3, CloseForm DEF WriteTransition, TaskStates
<1>6. CASE state[o] # "absent" /\ WriteHeartbeat(o)
  <2>1. QuietRows
    BY <1>6 DEF IInv, TypeOK, RowsTypeOK, QuietRows, OnlyDue, WriteHeartbeat, HeartbeatRows
  <2>2. kind[o] = "send" BY <1>6 DEF IInv, Discipline, WriteHeartbeat
  <2> QED BY <1>1, <1>6, <2>1, <2>2, CloseForm DEF WriteHeartbeat, TaskStates
<1>7. CASE state[o] # "absent" /\ WriteMutate(o)
  <2>1. /\ filled' \in [History -> BOOLEAN]
        /\ \A h \in History : filled'[h] => filled[h] \/ (HasRow(h) /\ sweep.job = "none")
    BY <1>0, <1>2, <1>7 DEF IInv, TypeOK, RowsTypeOK, WriteMutate
  <2>2. QuietRows BY <1>7, <2>1 DEF QuietRows, OnlyFilled, WriteMutate
  <2> QED BY <1>1, <1>7, <2>2, CloseForm DEF WriteMutate, TaskStates
<1>8. CASE state[o] # "absent" /\ WriteDelete(o)
  <2>1. {scope[o]} \in SUBSET History BY <1>0, <1>8
  <2>2. sweep.job # "close" BY <1>2, <1>8 DEF WriteDelete
  <2>3. QuietRows BY <1>8, <2>1, <2>2 DEF QuietRows, WriteDelete
  <2> QED BY <1>1, <1>8, <2>3, CloseForm DEF WriteDelete, TaskStates
<1>9. CASE state[o] # "absent" /\ WriteOutcome(o)
  <2>1. QuietRows BY <1>9 DEF QuietRows, WriteOutcome
  <2> QED BY <1>1, <1>3, <1>4, <1>9, <2>1, CloseForm DEF WriteOutcome, TaskStates
<1>10. CASE WriteAborts(o)
  <2>1. QuietRows BY <1>10 DEF QuietRows, WriteAborts
  <2> QED BY <1>1, <1>10, <2>1, CloseForm DEF WriteAborts, TaskStates
<1> QED BY <1>5, <1>6, <1>7, <1>8, <1>9, <1>10 DEF Commit

\* A passed fence found the operation live, and the type it asked for.
LEMMA FenceForm ==
    ASSUME IInv, NEW o \in Op,
           \/ CheckTransition(o) \/ CheckHeartbeat(o) \/ CheckMutate(o) \/ CheckMessage(o)
           \/ CheckDelete(o) \/ CheckSucceed(o)
           \/ \E outcome \in {"failed", "timed_out"} : CheckClose(o, outcome)
    PROVE  Fences(o)
<1>1. CASE CheckTransition(o)
  BY <1>1 DEF CheckTransition, Fences, Current, Writes
<1>2. CASE CheckHeartbeat(o)
  BY <1>2 DEF CheckHeartbeat, Fences, Current, Writes, IInv, Discipline
<1>3. CASE CheckMutate(o)
  BY <1>3 DEF CheckMutate, Fences, HeldFence, Writes, FileKinds
<1>4. CASE CheckMessage(o)
  BY <1>4 DEF CheckMessage, Fences, Current, Writes, IInv, Discipline
<1>5. CASE CheckDelete(o)
  BY <1>5 DEF CheckDelete, Fences, HeldFence, Writes
<1>6. CASE CheckSucceed(o)
  BY <1>6 DEF CheckSucceed, Fences, Current, Writes, Outcomes
<1>7. ASSUME NEW outcome \in {"failed", "timed_out"}, CheckClose(o, outcome)
      PROVE  Fences(o)
  BY <1>7 DEF CheckClose, Fences, Current, Writes, Outcomes
<1> QED BY <1>1, <1>2, <1>3, <1>4, <1>5, <1>6, <1>7

LEMMA AbandonForm ==
    ASSUME IInv, NEW o \in Op, Abandon(o)
    PROVE  Leaves(o)
<1>1. AfterClose(o) \in {"closing", "over"} /\ (AfterClose(o) = "closing" => kind[o] = "send")
  BY DEF AfterClose, IInv, Discipline
<1>2. AfterClose(o) = "closing" => ~OnThread(o) /\ sweep.job = "none"
  BY <1>1, SendOnLoop DEF Abandon, MayRun
<1>3. QuietRows BY DEF Abandon, Moves, QuietRows
<1> QED BY <1>1, <1>2, <1>3 DEF Abandon, Moves, Leaves, TaskStates

LEMMA DeleteEmptyForm ==
    ASSUME IInv, NEW o \in Op, DeleteEmptyHistory(o)
    PROVE  Leaves(o)
<1>1. sweep.job # "close"
  BY DEF DeleteEmptyHistory, IInv, Exclusive, HoldsLoop
<1>2. QuietRows
  <2>1. CASE state[o] # "absent" /\ IsEmpty(scope[o])
    <3>1. {scope[o]} \in SUBSET History BY <2>1 DEF IInv, TypeOK, RowsTypeOK
    <3>2. RemoveRows({scope[o]}) BY <2>1 DEF DeleteEmptyHistory
    <3> QED BY <1>1, <3>1, <3>2 DEF QuietRows
  <2>2. CASE ~(state[o] # "absent" /\ IsEmpty(scope[o]))
    BY <2>2 DEF DeleteEmptyHistory, QuietRows
  <2> QED BY <2>1, <2>2
<1>3. /\ task[o] # "new"
      /\ task' = [task EXCEPT ![o] = "over"]
      /\ UNCHANGED <<window, seen, created, sweep>>
  BY DEF DeleteEmptyHistory
<1>4. "over" \in TaskStates \ {"new"}
  BY DEF TaskStates
<1> QED BY <1>2, <1>3, <1>4 DEF Leaves

LEMMA HousekeepingForm ==
    ASSUME IInv, SweepRead \/ SweepWrite \/ EmptyRead \/ EmptyWrite
    PROVE  Reads \/ Sweeps
<1>1. CASE SweepRead
  BY <1>1 DEF SweepRead, Reads, NoSweep, StaleOperations
<1>2. CASE SweepWrite
  BY <1>2 DEF SweepWrite, Sweeps, QuietRows
<1>3. CASE EmptyRead
  BY <1>3 DEF EmptyRead, Reads, NoSweep, IsEmpty
<1>4. CASE EmptyWrite
  <2>1. sweep.empty \in SUBSET History /\ sweep.job # "close"
    BY <1>4 DEF EmptyWrite, IInv, TypeOK
  <2> QED BY <1>4, <2>1 DEF EmptyWrite, Sweeps, QuietRows
<1> QED BY <1>1, <1>2, <1>3, <1>4

LEMMA TimeForm ==
    ASSUME IInv, NEW o \in Op, TimePasses(o)
    PROVE  Ticks
BY DEF TimePasses, DeadlinePasses, MaxRuntimePasses, Ticks, OnlyDue, Deadlines,
       IInv, TypeOK, RowsTypeOK

\* Every action of Next has one of the forms the rest of the module argues about.
LEMMA NextForm ==
    ASSUME IInv, Next
    PROVE  StepForm
<1>1. ASSUME NEW o \in Op, Step(o) PROVE StepForm
  <2>1. ASSUME NEW h \in History, NEW k \in Kinds, Begin(o, h, k) PROVE Starts(o)
    BY <2>1 DEF Begin, Starts
  <2>2. ASSUME NEW h \in History, BeginNewHistory(o, h) PROVE Starts(o)
    BY <2>2 DEF BeginNewHistory, Starts
  <2> QED
    BY <1>1, <2>1, <2>2, CommitForm, FenceForm, AbandonForm, DeleteEmptyForm DEF Step, StepForm
<1>2. ASSUME NEW o \in Op, TimePasses(o) PROVE StepForm
  BY <1>2, TimeForm DEF StepForm
<1> QED BY <1>1, <1>2, HousekeepingForm DEF Next, StepForm

-----------------------------------------------------------------------------
(* The rows *)

\* A start on an existing history preserves what its rows promise.
LEMMA BeginKeepsRows ==
    ASSUME IInv, NEW o \in Op, NEW h \in History, NEW k \in Kinds,
           task[o] = "new", BeginRows(o, h, k)
    PROVE  RowsTypeOK' /\ OwnerIsLive' /\ OneLiveOperation'
<1>1. state[o] = "absent" /\ \A g \in History : owner[g] # o
  BY DEF IInv, Fresh
<1>2. Recovered(h) \in [Op -> LiveStates \cup TerminalStates \cup {"absent"}]
  BY DEF Recovered, IInv, TypeOK, RowsTypeOK, TerminalStates
<1>3. LifeAfterBegin(h, k) \in {"active", "deleting"}
  BY DEF LifeAfterBegin, BeginRows, HasRow
<1>4. \A p \in Op \ {o} : Live(p)' => Live(p) /\ p # owner[h]
  BY <1>2 DEF BeginRows, Recovered, Live, LiveStates, IInv, TypeOK, RowsTypeOK
<1>5. \A p \in Op : state'[p] = "absent" \/ p = o \/ state[p] # "absent"
  BY <1>2 DEF BeginRows, Recovered, Live, LiveStates, IInv, TypeOK, RowsTypeOK
<1>6. RowsTypeOK'
  <2>1. state' \in [Op -> LiveStates \cup TerminalStates \cup {"absent"}]
    BY <1>2 DEF BeginRows, LiveStates
  <2>2. /\ kind' \in [Op -> OperationTypes \cup {"none"}]
        /\ scope' \in [Op -> History \cup {NoHistory}]
        /\ due' \in [Op -> SUBSET Deadlines]
        /\ owner' \in [History -> Op \cup {NoOp}]
        /\ filled' \in [History -> BOOLEAN]
    BY KindsAssumption DEF BeginRows, IInv, TypeOK, RowsTypeOK
  <2>3. life' \in [History -> {"unborn", "active", "deleting", "deleted"}]
    BY <1>3 DEF BeginRows, IInv, TypeOK, RowsTypeOK
  <2>4. \A p \in Op : state'[p] # "absent" =>
            scope'[p] \in History /\ HasRow(scope[p])' /\ kind'[p] \in OperationTypes
    BY <1>3, <1>5, KindsAssumption DEF BeginRows, HasRow, IInv, TypeOK, RowsTypeOK
  <2> QED BY <2>1, <2>2, <2>3, <2>4 DEF RowsTypeOK, HasRow
<1>7. OwnerIsLive'
  <2> SUFFICES ASSUME NEW g \in History, owner'[g] # NoOp
               PROVE  Live(owner[g])' /\ scope'[owner'[g]] = g /\ HasRow(g)'
    BY DEF OwnerIsLive
  <2>1. CASE g = h
    BY <1>2, <1>3, <2>1 DEF BeginRows, Live, LiveStates, HasRow, IInv, TypeOK, RowsTypeOK
  <2>2. CASE g # h
    <3>1. owner'[g] = owner[g] /\ owner[g] \in Op /\ owner[g] # o
      BY <1>1, <2>2 DEF BeginRows, IInv, TypeOK, RowsTypeOK
    <3>2. Live(owner[g]) /\ scope[owner[g]] = g /\ HasRow(g)
      BY <3>1 DEF IInv, OwnerIsLive
    <3>3. owner[g] # owner[h]
      BY <2>2, <3>1, <3>2 DEF IInv, OwnerIsLive
    <3>4. state'[owner[g]] = state[owner[g]] /\ scope'[owner[g]] = g /\ life'[g] = life[g]
      BY <1>2, <2>2, <3>1, <3>2, <3>3 DEF BeginRows, Recovered, IInv, TypeOK, RowsTypeOK
    <3> QED BY <3>1, <3>2, <3>4 DEF Live, HasRow
  <2> QED BY <2>1, <2>2
<1>8. OneLiveOperation'
  <2>1. \A p \in Op \ {o} : Live(p)' => scope'[p] = scope[p] /\ scope[p] # h
    BY <1>4 DEF BeginRows, NoLiveExcept, IInv, TypeOK, RowsTypeOK
  <2>2. scope'[o] = h
    BY DEF BeginRows, IInv, TypeOK, RowsTypeOK
  <2> SUFFICES ASSUME NEW p \in Op, NEW q \in Op, Live(p)', Live(q)', scope'[p] = scope'[q]
               PROVE  p = q
    BY DEF OneLiveOperation
  <2>3. CASE p # o /\ q # o
    BY <1>4, <2>1, <2>3 DEF IInv, OneLiveOperation
  <2>4. CASE p = o \/ q = o
    BY <2>1, <2>2, <2>4
  <2> QED BY <2>3, <2>4
<1> QED BY <1>6, <1>7, <1>8

\* So does a start that creates its history.
LEMMA CreateKeepsRows ==
    ASSUME IInv, NEW o \in Op, NEW h \in History, task[o] = "new", CreateRows(o, h)
    PROVE  RowsTypeOK' /\ OwnerIsLive' /\ OneLiveOperation'
<1>1. state[o] = "absent" /\ \A g \in History : owner[g] # o
  BY DEF IInv, Fresh
<1>2. ~HasRow(h)
  BY DEF CreateRows, HasRow
<1>3. RowsTypeOK'
  BY <1>2 DEF CreateRows, IInv, TypeOK, RowsTypeOK, LiveStates, OperationTypes, HasRow
<1>4. OwnerIsLive'
  BY <1>1 DEF CreateRows, OwnerIsLive, IInv, TypeOK, RowsTypeOK, Live, LiveStates, HasRow
<1>5. OneLiveOperation'
  BY <1>1, <1>2 DEF CreateRows, OneLiveOperation, IInv, TypeOK, RowsTypeOK, Live, LiveStates
<1> QED BY <1>3, <1>4, <1>5

\* What the other row changes leave alone.
QuietFacts ==
    /\ UNCHANGED <<kind, scope>>
    /\ \A p \in Op : state[p] = "absent" => state'[p] = "absent"
    /\ \A g \in History : owner'[g] \in {owner[g], NoOp}
    /\ sweep.job = "close" => \A p \in Op : state[p] # "absent" => state'[p] # "absent"
    /\ \A g \in History : filled'[g] => filled[g] \/ (HasRow(g) /\ sweep.job = "none")
    /\ \A g \in History : HasRow(g) /\ filled'[g] => HasRow(g)'

KeptRows == RowsTypeOK' /\ OwnerIsLive' /\ OneLiveOperation' /\ QuietFacts

LEMMA TransitionKeepsRows ==
    ASSUME IInv, NEW o \in Op, state[o] # "absent", TransitionRows(o)
    PROVE  KeptRows
<1>1. RowsTypeOK'
  BY DEF TransitionRows, IInv, TypeOK, RowsTypeOK, LiveStates, HasRow
<1>2. OwnerIsLive'
  BY DEF TransitionRows, OwnerIsLive, IInv, TypeOK, RowsTypeOK, Live, LiveStates, HasRow
<1>3. OneLiveOperation'
  BY DEF TransitionRows, NoLiveExcept, OneLiveOperation, IInv, TypeOK, RowsTypeOK, Live, LiveStates
<1>4. QuietFacts
  BY DEF TransitionRows, QuietFacts, IInv, TypeOK, RowsTypeOK, HasRow
<1> QED BY <1>1, <1>2, <1>3, <1>4 DEF KeptRows

LEMMA CompleteKeepsRows ==
    ASSUME IInv, NEW o \in Op, NEW outcome \in Outcomes, NEW reopen \in BOOLEAN,
           state[o] # "absent", CompleteRows(o, outcome, reopen)
    PROVE  KeptRows
<1>1. scope[o] \in History /\ HasRow(scope[o])
  BY DEF IInv, TypeOK, RowsTypeOK
<1>2. /\ state' = [state EXCEPT ![o] = outcome]
      /\ owner' = [owner EXCEPT ![scope[o]] = NoOp]
      /\ UNCHANGED <<kind, scope, due, filled>>
      /\ life' \in [History -> {"unborn", "active", "deleting", "deleted"}]
      /\ \A g \in History : HasRow(g) => HasRow(g)'
  BY <1>1 DEF CompleteRows, IInv, TypeOK, RowsTypeOK, HasRow
<1>3. outcome \in TerminalStates /\ outcome \notin LiveStates /\ outcome # "absent"
  BY DEF Outcomes, TerminalStates, LiveStates
<1>4. RowsTypeOK'
  BY <1>1, <1>2, <1>3 DEF IInv, TypeOK, RowsTypeOK
<1>5. OwnerIsLive'
  BY <1>1, <1>2, <1>3 DEF OwnerIsLive, IInv, TypeOK, RowsTypeOK, Live
<1>6. OneLiveOperation'
  BY <1>2, <1>3 DEF OneLiveOperation, IInv, TypeOK, RowsTypeOK, Live
<1>7. QuietFacts
  BY <1>1, <1>2, <1>3 DEF QuietFacts, IInv, TypeOK, RowsTypeOK
<1> QED BY <1>4, <1>5, <1>6, <1>7 DEF KeptRows

LEMMA RemoveKeepsRows ==
    ASSUME IInv, NEW H \in SUBSET History, sweep.job # "close", RemoveRows(H)
    PROVE  KeptRows
<1>1. \A g \in History : HasRow(g)' <=> HasRow(g) /\ g \notin H
  BY DEF RemoveRows, HasRow, IInv, TypeOK, RowsTypeOK
<1>2. RowsTypeOK'
  BY <1>1 DEF RemoveRows, IInv, TypeOK, RowsTypeOK
<1>3. OwnerIsLive'
  BY <1>1 DEF RemoveRows, OwnerIsLive, IInv, TypeOK, RowsTypeOK, Live, LiveStates
<1>4. OneLiveOperation'
  BY DEF RemoveRows, OneLiveOperation, IInv, TypeOK, RowsTypeOK, Live, LiveStates
<1>5. QuietFacts
  BY <1>1 DEF RemoveRows, QuietFacts, IInv, TypeOK, RowsTypeOK
<1> QED BY <1>2, <1>3, <1>4, <1>5 DEF KeptRows

\* The clean-up of a batch of expired operations: this is where SweepSound is
\* needed, as an operation may have lost its history or ended since the read.
LEMMA CloseKeepsRows ==
    ASSUME IInv, sweep.job = "close", CloseRows(sweep.stale, sweep.cleared, sweep.reopened)
    PROVE  KeptRows
<1> DEFINE stale == sweep.stale
           cleared == sweep.cleared
<1>1. \A o \in stale : state[o] # "absent" /\ \A g \in History : owner[g] = o => g \in cleared
  BY DEF IInv, SweepSound
<1>2. /\ state' = [p \in Op |-> IF p \in stale THEN "timed_out" ELSE state[p]]
      /\ owner' = [g \in History |-> IF g \in cleared THEN NoOp ELSE owner[g]]
      /\ UNCHANGED <<kind, scope, due, filled>>
      /\ life' \in [History -> {"unborn", "active", "deleting", "deleted"}]
      /\ \A g \in History : HasRow(g) => HasRow(g)'
  BY DEF CloseRows, IInv, TypeOK, RowsTypeOK, HasRow
<1> HIDE DEF stale, cleared
<1>3. RowsTypeOK'
  BY <1>1, <1>2 DEF IInv, TypeOK, RowsTypeOK, TerminalStates
<1>4. OwnerIsLive'
  <2> SUFFICES ASSUME NEW g \in History, owner'[g] # NoOp
               PROVE  Live(owner[g])' /\ scope'[owner'[g]] = g /\ HasRow(g)'
    BY DEF OwnerIsLive
  <2>1. g \notin cleared /\ owner'[g] = owner[g] /\ owner[g] \in Op
    BY <1>2 DEF IInv, TypeOK, RowsTypeOK
  <2>2. owner[g] \notin stale /\ state'[owner[g]] = state[owner[g]]
    BY <1>1, <1>2, <2>1
  <2> QED BY <1>2, <2>1, <2>2 DEF IInv, OwnerIsLive, Live
<1>5. OneLiveOperation'
  BY <1>2 DEF OneLiveOperation, IInv, TypeOK, RowsTypeOK, Live, LiveStates
<1>6. QuietFacts
  BY <1>1, <1>2 DEF QuietFacts, IInv, TypeOK, RowsTypeOK
<1> QED BY <1>3, <1>4, <1>5, <1>6 DEF KeptRows

LEMMA QuietKeepsRows ==
    ASSUME IInv, QuietRows
    PROVE  KeptRows
<1>1. CASE UNCHANGED rows
  BY <1>1 DEF KeptRows, rows, QuietFacts, IInv, TypeOK, RowsTypeOK, OwnerIsLive,
              OneLiveOperation, Live, HasRow
<1>2. CASE OnlyDue
  BY <1>2 DEF OnlyDue, KeptRows, QuietFacts, IInv, TypeOK, RowsTypeOK, OwnerIsLive,
              OneLiveOperation, Live, HasRow
<1>3. CASE OnlyFilled
  BY <1>3 DEF OnlyFilled, KeptRows, QuietFacts, IInv, TypeOK, RowsTypeOK, OwnerIsLive,
              OneLiveOperation, Live, HasRow
<1> QED
  BY <1>1, <1>2, <1>3, TransitionKeepsRows, CompleteKeepsRows, RemoveKeepsRows, CloseKeepsRows
  DEF QuietRows

-----------------------------------------------------------------------------
(* The inductive step, one lemma per form *)

LEMMA StartsKeepsIInv ==
    ASSUME IInv, NEW o \in Op, Starts(o)
    PROVE  IInv'
<1>1. PICK h \in History :
          \/ created' = created /\ \E k \in Kinds : BeginRows(o, h, k)
          \/ created' = created \cup {o} /\ CreateRows(o, h)
  BY DEF Starts
<1>2. /\ task[o] = "new" /\ state[o] = "absent" /\ window[o] = "none" /\ o \notin created
      /\ task' = [task EXCEPT ![o] = "running"]
      /\ UNCHANGED <<window, seen, sweep>>
  BY DEF Starts, IInv, Fresh
<1>3. RowsTypeOK' /\ OwnerIsLive' /\ OneLiveOperation'
  BY <1>1, <1>2, BeginKeepsRows, CreateKeepsRows
\* Both kinds of start touch one operation, and one history.
<1>4. /\ \A p \in Op \ {o} : kind'[p] = kind[p]
      /\ \A p \in Op \ {o} : state'[p] = "absent" <=> state[p] = "absent"
      /\ state'[o] = "running"
      /\ owner' = [owner EXCEPT ![h] = o]
  <2>1. CASE \E k \in Kinds : BeginRows(o, h, k)
    <3>1. Recovered(h) = [p \in Op |-> IF p = owner[h] /\ Live(p) THEN "timed_out" ELSE state[p]]
      BY DEF Recovered
    <3>2. \A p \in Op : Recovered(h)[p] = "absent" <=> state[p] = "absent"
      BY <3>1 DEF Live, LiveStates
    <3>3. state' = [Recovered(h) EXCEPT ![o] = "running"]
      BY <2>1 DEF BeginRows
    <3>4. /\ \A p \in Op \ {o} : state'[p] = Recovered(h)[p]
          /\ state'[o] = "running"
      BY <3>1, <3>3
    <3>5. (\A p \in Op \ {o} : kind'[p] = kind[p]) /\ owner' = [owner EXCEPT ![h] = o]
      BY <2>1 DEF BeginRows, IInv, TypeOK, RowsTypeOK
    <3> QED BY <3>2, <3>4, <3>5
  <2>2. CASE CreateRows(o, h)
    BY <2>2 DEF CreateRows, IInv, TypeOK, RowsTypeOK
  <2> QED BY <1>1, <2>1, <2>2
<1>5. created' \in {created, created \cup {o}} /\ (created' # created => kind'[o] = "send")
  <2>1. CreateRows(o, h) => kind'[o] = "send"
    BY DEF CreateRows, IInv, TypeOK, RowsTypeOK
  <2> QED BY <1>1, <2>1
<1>6. TypeOK'
  BY <1>2, <1>3, <1>4, <1>5 DEF TypeOK, IInv, TaskStates
<1>7. Fresh'
  BY <1>2, <1>4, <1>5 DEF Fresh, IInv, TypeOK, RowsTypeOK
<1>8. Discipline'
  BY <1>2, <1>4, <1>5 DEF Discipline, IInv, TypeOK
<1>9. Exclusive'
  BY <1>2, <1>4 DEF Exclusive, HoldsLoop, OnThread, IInv, TypeOK
<1>10. SweepSound'
  <2> SUFFICES ASSUME sweep.job = "close", NEW p \in sweep.stale
               PROVE  state'[p] # "absent" /\ \A g \in History : owner'[g] = p => g \in sweep.cleared
    BY <1>2 DEF SweepSound
  <2>1. p \in Op /\ p # o
    BY <1>2 DEF IInv, TypeOK, SweepSound
  <2> QED BY <1>4, <2>1 DEF IInv, SweepSound, TypeOK, RowsTypeOK
<1>11. ContentSound'
  <2>1. filled' = filled /\ \A g \in History : HasRow(g) => HasRow(g)'
    <3>1. CASE \E k \in Kinds : BeginRows(o, h, k)
      <4>1. PICK k \in Kinds : BeginRows(o, h, k)
        BY <3>1
      <4>2. LifeAfterBegin(h, k) \in {"active", "deleting"}
        BY <4>1 DEF LifeAfterBegin, BeginRows, HasRow
      <4> QED BY <4>1, <4>2 DEF BeginRows, HasRow, IInv, TypeOK, RowsTypeOK
    <3>2. CASE CreateRows(o, h)
      BY <3>2 DEF CreateRows, HasRow, IInv, TypeOK, RowsTypeOK
    <3> QED BY <1>1, <3>1, <3>2
  <2> QED BY <1>2, <2>1 DEF ContentSound, IInv
<1> QED BY <1>3, <1>6, <1>7, <1>8, <1>9, <1>10, <1>11 DEF IInv

LEMMA FencesKeepsIInv ==
    ASSUME IInv, NEW o \in Op, Fences(o)
    PROVE  IInv'
<1>1. PICK w \in Writes :
          /\ OpenWindow(o, w) /\ window[o] = "none" /\ task[o] # "new" /\ MayRun(o) /\ Live(o)
          /\ w \in {"transition", "heartbeat"} => kind[o] = "send"
          /\ w = "mutate" => kind[o] \in FileKinds \cup {"send"}
          /\ w = "delete" => kind[o] \in {"delete_file", "delete_history"}
  BY DEF Fences
<1>2. /\ UNCHANGED <<rows, task, created, sweep>>
      /\ window' = [window EXCEPT ![o] = w]
      /\ seen' = [seen EXCEPT ![o] = life[scope[o]]]
  BY <1>1 DEF OpenWindow
<1>3. life[scope[o]] \in {"unborn", "active", "deleting", "deleted"}
  BY <1>1 DEF Live, LiveStates, IInv, TypeOK, RowsTypeOK
<1>4. KeptRows
  BY <1>2, QuietKeepsRows DEF QuietRows
<1>5. TypeOK'
  BY <1>2, <1>3, <1>4 DEF TypeOK, IInv, KeptRows
<1>6. Fresh'
  BY <1>1, <1>2 DEF Fresh, IInv, TypeOK, rows
<1>7. Discipline'
  BY <1>1, <1>2 DEF Discipline, IInv, TypeOK, rows
<1>8. Exclusive'
  BY <1>1, <1>2 DEF Exclusive, HoldsLoop, OnThread, MayRun, IInv, TypeOK, rows
<1>9. SweepSound' /\ ContentSound'
  BY <1>2 DEF SweepSound, ContentSound, HasRow, IInv, rows
<1> QED BY <1>4, <1>5, <1>6, <1>7, <1>8, <1>9 DEF IInv, KeptRows

LEMMA LeavesKeepsIInv ==
    ASSUME IInv, NEW o \in Op, Leaves(o)
    PROVE  IInv'
<1>1. PICK next \in TaskStates \ {"new"} :
          /\ task' = [task EXCEPT ![o] = next]
          /\ next \in {"starting", "streaming", "closing"} => kind[o] = "send"
          /\ next \in {"starting", "closing"} => ~OnThread(o) /\ sweep.job = "none"
  BY DEF Leaves
<1>2. /\ task[o] # "new"
      /\ window' = [window EXCEPT ![o] = "none"] \/ window' = window
      /\ seen' = [seen EXCEPT ![o] = "unborn"] \/ seen' = seen
      /\ UNCHANGED <<created, sweep>>
  BY DEF Leaves
<1>3. KeptRows
  BY QuietKeepsRows DEF Leaves
<1>4. TypeOK'
  BY <1>1, <1>2, <1>3 DEF TypeOK, IInv, KeptRows
<1>5. Fresh'
  BY <1>1, <1>2, <1>3, NullsAreNotIds DEF Fresh, IInv, TypeOK, KeptRows, QuietFacts
<1>6. Discipline'
  BY <1>1, <1>2, <1>3 DEF Discipline, IInv, TypeOK, KeptRows, QuietFacts
<1>7. Exclusive'
  BY <1>1, <1>2, <1>3 DEF Exclusive, HoldsLoop, OnThread, IInv, TypeOK, KeptRows, QuietFacts
<1>8. SweepSound'
  BY <1>2, <1>3, NullsAreNotIds DEF SweepSound, IInv, TypeOK, KeptRows, QuietFacts
<1>9. ContentSound'
  BY <1>2, <1>3 DEF ContentSound, IInv, TypeOK, KeptRows, QuietFacts
<1> QED BY <1>3, <1>4, <1>5, <1>6, <1>7, <1>8, <1>9 DEF IInv, KeptRows

LEMMA ReadsKeepsIInv ==
    ASSUME IInv, Reads
    PROVE  IInv'
<1>1. /\ LoopFree
      /\ UNCHANGED <<rows, task, window, seen, created>>
      /\ sweep' \in [job : {"close", "remove"}, stale : SUBSET Op, cleared : SUBSET History,
                      reopened : SUBSET History, empty : SUBSET History]
      /\ sweep'.job = "close" =>
            /\ sweep'.stale = StaleOperations
            /\ sweep'.cleared = {h \in History : HasRow(h) /\ owner[h] \in StaleOperations}
      /\ sweep'.job = "remove" => \A h \in sweep'.empty : ~filled[h]
  BY DEF Reads
<1>2. KeptRows
  BY <1>1, QuietKeepsRows DEF QuietRows
<1>3. TypeOK'
  BY <1>1, <1>2 DEF TypeOK, IInv, KeptRows, Jobs
<1>4. Fresh' /\ Discipline'
  BY <1>1 DEF Fresh, Discipline, IInv, rows
<1>5. Exclusive'
  BY <1>1 DEF LoopFree, Exclusive, HoldsLoop, OnThread, rows
<1>6. SweepSound'
  <2>1. \A p \in StaleOperations : state[p] # "absent"
    BY DEF StaleOperations, Live, LiveStates
  <2>2. \A g \in History : owner[g] \in Op => HasRow(g)
    BY NullsAreNotIds DEF IInv, OwnerIsLive
  <2>3. StaleOperations \subseteq Op
    BY DEF StaleOperations
  <2> QED BY <1>1, <2>1, <2>2, <2>3 DEF SweepSound, rows
<1>7. ContentSound'
  BY <1>1 DEF ContentSound, HasRow, IInv, rows
<1> QED BY <1>2, <1>3, <1>4, <1>5, <1>6, <1>7 DEF IInv, KeptRows

LEMMA SweepsKeepsIInv ==
    ASSUME IInv, Sweeps
    PROVE  IInv'
<1>1. sweep' = NoSweep /\ UNCHANGED <<task, window, seen, created>>
  BY DEF Sweeps
<1>2. KeptRows
  BY QuietKeepsRows DEF Sweeps
<1>3. TypeOK'
  BY <1>1, <1>2 DEF TypeOK, IInv, KeptRows, NoSweep, Jobs
<1>4. Fresh' /\ Discipline'
  BY <1>1, <1>2, NullsAreNotIds DEF Fresh, Discipline, IInv, KeptRows, QuietFacts
<1>5. Exclusive' /\ SweepSound' /\ ContentSound'
  BY <1>1, <1>2 DEF Exclusive, SweepSound, ContentSound, NoSweep, IInv, KeptRows, QuietFacts
<1> QED BY <1>2, <1>3, <1>4, <1>5 DEF IInv, KeptRows

LEMMA CrashKeepsIInv ==
    ASSUME IInv, Crash
    PROVE  IInv'
<1>1. KeptRows
  BY QuietKeepsRows DEF Crash, QuietRows
<1>2. /\ sweep' = NoSweep
      /\ UNCHANGED <<rows, created>>
      /\ task' = [p \in Op |-> IF task[p] = "new" THEN "new" ELSE "over"]
      /\ window' = [p \in Op |-> "none"]
      /\ seen' = [p \in Op |-> "unborn"]
  BY DEF Crash
<1>3. TypeOK'
  BY <1>1, <1>2 DEF TypeOK, IInv, KeptRows, NoSweep, Jobs, TaskStates
<1>4. Fresh' /\ Discipline'
  BY <1>2 DEF Fresh, Discipline, IInv, rows
<1>5. Exclusive' /\ SweepSound' /\ ContentSound'
  BY <1>2 DEF Exclusive, SweepSound, ContentSound, HasRow, NoSweep, IInv, rows
<1> QED BY <1>1, <1>3, <1>4, <1>5 DEF IInv, KeptRows

LEMMA TicksKeepsIInv ==
    ASSUME IInv, Ticks
    PROVE  IInv'
<1>1. KeptRows
  BY QuietKeepsRows DEF Ticks, QuietRows
<1>2. TypeOK'
  BY <1>1 DEF Ticks, tasks, TypeOK, IInv, KeptRows
<1>3. Fresh' /\ Discipline' /\ Exclusive' /\ SweepSound' /\ ContentSound'
  BY DEF Ticks, OnlyDue, tasks, Fresh, Discipline, Exclusive, SweepSound, ContentSound, HasRow,
         HoldsLoop, OnThread, IInv
<1> QED BY <1>1, <1>2, <1>3 DEF IInv, KeptRows

LEMMA StutterKeepsIInv ==
    ASSUME IInv, UNCHANGED vars
    PROVE  IInv'
<1>1. KeptRows
  BY QuietKeepsRows DEF vars, QuietRows
<1>2. TypeOK'
  BY <1>1 DEF vars, tasks, TypeOK, IInv, KeptRows
<1>3. Fresh' /\ Discipline' /\ Exclusive' /\ SweepSound' /\ ContentSound'
  BY DEF vars, rows, tasks, Fresh, Discipline, Exclusive, SweepSound, ContentSound, HasRow,
         HoldsLoop, OnThread, IInv
<1> QED BY <1>1, <1>2, <1>3 DEF IInv, KeptRows

LEMMA InitIInv == Init => IInv
<1> SUFFICES ASSUME Init PROVE IInv
  OBVIOUS
<1>1. TypeOK
  BY DEF Init, RowsInit, TypeOK, RowsTypeOK, TaskStates, NoSweep, Jobs
<1>2. Fresh /\ Discipline /\ Exclusive /\ SweepSound /\ ContentSound
  BY NullsAreNotIds DEF Init, RowsInit, Fresh, Discipline, Exclusive, SweepSound, ContentSound,
                        HasRow, NoSweep
<1>3. OwnerIsLive /\ OneLiveOperation
  BY DEF Init, RowsInit, OwnerIsLive, OneLiveOperation, Live, LiveStates
<1> QED BY <1>1, <1>2, <1>3 DEF IInv

\* The inductive invariant holds whatever the set of operations, histories and
\* requested types, and however many threads, crashes and sweeps there are.
THEOREM Inductive == Spec => []IInv
<1>1. IInv /\ [Next]_vars => IInv'
  BY NextForm, StartsKeepsIInv, FencesKeepsIInv, LeavesKeepsIInv, ReadsKeepsIInv,
     SweepsKeepsIInv, CrashKeepsIInv, TicksKeepsIInv, StutterKeepsIInv DEF StepForm
<1> QED BY <1>1, InitIInv, PTL DEF Spec

\* The columns keep their types and constraints.
THEOREM TypeCorrect == Spec => []TypeOK
<1>1. IInv => TypeOK BY DEF IInv
<1> QED BY <1>1, Inductive, PTL

\* The owner columns of a history never dangle, thread-pool requests included
\* (operations.py, chat_execution_cleanup.py).
THEOREM OwnersAreLive == Spec => []OwnerIsLive
<1>1. IInv => OwnerIsLive BY DEF IInv
<1> QED BY <1>1, Inductive, PTL

\* There is never a second live operation on a history
\* (operations.py:52-114, chat_history.py:138-145).
THEOREM OneLivePerHistory == Spec => []OneLiveOperation
<1>1. IInv => OneLiveOperation BY DEF IInv
<1> QED BY <1>1, Inductive, PTL

\* A message or a file is only lost to a deletion somebody asked for: neither the clean-up
\* of empty histories nor a failed send takes a history that was filled in time
\* (operations.py:345-364, chat_history_cleanup.py:14-40).
THEOREM ContentStays == Spec => ContentOnlyDeletedOnRequest
<1>1. ASSUME IInv, [Next]_vars, NEW h \in History, filled[h], life'[h] = "deleted"
      PROVE  \E o \in Op : WriteDelete(o) /\ scope[o] = h
                             /\ kind[o] \in {"delete_file", "delete_history"}
  <2>1. HasRow(h) /\ life[h] # "deleted" /\ ~IsEmpty(h)
    BY <1>1 DEF IInv, ContentSound, HasRow, IsEmpty
  <2>2. life'[h] # life[h] /\ ~UNCHANGED rows
    BY <1>1, <2>1 DEF rows
  <2>3. ASSUME NEW H \in SUBSET History, RemoveRows(H) PROVE h \in H
    BY <2>1, <2>2, <2>3 DEF RemoveRows
  <2>4. ASSUME NEW o \in Op, Step(o)
        PROVE  WriteDelete(o) /\ scope[o] = h /\ kind[o] \in {"delete_file", "delete_history"}
    <3>1. ~(\E g \in History, k \in Kinds : Begin(o, g, k))
      <4>1. SUFFICES ASSUME NEW g \in History, NEW k \in Kinds, BeginRows(o, g, k) PROVE FALSE
        BY DEF Begin
      <4>2. LifeAfterBegin(g, k) \in {"active", "deleting"}
        BY <4>1 DEF LifeAfterBegin, BeginRows, HasRow
      <4> QED BY <1>1, <2>1, <4>1, <4>2 DEF BeginRows, IInv, TypeOK, RowsTypeOK
    <3>2. ~(\E g \in History : BeginNewHistory(o, g))
      BY <1>1, <2>2 DEF BeginNewHistory, CreateRows, IInv, TypeOK, RowsTypeOK
    <3>3. /\ ~CheckTransition(o) /\ ~CheckHeartbeat(o) /\ ~CheckMutate(o) /\ ~CheckMessage(o)
          /\ ~CheckDelete(o) /\ ~CheckSucceed(o) /\ ~Abandon(o) /\ ~WriteAborts(o)
          /\ ~(\E outcome \in {"failed", "timed_out"} : CheckClose(o, outcome))
      BY <2>2 DEF CheckTransition, CheckHeartbeat, CheckMutate, CheckMessage, CheckDelete,
                  CheckSucceed, CheckClose, Abandon, WriteAborts, OpenWindow, Moves
    <3>4. ~DeleteEmptyHistory(o)
      <4>1. CASE state[o] # "absent" /\ IsEmpty(scope[o])
        BY <1>1, <2>1, <2>3, <4>1 DEF DeleteEmptyHistory, IInv, TypeOK, RowsTypeOK
      <4>2. CASE ~(state[o] # "absent" /\ IsEmpty(scope[o]))
        BY <2>2, <4>2 DEF DeleteEmptyHistory
      <4> QED BY <4>1, <4>2
    <3>5. ~WriteTransition(o) /\ ~WriteHeartbeat(o) /\ ~WriteMutate(o)
      BY <2>2 DEF WriteTransition, TransitionRows, WriteHeartbeat, HeartbeatRows, WriteMutate
    <3>6. ~WriteOutcome(o)
      BY <1>1, <2>1, <2>2 DEF WriteOutcome, CompleteRows, IInv, TypeOK, RowsTypeOK
    <3>7. state[o] # "absent" /\ WriteDelete(o)
      BY <2>4, <3>1, <3>2, <3>3, <3>4, <3>5, <3>6 DEF Step, Commit
    <3>8. scope[o] = h
      BY <1>1, <2>3, <3>7 DEF WriteDelete, IInv, TypeOK, RowsTypeOK
    <3> QED BY <1>1, <3>7, <3>8 DEF WriteDelete, IInv, Discipline
  <2>5. ASSUME NEW o \in Op, TimePasses(o) PROVE FALSE
    BY <2>2, <2>5 DEF TimePasses, DeadlinePasses, MaxRuntimePasses
  <2>6. ~SweepRead /\ ~EmptyRead /\ ~Crash /\ ~UNCHANGED vars
    BY <2>2 DEF SweepRead, EmptyRead, Crash, vars
  <2>7. ~SweepWrite
    BY <1>1, <2>1, <2>2 DEF SweepWrite, CloseRows
  <2>8. ~EmptyWrite
    <3>1. SUFFICES ASSUME EmptyWrite PROVE FALSE
      OBVIOUS
    <3>2. h \in sweep.empty
      BY <1>1, <2>3, <3>1 DEF EmptyWrite, IInv, TypeOK
    <3> QED BY <1>1, <3>1, <3>2 DEF EmptyWrite, IInv, ContentSound
  <2> QED BY <1>1, <2>4, <2>5, <2>6, <2>7, <2>8 DEF Next
<1>2. IInv /\ [Next]_vars =>
        [\A h \in History :
            filled[h] /\ life'[h] = "deleted" =>
                \E o \in Op : WriteDelete(o) /\ scope[o] = h
                                /\ kind[o] \in {"delete_file", "delete_history"}]_vars
  BY <1>1
<1> QED BY <1>2, Inductive, PTL DEF Spec, ContentOnlyDeletedOnRequest

-----------------------------------------------------------------------------
(* While no request runs in the thread pool *)

\* The requests all come from the event loop.
LoopOnly == Kinds \cap ThreadKinds = {}

\* Whoever is live is the owner of its history.
Owned == \A o \in Op : Live(o) => owner[scope[o]] = o

\* Nobody is in the thread pool, and one task at most is between two awaits.
OneAtATime ==
    /\ \A o \in Op : ~OnThread(o)
    /\ \A o, p \in Op : HoldsLoop(o) /\ HoldsLoop(p) => o = p
    /\ \A o \in Op : task[o] = "closing" => window[o] = "none"

\* A fence that has passed still holds when the write is made.
FencesHold == \A o \in Op : window[o] # "none" => Current(o, TRUE)

\* What housekeeping read is still so when it writes.
SweepExact ==
    sweep.job = "close" =>
        /\ \A o \in sweep.stale : Live(o) /\ Expired(o)
        /\ sweep.cleared = {h \in History : HasRow(h) /\ owner[h] \in sweep.stale}

LInv == IInv /\ Owned /\ OneAtATime /\ FencesHold /\ SweepExact

\* What it takes to be current.
LEMMA LiveIsCurrent ==
    ASSUME IInv, Owned, NEW o \in Op, Live(o)
    PROVE  Current(o, TRUE)
BY DEF Current, IInv, Owned, TypeOK, RowsTypeOK, Live, LiveStates

\* A step of one task of the loop: nobody else is in the middle of anything.
LEMMA LoopStep ==
    ASSUME LInv, IInv', Owned', NEW o \in Op,
           sweep.job = "none", UNCHANGED sweep,
           \A p \in Op : ~OnThread(p)',
           \A p \in Op \ {o} :
              ~HoldsLoop(p) /\ window'[p] = window[p] /\ task'[p] = task[p],
           window'[o] # "none" => Live(o)' /\ task'[o] # "closing"
    PROVE  LInv'
<1>1. \A p \in Op \ {o} : window'[p] = "none" /\ ~HoldsLoop(p)' /\ ~OnThread(p)
  BY DEF LInv, OneAtATime, HoldsLoop
<1>2. OneAtATime'
  BY <1>1 DEF LInv, OneAtATime
<1>3. FencesHold'
  <2>1. ASSUME window'[o] # "none" PROVE Current(o, TRUE)'
    <3>1. Live(o)'
      BY <2>1
    <3>2. /\ scope'[o] \in History /\ owner'[scope'[o]] = o
      BY <3>1 DEF IInv, Owned, TypeOK, RowsTypeOK, Live, LiveStates
    <3> QED BY <3>1, <3>2 DEF Current
  <2> QED BY <1>1, <2>1 DEF FencesHold
<1>4. SweepExact'
  BY DEF SweepExact
<1> QED BY <1>2, <1>3, <1>4 DEF LInv

\* The holder of the loop, or of nothing while the loop is free, is alone.
LEMMA Alone ==
    ASSUME LInv, NEW o \in Op, HoldsLoop(o) \/ MayRun(o)
    PROVE  sweep.job = "none" /\ \A p \in Op \ {o} : ~HoldsLoop(p)
BY DEF LInv, IInv, Exclusive, OneAtATime, MayRun

-----------------------------------------------------------------------------
(* Owned, one lemma per row change *)

LEMMA BeginOwns ==
    ASSUME IInv, Owned, NEW o \in Op, NEW h \in History, NEW k \in Kinds,
           task[o] = "new", BeginRows(o, h, k)
    PROVE  Owned'
<1>1. state[o] = "absent" /\ \A g \in History : owner[g] # o
  BY DEF IInv, Fresh
<1>2. /\ \A p \in Op \ {o} : state'[p] = (IF p = owner[h] /\ Live(p) THEN "timed_out" ELSE state[p])
      /\ scope' = [scope EXCEPT ![o] = h] /\ owner' = [owner EXCEPT ![h] = o]
      /\ NoLiveExcept(h, {owner[h]})
  BY DEF BeginRows, Recovered
<1>3. SUFFICES ASSUME NEW p \in Op, Live(p)' PROVE owner'[scope'[p]] = p
  BY DEF Owned
<1>4. CASE p = o
  BY <1>2, <1>4 DEF IInv, TypeOK, RowsTypeOK
<1>5. CASE p # o
  <2>1. state'[p] = state[p] /\ ~(p = owner[h] /\ Live(p))
    BY <1>2, <1>3, <1>5 DEF Live, LiveStates
  <2>2. Live(p) /\ p # owner[h]
    BY <1>3, <2>1 DEF Live
  <2>3. scope[p] # h /\ scope'[p] = scope[p] /\ scope[p] \in History
    BY <1>2, <1>5, <2>2 DEF NoLiveExcept, IInv, TypeOK, RowsTypeOK, Live, LiveStates
  <2> QED BY <1>2, <2>2, <2>3 DEF Owned, IInv, TypeOK, RowsTypeOK
<1> QED BY <1>4, <1>5

LEMMA CreateOwns ==
    ASSUME IInv, Owned, NEW o \in Op, NEW h \in History, task[o] = "new", CreateRows(o, h)
    PROVE  Owned'
<1>1. ~HasRow(h) /\ state[o] = "absent"
  BY DEF CreateRows, HasRow, IInv, Fresh
<1>2. \A p \in Op : Live(p) => scope[p] # h /\ scope[p] \in History
  BY <1>1 DEF IInv, TypeOK, RowsTypeOK, Live, LiveStates
<1> QED BY <1>1, <1>2 DEF CreateRows, Owned, IInv, TypeOK, RowsTypeOK, Live

LEMMA TransitionOwns ==
    ASSUME IInv, Owned, NEW o \in Op, Live(o), TransitionRows(o)
    PROVE  Owned'
BY DEF TransitionRows, Owned, IInv, TypeOK, RowsTypeOK, Live

LEMMA CompleteOwns ==
    ASSUME IInv, Owned, NEW o \in Op, NEW outcome \in Outcomes, NEW reopen \in BOOLEAN, Live(o),
           CompleteRows(o, outcome, reopen)
    PROVE  Owned'
<1>1. /\ state' = [state EXCEPT ![o] = outcome]
      /\ owner' = [owner EXCEPT ![scope[o]] = NoOp] /\ scope' = scope
      /\ ~Live(o)'
  BY DEF CompleteRows, IInv, TypeOK, RowsTypeOK, Live, LiveStates, Outcomes
<1>2. SUFFICES ASSUME NEW p \in Op, Live(p)' PROVE owner'[scope'[p]] = p
  BY DEF Owned
<1>3. p # o /\ Live(p)
  BY <1>1, <1>2 DEF Live, IInv, TypeOK, RowsTypeOK
<1>4. scope[p] # scope[o] /\ scope[p] \in History
  BY <1>3 DEF IInv, OneLiveOperation, TypeOK, RowsTypeOK, Live, LiveStates
<1> QED BY <1>1, <1>3, <1>4 DEF Owned, IInv, TypeOK, RowsTypeOK

LEMMA RemoveOwns ==
    ASSUME IInv, Owned, NEW H \in SUBSET History, RemoveRows(H)
    PROVE  Owned'
BY DEF RemoveRows, Owned, IInv, TypeOK, RowsTypeOK, Live, LiveStates

\* Only the owners that housekeeping timed out lose their history.
LEMMA CloseOwns ==
    ASSUME LInv, sweep.job = "close", CloseRows(sweep.stale, sweep.cleared, sweep.reopened)
    PROVE  Owned'
<1>1. /\ state' = [p \in Op |-> IF p \in sweep.stale THEN "timed_out" ELSE state[p]]
      /\ owner' = [h \in History |-> IF h \in sweep.cleared THEN NoOp ELSE owner[h]]
      /\ scope' = scope
      /\ sweep.cleared = {h \in History : HasRow(h) /\ owner[h] \in sweep.stale}
  BY DEF CloseRows, LInv, SweepExact
<1>2. SUFFICES ASSUME NEW p \in Op, Live(p)' PROVE owner'[scope'[p]] = p
  BY DEF Owned
<1>3. p \notin sweep.stale /\ Live(p)
  BY <1>1, <1>2 DEF Live, LiveStates
<1>4. scope[p] \in History /\ owner[scope[p]] = p
  BY <1>3 DEF LInv, IInv, Owned, TypeOK, RowsTypeOK, Live, LiveStates
<1> QED BY <1>1, <1>3, <1>4

-----------------------------------------------------------------------------
(* The inductive step of the loop *)

\* The invariant without its loop part is known to be kept.
LEMMA StepKeepsIInv == IInv /\ [Next]_vars => IInv'
BY NextForm, StartsKeepsIInv, FencesKeepsIInv, LeavesKeepsIInv, ReadsKeepsIInv,
   SweepsKeepsIInv, CrashKeepsIInv, TicksKeepsIInv, StutterKeepsIInv DEF StepForm

LEMMA StartKeepsLInv ==
    ASSUME LoopOnly, LInv, IInv', NEW o \in Op, NEW h \in History,
           (\E k \in Kinds : Begin(o, h, k)) \/ BeginNewHistory(o, h)
    PROVE  LInv'
<1>1. /\ task[o] = "new" /\ LoopFree
      /\ task' = [task EXCEPT ![o] = "running"]
      /\ UNCHANGED <<window, sweep>>
  BY DEF Begin, BeginNewHistory, LoopOnly
<1>2. window[o] = "none"
  BY <1>1 DEF LInv, IInv, Fresh
<1>3. Owned'
  BY BeginOwns, CreateOwns DEF Begin, BeginNewHistory, LInv
<1>4. \A p \in Op : ~OnThread(p)'
  <2>1. \E k \in OperationTypes \ ThreadKinds : kind' = [kind EXCEPT ![o] = k]
    BY KindsAssumption DEF Begin, BeginNewHistory, BeginRows, CreateRows, LoopOnly, OperationTypes
  <2> QED BY <2>1 DEF OnThread, LInv, OneAtATime, IInv, TypeOK, RowsTypeOK
<1> QED BY <1>1, <1>2, <1>3, <1>4, LoopStep DEF LoopFree, LInv, IInv, TypeOK

LEMMA FenceKeepsLInv ==
    ASSUME LInv, IInv', NEW o \in Op, Fences(o)
    PROVE  LInv'
<1>1. PICK w \in Writes :
          /\ window' = [window EXCEPT ![o] = w]
          /\ UNCHANGED <<rows, task, sweep>>
          /\ MayRun(o) /\ Live(o)
  BY DEF Fences, OpenWindow
<1>2. task[o] # "closing"
  BY DEF Fences
<1>3. Owned' /\ \A p \in Op : ~OnThread(p)'
  BY <1>1 DEF rows, LInv, Owned, OneAtATime, Live, OnThread
<1>4. sweep.job = "none" /\ \A p \in Op \ {o} : ~HoldsLoop(p)
  BY <1>1, Alone
<1>5. Live(o)'
  BY <1>1 DEF rows, Live
<1> QED BY <1>1, <1>2, <1>3, <1>4, <1>5, LoopStep DEF LInv, IInv, TypeOK

\* What a task does when it leaves its place: its window, if it had one, is closed.
LEMMA LeaveKeepsLInv ==
    ASSUME LInv, IInv', NEW o \in Op, Owned', HoldsLoop(o) \/ MayRun(o),
           UNCHANGED <<kind, sweep>>,
           \A p \in Op \ {o} : window'[p] = window[p] /\ task'[p] = task[p],
           window'[o] = "none"
    PROVE  LInv'
<1>1. \A p \in Op : ~OnThread(p)'
  BY DEF LInv, OneAtATime, OnThread
<1> QED BY <1>1, Alone, LoopStep

LEMMA CommitKeepsLInv ==
    ASSUME LInv, IInv', NEW o \in Op, Commit(o) \/ WriteAborts(o)
    PROVE  LInv'
<1>1. window[o] # "none" /\ HoldsLoop(o)
  BY DEF Commit, WriteTransition, WriteHeartbeat, WriteMutate, WriteDelete, WriteOutcome,
         WriteAborts, Outcomes, HoldsLoop, LInv, OneAtATime
<1>2. Live(o) /\ scope[o] \in History
  BY <1>1 DEF LInv, FencesHold, Current
<1>3. /\ window' = [window EXCEPT ![o] = "none"] /\ UNCHANGED sweep
      /\ \A p \in Op \ {o} : task'[p] = task[p]
  BY DEF Commit, WriteTransition, WriteHeartbeat, WriteMutate, WriteDelete, WriteOutcome,
         WriteAborts, CloseWindow, LInv, IInv, TypeOK
<1>4. UNCHANGED kind /\ Owned'
  <2>1. CASE WriteTransition(o)
    BY <1>2, <2>1, TransitionOwns DEF WriteTransition, TransitionRows, LInv
  <2>2. CASE WriteHeartbeat(o) \/ WriteMutate(o) \/ WriteAborts(o)
    BY <2>2 DEF WriteHeartbeat, HeartbeatRows, WriteMutate, WriteAborts, rows, LInv, Owned, Live
  <2>3. CASE WriteDelete(o)
    <3>1. RemoveRows({scope[o]}) /\ {scope[o]} \in SUBSET History
      BY <1>2, <2>3 DEF WriteDelete
    <3> QED BY <3>1, RemoveOwns DEF RemoveRows, LInv
  <2>4. CASE WriteOutcome(o)
    BY <1>2, <2>4, CompleteOwns DEF WriteOutcome, CompleteRows, LInv
  <2> QED BY <2>1, <2>2, <2>3, <2>4 DEF Commit
<1> QED BY <1>1, <1>3, <1>4, LeaveKeepsLInv DEF LInv, IInv, TypeOK

LEMMA AbandonKeepsLInv ==
    ASSUME LInv, IInv', NEW o \in Op, Abandon(o)
    PROVE  LInv'
<1>1. /\ MayRun(o) /\ window[o] = "none"
      /\ UNCHANGED <<rows, window, sweep>>
      /\ \A p \in Op \ {o} : task'[p] = task[p]
  BY DEF Abandon, Moves, LInv, IInv, TypeOK
<1>2. UNCHANGED kind /\ Owned'
  BY <1>1 DEF rows, LInv, Owned, Live
<1> QED BY <1>1, <1>2, LeaveKeepsLInv

LEMMA DeleteEmptyKeepsLInv ==
    ASSUME LInv, IInv', NEW o \in Op, DeleteEmptyHistory(o)
    PROVE  LInv'
<1>1. /\ HoldsLoop(o) /\ window[o] = "none"
      /\ UNCHANGED <<window, sweep>>
      /\ \A p \in Op \ {o} : task'[p] = task[p]
  BY DEF DeleteEmptyHistory, HoldsLoop, LInv, OneAtATime, IInv, TypeOK
<1>2. UNCHANGED kind /\ Owned'
  <2>1. CASE state[o] # "absent" /\ IsEmpty(scope[o])
    <3>1. RemoveRows({scope[o]}) /\ {scope[o]} \in SUBSET History
      BY <2>1 DEF DeleteEmptyHistory, LInv, IInv, TypeOK, RowsTypeOK
    <3> QED BY <3>1, RemoveOwns DEF RemoveRows, LInv
  <2>2. CASE ~(state[o] # "absent" /\ IsEmpty(scope[o]))
    BY <2>2 DEF DeleteEmptyHistory, rows, LInv, Owned, Live
  <2> QED BY <2>1, <2>2
<1> QED BY <1>1, <1>2, LeaveKeepsLInv

\* Housekeeping reads while the loop is free, and nobody runs before it has written.
LEMMA ReadsKeepsLInv ==
    ASSUME LInv, IInv', Reads
    PROVE  LInv'
<1>1. /\ UNCHANGED <<rows, task, window>>
      /\ sweep'.job = "close" =>
            /\ sweep'.stale = StaleOperations
            /\ sweep'.cleared = {h \in History : HasRow(h) /\ owner[h] \in StaleOperations}
  BY DEF Reads
<1>2. Owned' /\ OneAtATime' /\ FencesHold'
  BY <1>1 DEF rows, LInv, Owned, OneAtATime, FencesHold, HoldsLoop, OnThread, Current, Live, Expired
<1>3. SweepExact'
  BY <1>1 DEF rows, SweepExact, StaleOperations, Live, Expired, HasRow
<1> QED BY <1>2, <1>3 DEF LInv

LEMMA SweepsKeepsLInv ==
    ASSUME LInv, IInv', SweepWrite \/ EmptyWrite
    PROVE  LInv'
<1>1. /\ sweep.job # "none" /\ sweep'.job = "none"
      /\ UNCHANGED <<task, window, kind>>
  BY DEF SweepWrite, EmptyWrite, CloseRows, RemoveRows, NoSweep
<1>2. \A p \in Op : ~HoldsLoop(p) /\ ~OnThread(p) /\ window[p] = "none"
  BY <1>1 DEF LInv, IInv, Exclusive, OneAtATime, HoldsLoop
<1>3. OneAtATime' /\ FencesHold' /\ SweepExact'
  BY <1>1, <1>2 DEF OneAtATime, FencesHold, SweepExact, HoldsLoop, OnThread
<1>4. Owned'
  BY CloseOwns, RemoveOwns DEF SweepWrite, EmptyWrite, LInv, IInv, TypeOK
<1> QED BY <1>3, <1>4 DEF LInv

LEMMA CrashKeepsLInv ==
    ASSUME LInv, IInv', Crash
    PROVE  LInv'
<1>1. /\ UNCHANGED rows /\ sweep'.job = "none"
      /\ \A p \in Op : window'[p] = "none" /\ task'[p] \in {"new", "over"}
  BY DEF Crash, NoSweep
<1>2. \A p \in Op : ~HoldsLoop(p)' /\ ~OnThread(p)'
  BY <1>1 DEF rows, HoldsLoop, OnThread, LInv, OneAtATime
<1>3. Owned' /\ OneAtATime' /\ FencesHold' /\ SweepExact'
  BY <1>1, <1>2 DEF rows, LInv, Owned, OneAtATime, FencesHold, SweepExact, Live
<1> QED BY <1>3 DEF LInv

\* A deadline that passes takes nothing from a fence that allows it.
LEMMA TimeKeepsLInv ==
    ASSUME LInv, IInv', NEW o \in Op, TimePasses(o)
    PROVE  LInv'
<1>1. /\ UNCHANGED <<state, kind, scope, owner, life, filled>>
      /\ UNCHANGED <<task, window, sweep>>
      /\ \A p \in Op : due[p] \subseteq due'[p]
  BY DEF TimePasses, DeadlinePasses, MaxRuntimePasses, tasks, LInv, IInv, TypeOK, RowsTypeOK
<1>2. Owned' /\ OneAtATime' /\ FencesHold'
  BY <1>1 DEF LInv, Owned, OneAtATime, FencesHold, HoldsLoop, OnThread, Current, Live
<1>3. SweepExact'
  BY <1>1 DEF LInv, IInv, TypeOK, SweepExact, Live, Expired, HasRow
<1> QED BY <1>2, <1>3 DEF LInv

\* One lemma per kind of step.
LEMMA LoopInductive == LoopOnly /\ LInv /\ [Next]_vars => LInv'
<1>1. SUFFICES ASSUME LoopOnly, LInv, [Next]_vars PROVE LInv'
  OBVIOUS
<1>2. IInv'
  BY <1>1, StepKeepsIInv DEF LInv
<1>3. ASSUME NEW o \in Op, Step(o) PROVE LInv'
  BY <1>1, <1>2, <1>3, StartKeepsLInv, FenceForm, FenceKeepsLInv, CommitKeepsLInv, AbandonKeepsLInv,
     DeleteEmptyKeepsLInv DEF Step, LInv
<1>4. CASE SweepRead \/ EmptyRead
  <2>1. Reads
    <3>1. CASE SweepRead
      <4> DEFINE S == StaleOperations
                 C == {h \in History : HasRow(h) /\ owner[h] \in S}
                 O == {h \in C : life[h] = "deleting"}
      <4>1. /\ LoopFree /\ UNCHANGED <<rows, task, window, seen, created>>
            /\ sweep' = [NoSweep EXCEPT !.job = "close", !.stale = S, !.cleared = C, !.reopened = O]
        BY <3>1 DEF SweepRead
      <4>2. S \in SUBSET Op /\ C \in SUBSET History /\ O \in SUBSET History
        BY DEF StaleOperations
      <4> HIDE DEF S, O
      <4>3. sweep' = [job |-> "close", stale |-> S, cleared |-> C, reopened |-> O, empty |-> {}]
        BY <4>1 DEF NoSweep
      <4>4. C = {h \in History : HasRow(h) /\ owner[h] \in StaleOperations} /\ S = StaleOperations
        BY DEF S
      <4> HIDE DEF C
      <4>5. /\ sweep' \in [job : {"close", "remove"}, stale : SUBSET Op, cleared : SUBSET History,
                            reopened : SUBSET History, empty : SUBSET History]
            /\ sweep'.job = "close" /\ sweep'.stale = S /\ sweep'.cleared = C
        BY <4>2, <4>3
      <4> QED BY <4>1, <4>4, <4>5 DEF Reads
    <3>2. CASE EmptyRead
      <4>1. PICK H \in SUBSET {h \in History : HasRow(h) /\ owner[h] = NoOp /\ IsEmpty(h)} :
               sweep' = [NoSweep EXCEPT !.job = "remove", !.empty = H]
        BY <3>2 DEF EmptyRead
      <4>2. LoopFree /\ UNCHANGED <<rows, task, window, seen, created>>
        BY <3>2 DEF EmptyRead
      <4>3. H \in SUBSET History /\ \A h \in H : ~filled[h]
        BY DEF IsEmpty
      <4>4. sweep' = [job |-> "remove", stale |-> {}, cleared |-> {}, reopened |-> {}, empty |-> H]
        BY <4>1 DEF NoSweep
      <4> QED BY <4>2, <4>3, <4>4 DEF Reads
    <3> QED BY <1>4, <3>1, <3>2
  <2> QED BY <1>1, <1>2, <2>1, ReadsKeepsLInv
<1>5. CASE UNCHANGED vars
  BY <1>1, <1>2, <1>5 DEF vars, rows, tasks, LInv, Owned, OneAtATime, FencesHold, SweepExact,
                         HoldsLoop, OnThread, Current, Live, Expired, HasRow
<1> QED BY <1>1, <1>2, <1>3, <1>4, <1>5, SweepsKeepsLInv, CrashKeepsLInv, TimeKeepsLInv DEF Next

LEMMA LoopInit == LoopOnly /\ Init => LInv
<1> SUFFICES ASSUME LoopOnly, Init PROVE LInv
  OBVIOUS
<1>1. /\ \A o \in Op : kind[o] = "none" /\ window[o] = "none" /\ task[o] = "new" /\ ~Live(o)
      /\ sweep.job = "none"
  BY DEF Init, RowsInit, NoSweep, Live, LiveStates
<1>2. \A o \in Op : ~OnThread(o) /\ ~HoldsLoop(o)
  BY <1>1, KindsAssumption DEF OnThread, HoldsLoop
<1>3. Owned /\ OneAtATime /\ FencesHold /\ SweepExact
  BY <1>1, <1>2 DEF Owned, OneAtATime, FencesHold, SweepExact
<1> QED BY <1>3, InitIInv DEF LInv

\* The invariant of the event loop alone, for every set of operations, histories and types
\* of which none runs in the thread pool.
THEOREM LoopInvariant ==
    ASSUME LoopOnly
    PROVE  Spec => []LInv
<1>1. Init => LInv
  BY LoopInit
<1>2. LInv /\ [Next]_vars => LInv'
  BY LoopInductive
<1> QED BY <1>1, <1>2, PTL DEF Spec

\* Every write of a handle holder is made under the lease its fence saw: what lies between
\* the fence and the commit of a loop task is no await (operations.py:117-153).
THEOREM FencesProtect ==
    ASSUME LoopOnly
    PROVE  Spec => FencedWrites
<1>1. LInv /\ [Next]_vars => [\A o \in Op : Commit(o) => Current(o, TRUE)]_vars
  <2> SUFFICES ASSUME LInv, NEW o \in Op, Commit(o) PROVE Current(o, TRUE)
    OBVIOUS
  <2>1. window[o] # "none"
    BY DEF Commit, WriteTransition, WriteHeartbeat, WriteMutate, WriteDelete, WriteOutcome, Outcomes
  <2> QED BY <2>1 DEF LInv, FencesHold
<1> QED BY <1>1, LoopInvariant, PTL DEF Spec, FencedWrites

\* A lease that is live and in time is only lost by a write of its own holder, or with the
\* empty history under it: a begin recovers and housekeeping closes what is expired, and a
\* deletion is a write of the one live operation of its history (operations.py:52-114,
\* 345-364).
THEOREM LeaseStands ==
    ASSUME LoopOnly
    PROVE  Spec => LeaseLostOnlyPastDeadline
<1>1. ASSUME LInv, [Next]_vars, NEW o \in Op, Live(o), ~Expired(o), ~Live(o)'
      PROVE  Commit(o) \/ EmptyWrite \/ \E p \in Op : DeleteEmptyHistory(p)
  <2>1. state'[o] # state[o]
    BY <1>1 DEF Live
  <2>2. ~UNCHANGED rows
    BY <2>1 DEF rows
  <2>3. ASSUME NEW p \in Op, Step(p), ~DeleteEmptyHistory(p) PROVE Commit(o)
    <3>1. ~(\E h \in History, k \in Kinds : Begin(p, h, k))
      <4>1. SUFFICES ASSUME NEW h \in History, NEW k \in Kinds, task[p] = "new", BeginRows(p, h, k)
                     PROVE FALSE
        BY DEF Begin
      <4>2. state[p] = "absent" /\ p # o
        BY <1>1, <4>1 DEF LInv, IInv, Fresh, Live, LiveStates
      <4>3. o = owner[h]
        BY <2>1, <4>1, <4>2 DEF BeginRows, Recovered
      <4>4. Recoverable(h)
        BY <4>1, <4>3, NullsAreNotIds DEF BeginRows
      <4> QED BY <1>1, <4>3, <4>4 DEF Recoverable
    <3>2. ~(\E h \in History : BeginNewHistory(p, h))
      <4>1. SUFFICES ASSUME NEW h \in History, task[p] = "new", CreateRows(p, h) PROVE FALSE
        BY DEF BeginNewHistory
      <4>2. state[p] = "absent" /\ p # o
        BY <1>1, <4>1 DEF LInv, IInv, Fresh, Live, LiveStates
      <4> QED BY <2>1, <4>1, <4>2 DEF CreateRows, LInv, IInv, TypeOK, RowsTypeOK
    <3>3. /\ ~CheckTransition(p) /\ ~CheckHeartbeat(p) /\ ~CheckMutate(p) /\ ~CheckMessage(p)
          /\ ~CheckDelete(p) /\ ~CheckSucceed(p) /\ ~Abandon(p) /\ ~WriteAborts(p)
          /\ ~(\E outcome \in {"failed", "timed_out"} : CheckClose(p, outcome))
      BY <2>2 DEF CheckTransition, CheckHeartbeat, CheckMutate, CheckMessage, CheckDelete,
                  CheckSucceed, CheckClose, Abandon, WriteAborts, OpenWindow, Moves
    <3>4. Commit(p)
      BY <2>3, <3>1, <3>2, <3>3 DEF Step
    <3>5. p = o
      <4>1. ~WriteHeartbeat(p) /\ ~WriteMutate(p)
        BY <2>1 DEF WriteHeartbeat, HeartbeatRows, WriteMutate
      <4>2. WriteTransition(p) \/ WriteOutcome(p) => p = o
        BY <1>1, <2>1 DEF WriteTransition, TransitionRows, WriteOutcome, CompleteRows,
                          LInv, IInv, TypeOK, RowsTypeOK
      <4>3. WriteDelete(p) => p = o
        <5>1. SUFFICES ASSUME WriteDelete(p) PROVE p = o
          OBVIOUS
        <5>2. scope[o] = scope[p] /\ Live(p)
          BY <1>1, <2>1, <5>1 DEF WriteDelete, RemoveRows, LInv, FencesHold, Current
        <5> QED BY <1>1, <5>2 DEF LInv, IInv, OneLiveOperation
      <4> QED BY <3>4, <4>1, <4>2, <4>3 DEF Commit
    <3> QED BY <3>4, <3>5
  <2>4. ASSUME NEW p \in Op, TimePasses(p) PROVE FALSE
    BY <2>1, <2>4 DEF TimePasses, DeadlinePasses, MaxRuntimePasses
  <2>5. ~SweepRead /\ ~EmptyRead /\ ~Crash /\ ~UNCHANGED vars
    BY <2>2 DEF SweepRead, EmptyRead, Crash, vars
  <2>6. ~SweepWrite
    BY <1>1, <2>1 DEF SweepWrite, CloseRows, LInv, SweepExact
  <2> QED BY <1>1, <2>3, <2>4, <2>5, <2>6 DEF Next
<1>2. LInv /\ [Next]_vars =>
        [\A o \in Op :
            Live(o) /\ ~Expired(o) /\ ~Live(o)' =>
                Commit(o) \/ EmptyWrite \/ \E p \in Op : DeleteEmptyHistory(p)]_vars
  BY <1>1
<1> QED BY <1>2, LoopInvariant, PTL DEF Spec, LeaseLostOnlyPastDeadline

-----------------------------------------------------------------------------
(* The rows implement the lease *)

\* The outcome of an operation by its columns, one operation at a time.
LEMMA OutcomeOf ==
    ASSUME NEW o \in Op
    PROVE  /\ Live(o) => LeaseOutcome[o] = "held"
           /\ ~Live(o) /\ state[o] = "absent" /\ task[o] = "new" => LeaseOutcome[o] = "unused"
           /\ ~Live(o) /\ state[o] = "absent" /\ task[o] # "new" => LeaseOutcome[o] = "gone"
           /\ ~Live(o) /\ state[o] # "absent" => LeaseOutcome[o] = state[o]
BY DEF LeaseOutcome, Live, LiveStates

\* An operation whose row and whose being new do not change keeps its outcome.
LEMMA OutcomeStays ==
    ASSUME \A p \in Op : state'[p] = state[p] /\ (task'[p] = "new" <=> task[p] = "new")
    PROVE  LeaseOutcome' = LeaseOutcome
BY DEF LeaseOutcome, Live

\* A begin acquires the history, from its expired holder if it has one.
LEMMA BeginAcquires ==
    ASSUME LInv, NEW o \in Op, NEW h \in History, NEW k \in Kinds, Begin(o, h, k)
    PROVE  Lease!Acquire(o, h)
<1>1. /\ task[o] = "new" /\ task' = [task EXCEPT ![o] = "running"]
      /\ state' = [Recovered(h) EXCEPT ![o] = "running"]
      /\ scope' = [scope EXCEPT ![o] = h] /\ owner' = [owner EXCEPT ![h] = o]
  BY DEF Begin, BeginRows
<1>2. state[o] = "absent" /\ ~Live(o) /\ LeaseOutcome[o] = "unused"
  BY <1>1, OutcomeOf DEF LInv, IInv, Fresh, Live, LiveStates
<1>3. /\ state'[o] = "running"
      /\ \A p \in Op \ {o} : state'[p] = (IF p = owner[h] THEN "timed_out" ELSE state[p])
  <2>1. ASSUME NEW p \in Op, p = owner[h] PROVE Live(p)
    BY <2>1, NullsAreNotIds DEF LInv, IInv, OwnerIsLive
  <2> QED BY <1>1, <2>1 DEF Recovered
<1>4. ASSUME NEW p \in Op
      PROVE  LeaseOutcome'[p] = (CASE p = o -> "held"
                                   [] p # o /\ p = owner[h] -> "timed_out"
                                   [] OTHER -> LeaseOutcome[p])
  <2>1. CASE p = o
    BY <1>3, <2>1 DEF LeaseOutcome, Live, LiveStates
  <2>2. CASE p # o /\ p = owner[h]
    BY <1>3, <2>2 DEF LeaseOutcome, Live, LiveStates
  <2>3. CASE p # o /\ p # owner[h]
    BY <1>1, <1>3, <2>3 DEF LeaseOutcome, Live, LInv, IInv, TypeOK
  <2> QED BY <2>1, <2>2, <2>3
<1>5. LeaseOutcome' = [p \in Op |-> CASE p = o -> "held"
                                      [] p # o /\ p = owner[h] -> "timed_out"
                                      [] OTHER -> LeaseOutcome[p]]
  BY <1>4 DEF LeaseOutcome
<1> QED BY <1>1, <1>2, <1>5 DEF Lease!Acquire

LEMMA CreateAcquires ==
    ASSUME LInv, NEW o \in Op, NEW h \in History, BeginNewHistory(o, h)
    PROVE  Lease!Acquire(o, h)
<1>1. /\ task[o] = "new" /\ task' = [task EXCEPT ![o] = "running"]
      /\ state' = [state EXCEPT ![o] = "running"]
      /\ scope' = [scope EXCEPT ![o] = h] /\ owner' = [owner EXCEPT ![h] = o]
      /\ life[h] = "unborn"
  BY DEF BeginNewHistory, CreateRows
<1>2. state[o] = "absent" /\ ~Live(o) /\ LeaseOutcome[o] = "unused"
  BY <1>1, OutcomeOf DEF LInv, IInv, Fresh, Live, LiveStates
<1>3. owner[h] = NoOp
  BY <1>1 DEF LInv, IInv, OwnerIsLive, HasRow
<1>4. ASSUME NEW p \in Op
      PROVE  LeaseOutcome'[p] = (CASE p = o -> "held"
                                   [] p # o /\ p = owner[h] -> "timed_out"
                                   [] OTHER -> LeaseOutcome[p])
  <2>1. p # owner[h]
    BY <1>3, NullsAreNotIds
  <2>2. CASE p = o
    BY <1>1, <2>2 DEF LeaseOutcome, Live, LiveStates, LInv, IInv, TypeOK, RowsTypeOK
  <2>3. CASE p # o
    BY <1>1, <2>1, <2>3 DEF LeaseOutcome, Live, LInv, IInv, TypeOK, RowsTypeOK
  <2> QED BY <2>2, <2>3
<1>5. LeaseOutcome' = [p \in Op |-> CASE p = o -> "held"
                                      [] p # o /\ p = owner[h] -> "timed_out"
                                      [] OTHER -> LeaseOutcome[p]]
  BY <1>4 DEF LeaseOutcome
<1> QED BY <1>1, <1>2, <1>5 DEF Lease!Acquire

\* The outcome a holder writes releases its history.
LEMMA OutcomeReleases ==
    ASSUME LInv, NEW o \in Op, WriteOutcome(o), state[o] # "absent"
    PROVE  \E h \in History, result \in {"succeeded", "failed", "timed_out"} :
               Lease!Release(h, result)
<1>1. PICK result \in Outcomes :
          /\ state' = [state EXCEPT ![o] = result]
          /\ owner' = [owner EXCEPT ![scope[o]] = NoOp]
          /\ scope' = scope /\ window[o] # "none"
  BY DEF WriteOutcome, CompleteRows, Outcomes
<1>2. /\ Live(o) /\ scope[o] \in History /\ owner[scope[o]] = o /\ scope[o] \in Lease!Held
      /\ task[o] # "new"
  BY <1>1, NullsAreNotIds DEF LInv, IInv, Fresh, FencesHold, Current, Lease!Held
<1>3. \A p \in Op : task'[p] = "new" <=> task[p] = "new"
  BY <1>2 DEF WriteOutcome, CloseWindow, AfterClose, LInv, IInv, TypeOK
<1>4. ASSUME NEW p \in Op PROVE LeaseOutcome'[p] = [LeaseOutcome EXCEPT ![o] = result][p]
  <2>1. CASE p = o
    <3>1. state'[o] = result /\ result \notin LiveStates \cup {"absent"}
      BY <1>1 DEF Outcomes, LiveStates, LInv, IInv, TypeOK, RowsTypeOK
    <3> QED BY <2>1, <3>1 DEF LeaseOutcome, Live, LiveStates
  <2>2. CASE p # o
    BY <1>1, <1>3, <2>2 DEF LeaseOutcome, Live, LInv, IInv, TypeOK, RowsTypeOK
  <2> QED BY <2>1, <2>2
<1>5. LeaseOutcome' = [LeaseOutcome EXCEPT ![owner[scope[o]]] = result]
  BY <1>2, <1>4 DEF LeaseOutcome
<1> QED BY <1>1, <1>2, <1>5 DEF Lease!Release, Outcomes

\* Deleted histories take the records of their operations with them.
LEMMA RemovalRemoves ==
    ASSUME LInv, NEW H \in SUBSET History, RemoveRows(H),
           \A p \in Op : task'[p] = "new" <=> task[p] = "new"
    PROVE  Lease!Remove(H)
<1>1. /\ state' = [p \in Op |-> IF scope[p] \in H THEN "absent" ELSE state[p]]
      /\ owner' = [h \in History |-> IF h \in H THEN NoOp ELSE owner[h]]
      /\ scope' = scope
  BY DEF RemoveRows
<1>2. ASSUME NEW p \in Op
      PROVE  LeaseOutcome'[p] =
                 (IF LeaseOutcome[p] # "unused" /\ scope[p] \in H THEN "gone" ELSE LeaseOutcome[p])
  <2>1. LeaseOutcome[p] = "unused" <=> task[p] = "new"
    BY OutcomeOf DEF LInv, IInv, Fresh, TypeOK, RowsTypeOK, Live, LiveStates, TerminalStates
  <2>2. CASE scope[p] \in H /\ task[p] # "new"
    BY <1>1, <2>1, <2>2 DEF LeaseOutcome, Live, LiveStates
  <2>3. CASE task[p] = "new"
    <3>1. state[p] = "absent" /\ state'[p] = "absent"
      BY <1>1, <2>3 DEF LInv, IInv, Fresh
    <3> QED BY <2>1, <2>3, <3>1 DEF LeaseOutcome, Live, LiveStates
  <2>4. CASE scope[p] \notin H
    BY <1>1, <2>4 DEF LeaseOutcome, Live
  <2> QED BY <2>2, <2>3, <2>4
<1>3. LeaseOutcome' =
          [p \in Op |-> IF LeaseOutcome[p] # "unused" /\ scope[p] \in H THEN "gone" ELSE LeaseOutcome[p]]
  BY <1>2 DEF LeaseOutcome
<1> QED BY <1>1, <1>3 DEF Lease!Remove

\* Housekeeping times out the holders it read, all of them.
LEMMA SweepTimesOut ==
    ASSUME LInv, SweepWrite
    PROVE  \E H \in SUBSET Lease!Held : Lease!TimeOut(H)
<1>1. /\ state' = [p \in Op |-> IF p \in sweep.stale THEN "timed_out" ELSE state[p]]
      /\ owner' = [h \in History |-> IF h \in sweep.cleared THEN NoOp ELSE owner[h]]
      /\ UNCHANGED <<scope, task>>
      /\ \A p \in sweep.stale : Live(p)
      /\ sweep.cleared = {h \in History : HasRow(h) /\ owner[h] \in sweep.stale}
      /\ sweep.stale \subseteq Op
  BY DEF SweepWrite, CloseRows, LInv, SweepExact, IInv, TypeOK
<1>2. sweep.cleared \in SUBSET Lease!Held
  BY <1>1, NullsAreNotIds DEF Lease!Held
<1>3. ASSUME NEW p \in Op
      PROVE  LeaseOutcome'[p] =
                 (IF \E h \in sweep.cleared : p = owner[h] THEN "timed_out" ELSE LeaseOutcome[p])
  <2>1. p \in sweep.stale <=> \E h \in sweep.cleared : p = owner[h]
    <3>1. ASSUME p \in sweep.stale
          PROVE  scope[p] \in sweep.cleared /\ p = owner[scope[p]]
      BY <1>1, <3>1 DEF LInv, IInv, Owned, TypeOK, RowsTypeOK, Live, LiveStates
    <3>2. ASSUME NEW h \in sweep.cleared, p = owner[h] PROVE p \in sweep.stale
      BY <1>1, <3>2
    <3> QED BY <3>1, <3>2
  <2>2. CASE p \in sweep.stale
    BY <1>1, <2>1, <2>2 DEF LeaseOutcome, Live, LiveStates
  <2>3. CASE p \notin sweep.stale
    BY <1>1, <2>1, <2>3 DEF LeaseOutcome, Live
  <2> QED BY <2>2, <2>3
<1>4. LeaseOutcome' =
          [p \in Op |-> IF \E h \in sweep.cleared : p = owner[h] THEN "timed_out" ELSE LeaseOutcome[p]]
  BY <1>3 DEF LeaseOutcome
<1> QED BY <1>1, <1>2, <1>4 DEF Lease!TimeOut

\* Every other step of a task leaves the lease as it is.
LEMMA OthersStutter ==
    ASSUME LInv, UNCHANGED <<owner, scope>>,
           \A p \in Op : state'[p] = state[p] \/ (Live(p) /\ Live(p)'),
           \A p \in Op : task'[p] = "new" <=> task[p] = "new"
    PROVE  UNCHANGED Lease!leaseVars
<1>1. ASSUME NEW p \in Op PROVE LeaseOutcome'[p] = LeaseOutcome[p]
  <2>1. CASE state'[p] = state[p]
    BY <2>1 DEF LeaseOutcome, Live
  <2>2. CASE Live(p) /\ Live(p)'
    BY <2>2 DEF LeaseOutcome, Live, LiveStates
  <2> QED BY <2>1, <2>2
<1>2. LeaseOutcome' = LeaseOutcome
  BY <1>1 DEF LeaseOutcome
<1> QED BY <1>2 DEF Lease!leaseVars

\* A step of one task is a step of the lease, or none.
LEMMA TaskStepRefines ==
    ASSUME LInv, NEW o \in Op, Step(o)
    PROVE  Lease!LeaseNext \/ UNCHANGED Lease!leaseVars
<1>1. CASE \E h \in History, k \in Kinds : Begin(o, h, k)
  BY <1>1, BeginAcquires DEF Lease!LeaseNext
<1>2. CASE \E h \in History : BeginNewHistory(o, h)
  BY <1>2, CreateAcquires DEF Lease!LeaseNext
<1>3. ASSUME Fences(o) PROVE UNCHANGED Lease!leaseVars
  BY <1>3, OthersStutter DEF Fences, OpenWindow, rows
<1>4. CASE Abandon(o)
  <2>1. \A p \in Op : task'[p] = "new" <=> task[p] = "new"
    BY <1>4 DEF Abandon, Moves, AfterClose, LInv, IInv, TypeOK
  <2> QED BY <1>4, <2>1, OthersStutter DEF Abandon, Moves, rows
<1>5. ASSUME Commit(o) \/ WriteAborts(o)
      PROVE  /\ task[o] # "new" /\ Live(o) /\ scope[o] \in History
             /\ \A p \in Op : task'[p] = "new" <=> task[p] = "new"
  <2>1. window[o] # "none"
    BY <1>5 DEF Commit, WriteTransition, WriteHeartbeat, WriteMutate, WriteDelete, WriteOutcome,
                WriteAborts, Outcomes
  <2>2. task[o] # "new" /\ Live(o) /\ scope[o] \in History
    BY <2>1 DEF LInv, IInv, Fresh, FencesHold, Current
  <2>3. \A p \in Op : task'[p] = "new" <=> task[p] = "new"
    BY <1>5, <2>2 DEF Commit, WriteTransition, WriteHeartbeat, WriteMutate, WriteDelete, WriteOutcome,
                      WriteAborts, CloseWindow, AfterClose, LInv, IInv, TypeOK
  <2> QED BY <2>2, <2>3
<1>6. CASE Commit(o) /\ WriteTransition(o)
  <2>1. /\ UNCHANGED <<owner, scope>>
        /\ \A p \in Op : state'[p] = state[p] \/ (Live(p) /\ Live(p)')
    BY <1>5, <1>6 DEF WriteTransition, TransitionRows, Live, LiveStates, LInv, IInv, TypeOK, RowsTypeOK
  <2> QED BY <1>5, <1>6, <2>1, OthersStutter
<1>7. CASE (Commit(o) /\ (WriteHeartbeat(o) \/ WriteMutate(o))) \/ WriteAborts(o)
  <2>1. UNCHANGED <<owner, scope, state>>
    BY <1>7 DEF WriteHeartbeat, HeartbeatRows, WriteMutate, WriteAborts, rows
  <2> QED BY <1>5, <1>7, <2>1, OthersStutter
<1>8. CASE Commit(o) /\ WriteDelete(o)
  BY <1>5, <1>8, RemovalRemoves DEF WriteDelete, Lease!LeaseNext
<1>9. CASE Commit(o) /\ WriteOutcome(o)
  BY <1>9, OutcomeReleases DEF Commit, Lease!LeaseNext
<1>10. CASE DeleteEmptyHistory(o)
  <2>1. \A p \in Op : task'[p] = "new" <=> task[p] = "new"
    BY <1>10 DEF DeleteEmptyHistory, LInv, IInv, TypeOK
  <2>2. CASE state[o] # "absent" /\ IsEmpty(scope[o])
    <3>1. RemoveRows({scope[o]}) /\ {scope[o]} \in SUBSET History
      BY <1>10, <2>2 DEF DeleteEmptyHistory, LInv, IInv, TypeOK, RowsTypeOK
    <3> QED BY <2>1, <3>1, RemovalRemoves DEF Lease!LeaseNext
  <2>3. CASE ~(state[o] # "absent" /\ IsEmpty(scope[o]))
    BY <1>10, <2>1, <2>3, OthersStutter DEF DeleteEmptyHistory, rows
  <2> QED BY <2>2, <2>3
<1> QED BY <1>1, <1>2, <1>3, <1>4, <1>6, <1>7, <1>8, <1>9, <1>10, FenceForm DEF Step, Commit, LInv

\* The rows implement the lease: an operation is leased one history once, it leaves with one
\* outcome, and that outcome stands, whatever is recovered, closed or deleted meanwhile.
THEOREM RowsImplementLease ==
    ASSUME LoopOnly
    PROVE  Spec => ImplementsLease
<1>1. Init => Lease!LeaseInit
  <2> SUFFICES ASSUME Init PROVE Lease!LeaseInit
    OBVIOUS
  <2>1. LeaseOutcome = [o \in Op |-> "unused"]
    BY DEF Init, RowsInit, LeaseOutcome, Live, LiveStates
  <2> QED BY <2>1 DEF Init, RowsInit, Lease!LeaseInit
<1>2. LInv /\ [Next]_vars => [Lease!LeaseNext]_(Lease!leaseVars)
  <2> SUFFICES ASSUME LInv, [Next]_vars
               PROVE  Lease!LeaseNext \/ UNCHANGED Lease!leaseVars
    OBVIOUS
  <2>1. CASE \E o \in Op : Step(o)
    BY <2>1, TaskStepRefines
  <2>2. CASE \E o \in Op : TimePasses(o)
    <3>1. UNCHANGED <<owner, scope, state, task>>
      BY <2>2 DEF TimePasses, DeadlinePasses, MaxRuntimePasses, tasks
    <3> QED BY <3>1, OthersStutter
  <2>3. CASE SweepRead \/ EmptyRead \/ UNCHANGED vars
    <3>1. UNCHANGED <<owner, scope, state, task>>
      BY <2>3 DEF SweepRead, EmptyRead, vars, tasks, rows
    <3> QED BY <3>1, OthersStutter
  <2>4. CASE SweepWrite
    BY <2>4, SweepTimesOut DEF Lease!LeaseNext
  <2>5. CASE EmptyWrite
    BY <2>5, RemovalRemoves DEF EmptyWrite, Lease!LeaseNext, LInv, IInv, TypeOK
  <2>6. CASE Crash
    <3>1. /\ UNCHANGED <<owner, scope, state>>
          /\ \A p \in Op : task'[p] = "new" <=> task[p] = "new"
      BY <2>6 DEF Crash, rows
    <3> QED BY <3>1, OthersStutter
  <2> QED BY <2>1, <2>2, <2>3, <2>4, <2>5, <2>6 DEF Next
<1> QED BY <1>1, <1>2, LoopInvariant, PTL DEF Spec, ImplementsLease, Lease!LeaseSpec
===============================================================================
