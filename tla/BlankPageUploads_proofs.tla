------------------------ MODULE BlankPageUploads_proofs ------------------------
(* For any number of uploads: a live draft operation owns its draft, and    *)
(* what the client is told of its upload is so and stays so.                *)
EXTENDS BlankPageUploads, TLAPS

\* Before an upload begins there is nothing of it.
NothingYet ==
    \A u \in Upload : at[u] = "new" => operation[u] = NoOperation /\ ~HasDraft(u)

\* Promotion takes an operation off its draft and ends it at once.
RunningOnDraft == \A u \in Upload : Live(u) => operation[u].scope = "draft"

\* A staged file stays for as long as the operation can promote it.
StagedStays == \A u \in Upload : at[u] = "stored" /\ Live(u) => draft[u].file

\* No answer before the end, and no history without the answer.
NoAnswerYet ==
    \A u \in Upload : at[u] # "over" => reply[u] = "none" /\ ~history[u].there

\* What a suspended round will close is still there to close, what it will delete
\* is dead: requests that could change that stop the loop instead.
RoundIsSafe ==
    /\ house.expires \subseteq house.closes
    /\ \A u \in house.closes : Live(u) /\ operation[u].due /\ at[u] # "new"
    /\ \A u \in house.deletes : ~Live(u) /\ at[u] # "new"

\* AnswerIsTrue, and the scope that keeps a cascade off the operation.
AnswerStays ==
    /\ AnswerIsTrue
    /\ \A u \in Upload : reply[u] = "created" => operation[u].scope = "history"

IInv ==
    /\ TypeOK
    /\ DeadUploadsYield
    /\ NothingYet
    /\ RunningOnDraft
    /\ StagedStays
    /\ NoAnswerYet
    /\ RoundIsSafe
    /\ AnswerStays

-----------------------------------------------------------------------------
(* What closing, releasing and deleting do to the rows *)

\* The types of the tables, for the provers.
Rows ==
    /\ operation \in [Upload -> Operation] /\ draft \in [Upload -> Draft]
    /\ history \in [Upload -> History]
    /\ at \in [Upload -> {"new", "storing", "stored", "refused", "over"}]
    /\ reply \in [Upload -> {"none", "created", "error"}]

LEMMA RowTypes == ASSUME TypeOK PROVE Rows
    BY DEF TypeOK, Rows

\* The facts of the invariant about one upload.
Sound(u) ==
    /\ operation[u].state = "absent" <=> operation[u].scope = "none"
    /\ LiveOnDraft(u) => HasDraft(u) /\ draft[u].owned
    /\ at[u] = "new" => operation[u] = NoOperation /\ ~HasDraft(u)
    /\ Live(u) => operation[u].scope = "draft"
    /\ at[u] = "stored" /\ Live(u) => draft[u].file
    /\ at[u] # "over" => reply[u] = "none" /\ ~history[u].there
    /\ reply[u] = "created" =>
          /\ history[u] = [there |-> TRUE, owned |-> FALSE, file |-> TRUE]
          /\ operation[u].state = "succeeded" /\ ~HasDraft(u)
          /\ operation[u].scope = "history"
    /\ reply[u] = "error" => ~history[u].there
    /\ u \in house.closes => Live(u) /\ operation[u].due /\ at[u] # "new"
    /\ u \in house.deletes => ~Live(u) /\ at[u] # "new"

House ==
    /\ house \in [closes : SUBSET Upload, expires : SUBSET Upload, deletes : SUBSET Upload]
    /\ house.expires \subseteq house.closes
    /\ frozen \in BOOLEAN

LEMMA Pointwise == IInv <=> Rows /\ House /\ \A u \in Upload : Sound(u)
<1>1. ASSUME IInv PROVE Rows /\ House /\ \A u \in Upload : Sound(u)
    BY <1>1 DEF IInv, TypeOK, DeadUploadsYield, NothingYet, RunningOnDraft, StagedStays,
        NoAnswerYet, RoundIsSafe, AnswerStays, AnswerIsTrue, Rows, House, Sound
<1>2. ASSUME Rows, House, \A u \in Upload : Sound(u) PROVE IInv
    <2>1. TypeOK
        BY <1>2 DEF TypeOK, Rows, House, Sound
    <2>2. DeadUploadsYield /\ NothingYet /\ RunningOnDraft /\ StagedStays /\ NoAnswerYet
        BY <1>2 DEF DeadUploadsYield, NothingYet, RunningOnDraft, StagedStays, NoAnswerYet, Sound
    <2>3. RoundIsSafe
        BY <1>2 DEF RoundIsSafe, House, Sound
    <2>4. AnswerStays
        BY <1>2 DEF AnswerStays, AnswerIsTrue, Sound
    <2> QED
        BY <2>1, <2>2, <2>3, <2>4 DEF IInv
<1> QED
    BY <1>1, <1>2

\* The rows of another upload after an action on u.
Same(v) ==
    /\ operation'[v] = operation[v] /\ draft'[v] = draft[v] /\ history'[v] = history[v]
    /\ at'[v] = at[v] /\ reply'[v] = reply[v]
    /\ house' = house

LEMMA SameIsSound == ASSUME NEW v \in Upload, Sound(v), Same(v) PROVE Sound(v)'
    BY DEF Sound, Same, Live, LiveOnDraft, HasDraft

\* A live operation that is closed: v is neither new nor answered.
Closes(v) ==
    /\ Live(v)
    /\ operation'[v] = [operation[v] EXCEPT !.state = "timed_out"]
    /\ \/ draft'[v] = [draft[v] EXCEPT !.owned = FALSE]
       \/ draft'[v] = [draft[v] EXCEPT !.owned = FALSE, !.state = "expired"]
    /\ history'[v] = history[v] /\ at'[v] = at[v] /\ reply'[v] = reply[v]
    /\ v \notin house'.closes
    /\ v \in house'.deletes => v \in house.deletes

LEMMA ClosedIsSound ==
    ASSUME Rows, NEW v \in Upload, Sound(v), Closes(v)
    PROVE  /\ Sound(v)'
           /\ operation'[v] \in Operation /\ draft'[v] \in Draft
<1>1. operation[v] \in Operation /\ draft[v] \in Draft
    BY DEF Rows
<1>2. operation'[v] \in Operation /\ operation'[v].state = "timed_out"
      /\ operation'[v].scope = operation[v].scope
    BY <1>1 DEF Closes, Operation
<1>3. draft'[v] \in Draft
    BY <1>1 DEF Closes, Draft
<1>4. reply[v] # "created" /\ at[v] # "new"
    BY DEF Closes, Sound, Live, NoOperation
<1>5. Sound(v)'
    BY <1>2, <1>4, <1>1 DEF Closes, Sound, Live, LiveOnDraft, Operation
<1> QED
    BY <1>2, <1>3, <1>5

-----------------------------------------------------------------------------
(* The steps of a request *)

Sane == Rows /\ House /\ \A u \in Upload : Sound(u)

LEMMA FreezingIsSound == ASSUME Sane, Freezes PROVE Sane'
    BY SameIsSound DEF Sane, Freezes, Rows, House, Same

LEMMA BeginIsSound == ASSUME Sane, NEW u \in Upload, Begin(u) PROVE Sane'
<1> DEFINE live == {v \in Upload : LiveOnDraft(v)}
           expired == {v \in Upload : LiveOnDraft(v) /\ operation[v].due /\ draft[v].owned}
           row == [state |-> "running", scope |-> "draft", due |-> FALSE]
           staging == [NoDraft EXCEPT !.state = "active", !.owned = TRUE]
<1>1. CASE Freezes
    BY <1>1, FreezingIsSound
<1>2. CASE ~Freezes
    <2>1. /\ at[u] = "new" /\ live \subseteq expired
          /\ \A v \in live : ~OwnerLocked(v)
          /\ operation' = [Closed(expired) EXCEPT ![u] = row]
          /\ draft' = [Released(expired) EXCEPT ![u] = staging]
          /\ at' = [at EXCEPT ![u] = "storing"]
          /\ house' = house /\ frozen' = frozen /\ history' = history /\ reply' = reply
        BY <1>2 DEF Begin, Goes
    <2>2. \A v \in Upload : v # u =>
              /\ operation'[v] = IF v \in expired THEN [operation[v] EXCEPT !.state = "timed_out"]
                                 ELSE operation[v]
              /\ draft'[v] = IF v \in expired THEN [draft[v] EXCEPT !.owned = FALSE] ELSE draft[v]
              /\ at'[v] = at[v] /\ history'[v] = history[v] /\ reply'[v] = reply[v]
        BY <2>1 DEF Closed, Released, Sane, Rows
    <2>3. row \in Operation /\ staging \in Draft /\ staging.state = "active" /\ staging.owned
        BY DEF Operation, Draft, NoDraft
    <2>4. operation'[u] = row /\ draft'[u] = staging /\ at'[u] = "storing"
        BY <2>1 DEF Closed, Released, Sane, Rows
    <2>5. at[u] # "over" /\ u \notin house.closes /\ u \notin house.deletes
        BY <2>1 DEF Sane, Sound
    <2> HIDE DEF staging
    <2>6. Sound(u)'
        <3>1. /\ operation'[u].state = "running" /\ operation'[u].scope = "draft"
              /\ draft'[u].state = "active" /\ draft'[u].owned /\ at'[u] = "storing"
            BY <2>3, <2>4
        <3>2. reply'[u] = "none" /\ ~history'[u].there
            BY <2>1, <2>5 DEF Sane, Sound
        <3>3. u \notin house'.closes /\ u \notin house'.deletes
            BY <2>1, <2>5
        <3> HIDE DEF row, live, expired
        <3> QED
            BY <3>1, <3>2, <3>3 DEF Sound, Live, LiveOnDraft, HasDraft
    <2>7. ASSUME NEW v \in Upload, v # u
          PROVE  Sound(v)' /\ operation'[v] \in Operation /\ draft'[v] \in Draft
        <3>1. CASE v \in expired
            <4>1. v \notin house.closes
                BY <2>1, <3>1 DEF OwnerLocked
            <4>2. Live(v)
                BY <3>1 DEF LiveOnDraft
            <4>3. Closes(v)
                BY <2>1, <2>2, <2>7, <3>1, <4>1, <4>2 DEF Closes
            <4> QED
                BY <4>3, ClosedIsSound DEF Sane
        <3>2. CASE v \notin expired
            <4>1. Same(v)
                BY <2>1, <2>2, <2>7, <3>2 DEF Same
            <4>2. operation[v] \in Operation /\ draft[v] \in Draft
                BY DEF Sane, Rows
            <4> QED
                BY <4>1, <4>2, SameIsSound DEF Sane, Same
        <3> QED
            BY <3>1, <3>2
    <2>8. Rows'
        <3>1. \A v \in Upload : operation'[v] \in Operation /\ draft'[v] \in Draft
            BY <2>3, <2>4, <2>7
        <3>2. operation' = [v \in Upload |-> operation'[v]] /\ draft' = [v \in Upload |-> draft'[v]]
            BY <2>1 DEF Closed, Released
        <3> QED
            BY <2>1, <3>1, <3>2 DEF Sane, Rows
    <2>9. House'
        BY <2>1 DEF Sane, House
    <2> QED
        BY <2>6, <2>7, <2>8, <2>9 DEF Sane
<1> QED
    BY <1>1, <1>2

LEMMA StoresIsSound == ASSUME Sane, NEW u \in Upload, Stores(u) PROVE Sane'
<1>1. /\ at[u] = "storing" /\ Current(u)
      /\ draft' = [draft EXCEPT ![u] = [draft[u] EXCEPT !.file = TRUE, !.due = FALSE]]
      /\ at' = [at EXCEPT ![u] = "stored"]
      /\ UNCHANGED <<operation, history, reply, house, frozen>>
    BY DEF Stores, Goes, Sane, Rows
<1>2. draft[u] \in Draft
    BY DEF Sane, Rows
<1> DEFINE d == [draft[u] EXCEPT !.file = TRUE, !.due = FALSE]
<1>3. d \in Draft /\ d.file /\ d.state = draft[u].state /\ d.owned = draft[u].owned
    BY <1>2 DEF Draft
<1> HIDE DEF d
<1>4. Rows' /\ House'
    BY <1>1, <1>3 DEF Sane, Rows, House, d
<1>5. Sound(u)'
    BY <1>1, <1>3 DEF Sane, Rows, Sound, Live, LiveOnDraft, HasDraft, d
<1>6. \A v \in Upload : v # u => Sound(v)'
    BY <1>1, SameIsSound DEF Sane, Rows, Same
<1> QED
    BY <1>4, <1>5, <1>6 DEF Sane

LEMMA PromotesIsSound == ASSUME Sane, NEW u \in Upload, Promotes(u) PROVE Sane'
<1> DEFINE row == [operation[u] EXCEPT !.scope = "history", !.state = "succeeded"]
           h == [there |-> TRUE, owned |-> FALSE, file |-> draft[u].file]
<1>1. /\ at[u] = "stored" /\ Live(u) /\ ~operation[u].due
      /\ history' = [history EXCEPT ![u] = h]
      /\ operation' = Cascaded({u}, [operation EXCEPT ![u] = row])
      /\ draft' = Undrafted({u})
      /\ at' = [at EXCEPT ![u] = "over"] /\ reply' = [reply EXCEPT ![u] = "created"]
      /\ house' = house /\ frozen' = frozen
    BY DEF Promotes, Promoted, Current, Answers, Goes
<1>2. operation[u] \in Operation /\ draft[u] \in Draft
    BY DEF Sane, Rows
<1>3. row \in Operation /\ row.scope = "history" /\ row.state = "succeeded"
    BY <1>2 DEF Operation
<1>4. draft[u].file
    BY <1>1 DEF Sane, Sound
<1> HIDE DEF row
<1>5. /\ operation'[u] = row /\ draft'[u] = NoDraft
      /\ history'[u] = [there |-> TRUE, owned |-> FALSE, file |-> TRUE]
      /\ at'[u] = "over" /\ reply'[u] = "created"
    BY <1>1, <1>2, <1>3, <1>4 DEF Cascaded, Undrafted, Sane, Rows, Draft
<1>6. \A v \in Upload : v # u => Same(v)
    BY <1>1 DEF Cascaded, Undrafted, Sane, Rows, Same
<1>7. u \notin house.closes /\ u \notin house.deletes
    BY <1>1 DEF Sane, Sound
<1>8. Sound(u)'
    BY <1>1, <1>3, <1>5, <1>7 DEF Sound, Live, LiveOnDraft, HasDraft, NoDraft
<1>9. Rows' /\ House'
    <2>1. NoDraft \in Draft /\ h \in History
        BY <1>2 DEF NoDraft, Draft, History
    <2>2. /\ operation' = [v \in Upload |-> operation'[v]] /\ draft' = [v \in Upload |-> draft'[v]]
        BY <1>1 DEF Cascaded, Undrafted
    <2>3. \A v \in Upload : operation'[v] \in Operation /\ draft'[v] \in Draft
        BY <1>3, <1>5, <1>6, <2>1 DEF Same, Sane, Rows
    <2> QED
        BY <1>1, <2>1, <2>2, <2>3 DEF Sane, Rows, House
<1> QED
    BY <1>6, <1>8, <1>9, SameIsSound DEF Sane

\* A request that goes on to report, or is over without an answer of success.
LEMMA MovesIsSound ==
    ASSUME Sane, NEW u \in Upload, at[u] \in {"storing", "stored", "refused"},
           at'[u] \in {"refused", "over"}, at' = [at EXCEPT ![u] = at'[u]],
           \/ reply' = reply
           \/ at'[u] = "over" /\ reply' = [reply EXCEPT ![u] = "error"],
           UNCHANGED <<operation, draft, history, house, frozen>>
    PROVE  Sane'
<1>1. \A v \in Upload : v # u => Same(v)
    BY DEF Same, Sane, Rows
<1>2. Sound(u)'
    BY DEF Sound, Sane, Rows, Live, LiveOnDraft, HasDraft
<1>3. Rows' /\ House'
    BY DEF Sane, Rows, House
<1> QED
    BY <1>1, <1>2, <1>3, SameIsSound DEF Sane

LEMMA FailsIsSound ==
    ASSUME Sane, NEW u \in Upload, NEW outcome \in {"failed", "timed_out"}, Fails(u, outcome)
    PROVE  Sane'
<1>1. CASE Freezes
    BY <1>1, FreezingIsSound
<1>2. CASE ~Freezes /\ ~Completes(u, outcome = "timed_out")
    <2>1. at[u] = "storing" /\ at' = [at EXCEPT ![u] = "refused"]
          /\ UNCHANGED <<operation, draft, history, reply, house, frozen>>
        BY <1>2 DEF Fails, Goes
    <2>2. at'[u] = "refused"
        BY <2>1 DEF Sane, Rows
    <2> QED
        BY <2>1, <2>2, MovesIsSound
<1>3. CASE ~Freezes /\ Completes(u, outcome = "timed_out")
    <2> DEFINE row == [operation[u] EXCEPT !.state = outcome]
               d == [draft[u] EXCEPT !.owned = FALSE]
    <2>1. /\ at[u] = "storing" /\ u \notin house.closes /\ Live(u)
          /\ operation' = [operation EXCEPT ![u] = row] /\ draft' = [draft EXCEPT ![u] = d]
          /\ at' = [at EXCEPT ![u] = "refused"]
          /\ UNCHANGED <<history, reply, house, frozen>>
        BY <1>3 DEF Fails, Goes, Completes, OwnerLocked
    <2>2. operation[u] \in Operation /\ draft[u] \in Draft
        BY DEF Sane, Rows
    <2>3. row \in Operation /\ row.state = outcome /\ row.scope = operation[u].scope
        BY <2>2 DEF Operation
    <2>4. d \in Draft
        BY <2>2 DEF Draft
    <2> HIDE DEF row, d
    <2>5. operation'[u] = row /\ draft'[u] = d /\ at'[u] = "refused"
        BY <2>1 DEF Sane, Rows
    <2>6. \A v \in Upload : v # u => Same(v)
        BY <2>1 DEF Sane, Rows, Same
    <2>7. Sound(u)'
        BY <2>1, <2>3, <2>5 DEF Sane, Sound, Live, LiveOnDraft
    <2>8. Rows' /\ House'
        BY <2>1, <2>3, <2>4 DEF Sane, Rows, House
    <2> QED
        BY <2>6, <2>7, <2>8, SameIsSound DEF Sane
<1> QED
    BY <1>1, <1>2, <1>3

LEMMA DiscardsIsSound ==
    ASSUME Sane, NEW u \in Upload, NEW works \in BOOLEAN, Discards(u, works)
    PROVE  Sane'
<1>1. CASE Freezes
    BY <1>1, FreezingIsSound
<1>2. CASE ~Freezes /\ ~works
    <2>1. /\ at[u] = "refused" /\ at' = [at EXCEPT ![u] = "over"]
          /\ reply' = [reply EXCEPT ![u] = "error"]
          /\ UNCHANGED <<operation, draft, history, house, frozen>>
        BY <1>2 DEF Discards, Answers, Goes
    <2>2. at'[u] = "over"
        BY <2>1 DEF Sane, Rows
    <2> QED
        BY <2>1, <2>2, MovesIsSound
<1>3. CASE ~Freezes /\ works
    <2>1. /\ at[u] = "refused" /\ u \notin house.closes
          /\ draft' = Undrafted({u}) /\ operation' = Cascaded({u}, operation)
          /\ at' = [at EXCEPT ![u] = "over"] /\ reply' = [reply EXCEPT ![u] = "error"]
          /\ UNCHANGED <<history, house, frozen>>
        BY <1>3 DEF Discards, Answers, Goes, OwnerLocked
    <2>2. \A v \in Upload : v # u => Same(v)
        BY <2>1 DEF Cascaded, Undrafted, Sane, Rows, Same
    <2>3. /\ draft'[u] = NoDraft /\ at'[u] = "over" /\ reply'[u] = "error"
          /\ operation'[u] = IF operation[u].scope = "draft" THEN NoOperation ELSE operation[u]
        BY <2>1 DEF Cascaded, Undrafted, Sane, Rows
    <2>4. NoOperation \in Operation /\ NoDraft \in Draft
        BY DEF NoOperation, NoDraft, Operation, Draft
    <2>5. Sound(u)'
        BY <2>1, <2>3 DEF Sane, Sound, Live, LiveOnDraft, HasDraft, NoOperation
    <2>6. Rows'
        <3>1. \A v \in Upload : operation'[v] \in Operation /\ draft'[v] \in Draft
            BY <2>2, <2>3, <2>4 DEF Same, Sane, Rows
        <3>2. operation' = [v \in Upload |-> operation'[v]] /\ draft' = [v \in Upload |-> draft'[v]]
            BY <2>1 DEF Cascaded, Undrafted
        <3> QED
            BY <2>1, <3>1, <3>2 DEF Sane, Rows
    <2>7. House'
        BY <2>1 DEF Sane, House
    <2> QED
        BY <2>2, <2>5, <2>6, <2>7, SameIsSound DEF Sane
<1> QED
    BY <1>1, <1>2, <1>3

LEMMA RequestIsSound == ASSUME Sane, NEW u \in Upload, UploadNext(u) PROVE Sane'
<1>1. CASE Expires(u)
    <2>1. at'[u] = "refused"
        BY <1>1 DEF Expires, Goes, Sane, Rows
    <2> QED
        BY <1>1, <2>1, MovesIsSound DEF Expires, Goes
<1>2. CASE Breaks(u)
    <2>1. at'[u] = "over"
        BY <1>2 DEF Breaks, Answers, Goes, Sane, Rows
    <2> QED
        BY <1>2, <2>1, MovesIsSound DEF Breaks, Answers, Goes
<1> QED
    BY <1>1, <1>2, BeginIsSound, StoresIsSound, PromotesIsSound, FailsIsSound, DiscardsIsSound
       DEF UploadNext

-----------------------------------------------------------------------------
(* Housekeeping, time and crashes *)

\* A round is tidied: what it closes was live, what it deletes was dead, and nothing
\* of it is left to do.
LEMMA TidiedIsSound ==
    ASSUME Sane, NEW round, round.closes \subseteq Upload,
           round.expires \subseteq round.closes,
           \A u \in round.closes : Live(u) /\ operation[u].due,
           \A u \in round.deletes : ~Live(u) /\ at[u] # "new",
           house = Resting \/ house = round,
           Tidied(round), house' = Resting, UNCHANGED <<history, at, reply, frozen>>
    PROVE  Sane'
<1>1. ASSUME NEW v \in Upload
      PROVE  Sound(v)' /\ operation'[v] \in Operation /\ draft'[v] \in Draft
    <2>0. operation[v] \in Operation /\ draft[v] \in Draft /\ house' = Resting
          /\ NoOperation \in Operation /\ NoDraft \in Draft
          /\ v \notin house'.closes /\ v \notin house'.deletes
        BY DEF Sane, Rows, Resting, NoOperation, NoDraft, Operation, Draft
    <2>1. CASE v \in round.closes
        <3>1. v \notin round.deletes
            BY <2>1
        <3>2. operation'[v] = [operation[v] EXCEPT !.state = "timed_out"]
            BY <2>1, <3>1 DEF Tidied, Cascaded, Closed
        <3>3. Released(round.closes)[v] = [draft[v] EXCEPT !.owned = FALSE]
            BY <2>1 DEF Released
        <3>4. \/ draft'[v] = [draft[v] EXCEPT !.owned = FALSE]
              \/ draft'[v] = [[draft[v] EXCEPT !.owned = FALSE] EXCEPT !.state = "expired"]
            BY <3>1, <3>3 DEF Tidied
        <3>5. Closes(v)
            BY <2>0, <2>1, <3>2, <3>4 DEF Closes
        <3> QED
            BY <3>5, ClosedIsSound DEF Sane
    <2>2. CASE v \notin round.closes /\ v \in round.deletes
        <3>1. /\ draft'[v] = NoDraft
              /\ operation'[v] = IF operation[v].scope = "draft" THEN NoOperation ELSE operation[v]
            BY <2>2 DEF Tidied, Cascaded, Closed
        <3>2. ~Live(v) /\ at[v] # "new"
            BY <2>2
        <3> QED
            BY <2>0, <3>1, <3>2 DEF Sane, Sound, Live, LiveOnDraft, HasDraft, NoOperation, NoDraft
    <2>3. CASE v \notin round.closes /\ v \notin round.deletes
        <3>1. operation'[v] = operation[v] /\ draft'[v] = draft[v]
            BY <2>3 DEF Tidied, Cascaded, Closed, Released
        <3> QED
            BY <2>0, <3>1 DEF Sane, Sound, Live, LiveOnDraft, HasDraft
    <2> QED
        BY <2>1, <2>2, <2>3
<1>2. operation' = [v \in Upload |-> operation'[v]] /\ draft' = [v \in Upload |-> draft'[v]]
    BY DEF Tidied, Cascaded
<1>3. Rows' /\ House'
    BY <1>1, <1>2 DEF Sane, Rows, House, Resting
<1> QED
    BY <1>1, <1>3 DEF Sane

\* What a new round finds is live and due, or dead.
LEMMA RoundIsFound ==
    ASSUME Sane
    PROVE  /\ Round.closes \subseteq Upload /\ Round.deletes \subseteq Upload
           /\ Round.expires \subseteq Round.closes
           /\ \A u \in Round.closes : Live(u) /\ operation[u].due /\ at[u] # "new"
           /\ \A u \in Round.deletes : ~Live(u) /\ at[u] # "new"
<1>1. Round.closes = StaleOperations /\ Round.deletes = DueDrafts
      /\ Round.expires = {u \in StaleOperations : draft[u].due}
    BY DEF Round
<1>2. \A u \in StaleOperations : u \in Upload /\ Live(u) /\ operation[u].due /\ at[u] # "new"
    BY DEF StaleOperations, Sane, Sound, Live, NoOperation
<1>3. \A u \in DueDrafts : u \in Upload /\ ~Live(u) /\ at[u] # "new"
    BY DEF DueDrafts, Sane, Sound, LiveOnDraft, Live
<1> QED
    BY <1>1, <1>2, <1>3

LEMMA NextIsSound == ASSUME Sane, [Next]_vars PROVE Sane'
<1>1. CASE \E u \in Upload : UploadNext(u)
    BY <1>1, RequestIsSound
<1>2. ASSUME NEW u \in Upload, OperationDue(u) PROVE Sane'
    <2> DEFINE row == [operation[u] EXCEPT !.due = TRUE]
    <2>1. /\ operation' = [operation EXCEPT ![u] = row] /\ Live(u)
          /\ UNCHANGED <<draft, history, at, reply, house, frozen>>
        BY <1>2 DEF OperationDue
    <2>2. operation[u] \in Operation
        BY DEF Sane, Rows
    <2>3. row \in Operation /\ row.state = operation[u].state /\ row.scope = operation[u].scope
          /\ row.due
        BY <2>2 DEF Operation
    <2> HIDE DEF row
    <2>4. \A v \in Upload : v # u => Same(v)
        BY <2>1 DEF Sane, Rows, Same
    <2>5. operation'[u] = row
        BY <2>1 DEF Sane, Rows
    <2>6. at[u] # "new" /\ reply[u] # "created"
        BY <2>1 DEF Sane, Sound, Live, NoOperation
    <2>7. Sound(u)'
        BY <2>1, <2>3, <2>5, <2>6 DEF Sane, Sound, Live, LiveOnDraft, HasDraft
    <2>8. Rows' /\ House'
        BY <2>1, <2>3 DEF Sane, Rows, House
    <2> QED
        BY <2>4, <2>7, <2>8, SameIsSound DEF Sane
<1>3. ASSUME NEW u \in Upload, DraftDue(u) PROVE Sane'
    <2> DEFINE d == [draft[u] EXCEPT !.due = TRUE]
    <2>1. /\ draft' = [draft EXCEPT ![u] = d]
          /\ UNCHANGED <<operation, history, at, reply, house, frozen>>
        BY <1>3 DEF DraftDue
    <2>2. draft[u] \in Draft
        BY DEF Sane, Rows
    <2>3. d \in Draft /\ d.state = draft[u].state /\ d.owned = draft[u].owned
          /\ d.file = draft[u].file
        BY <2>2 DEF Draft
    <2> HIDE DEF d
    <2>4. \A v \in Upload : v # u => Same(v)
        BY <2>1 DEF Sane, Rows, Same
    <2>5. draft'[u] = d
        BY <2>1 DEF Sane, Rows
    <2>6. Sound(u)'
        BY <2>1, <2>3, <2>5 DEF Sane, Sound, Live, LiveOnDraft, HasDraft
    <2>7. Rows' /\ House'
        BY <2>1, <2>3 DEF Sane, Rows, House
    <2> QED
        BY <2>4, <2>6, <2>7, SameIsSound DEF Sane
<1>4. CASE HouseStarts
    <2>1. CASE \E u \in DueDrafts : draft[u].file
        <3>1. house' = Round /\ UNCHANGED <<operation, draft, history, at, reply, frozen>>
            BY <1>4, <2>1 DEF HouseStarts
        <3>2. Rows'
            BY <3>1 DEF Sane, Rows
        <3>3. House'
            BY <3>1, RoundIsFound DEF Sane, House, Round
        <3>4. \A v \in Upload : Sound(v)'
            BY <3>1, RoundIsFound DEF Sane, Sound, Live, LiveOnDraft, HasDraft
        <3> QED
            BY <3>2, <3>3, <3>4 DEF Sane
    <2>2. CASE ~ \E u \in DueDrafts : draft[u].file
        <3>1. Tidied(Round) /\ house = Resting /\ house' = Resting
              /\ UNCHANGED <<history, at, reply, frozen>>
            BY <1>4, <2>2 DEF HouseStarts
        <3> HIDE DEF Round
        <3> QED
            BY <3>1, RoundIsFound, TidiedIsSound
    <2> QED
        BY <2>1, <2>2
<1>5. CASE HouseCommits
    <2>1. Tidied(house) /\ house' = Resting /\ UNCHANGED <<history, at, reply, frozen>>
        BY <1>5 DEF HouseCommits
    <2>2. /\ house.closes \subseteq Upload /\ house.expires \subseteq house.closes
          /\ \A u \in house.closes : Live(u) /\ operation[u].due
          /\ \A u \in house.deletes : ~Live(u) /\ at[u] # "new"
        BY DEF Sane, House, Sound
    <2> QED
        BY <2>1, <2>2, TidiedIsSound
<1>6. CASE Crash
    <2>1. /\ at' = [u \in Upload |-> IF at[u] = "new" THEN "new" ELSE "over"]
          /\ house' = Resting /\ frozen' = FALSE
          /\ UNCHANGED <<operation, draft, history, reply>>
        BY <1>6 DEF Crash
    <2>2. Rows' /\ House'
        BY <2>1 DEF Sane, Rows, House, Resting
    <2>3. \A v \in Upload : v \notin house'.closes /\ v \notin house'.deletes
        BY <2>1 DEF Resting
    <2>4. \A v \in Upload : Sound(v)'
        BY <2>1, <2>3 DEF Sane, Sound, Live, LiveOnDraft, HasDraft
    <2> QED
        BY <2>2, <2>4 DEF Sane
<1>7. CASE UNCHANGED vars
    BY <1>7, SameIsSound DEF vars, Sane, Rows, House, Same
<1> QED
    BY <1>1, <1>2, <1>3, <1>4, <1>5, <1>6, <1>7 DEF Next

-----------------------------------------------------------------------------
(* Theorems *)

LEMMA InitIInv == Init => IInv
<1> SUFFICES ASSUME Init PROVE IInv
    OBVIOUS
<1>1. NoOperation \in Operation /\ NoDraft \in Draft /\ NoHistory \in History
    BY DEF NoOperation, NoDraft, NoHistory, Operation, Draft, History
<1>2. Rows /\ House
    BY <1>1 DEF Init, Rows, House, Resting
<1>3. \A u \in Upload : Sound(u)
    BY DEF Init, Sound, Live, LiveOnDraft, HasDraft, NoOperation, NoDraft, NoHistory, Resting
<1> QED
    BY <1>2, <1>3, Pointwise

LEMMA NextIInv == IInv /\ [Next]_vars => IInv'
<1>1. IInv <=> Sane
    BY Pointwise DEF Sane
<1>2. IInv' <=> Sane'
    BY Pointwise, PTL DEF Sane
<1> QED
    BY <1>1, <1>2, NextIsSound

THEOREM Invariance == Spec => []IInv
<1> QED
    BY InitIInv, NextIInv, PTL DEF Spec

\* TypeOK of the runs, for any set of uploads; an operation has exactly one scope.
THEOREM TypeCorrect == Spec => []TypeOK
<1>1. IInv => TypeOK
    BY DEF IInv
<1> QED
    BY <1>1, Invariance, PTL

\* DeadUploadsYield of the runs, for any set of uploads: the recovery in
\* begin_draft_operation always finds the upload that is in the way.
THEOREM NoUploadIsBlocked == Spec => []DeadUploadsYield
<1>1. IInv => DeadUploadsYield
    BY DEF IInv
<1> QED
    BY <1>1, Invariance, PTL

\* AnswerIsTrue of the runs, for any set of uploads, through housekeeping and crashes.
THEOREM AnswersStayTrue == Spec => []AnswerIsTrue
<1>1. IInv => AnswerIsTrue
    BY DEF IInv, AnswerStays
<1> QED
    BY <1>1, Invariance, PTL
=============================================================================
