--------------------------- MODULE StoredFiles_proofs ---------------------------
(***************************************************************************)
(* What the stored files keep, for any holders, providers, requests, chores *)
(* and faults, and any bounds on the ids.                                  *)
(*                                                                         *)
(* A clean-up decides on what it read before it awaited the providers.     *)
(* That is safe because of the lock it keeps on the row (Lawful): there is *)
(* at most one row (OneRow), so as long as somebody holds the lock nobody  *)
(* else attaches, detaches or deletes anything: they freeze.               *)
(*                                                                         *)
(* The copies of the providers need more: that nobody else has the copies  *)
(* an attachment makes (Apart), which holds as long as no operation        *)
(* expires and gives its holder to another; that a send still finds what   *)
(* it has verified or made (Founded); and, when nothing but uploads fails, *)
(* that whatever a coroutine has in hand agrees with the rows and with the *)
(* providers (Followed).                                                   *)
(***************************************************************************)
EXTENDS AttachmentMaintenance, TLAPS

\* A task that keeps the lock of its row (Locks of the model, of what it has in hand).
Holding(w) == w.at \in {"deleting", "deleted", "batch"}

OneRow == \A f, g \in Rows : f = g

\* What a task has in hand names a row id, and the holder it works for.
Placed(w) ==
    w.at # "idle" =>
        /\ w.file \in File
        /\ w.kind \in {"attach", "send", "remove", "discard"} => w.holder \in Holder
        /\ w.at \in {"uploading", "uploaded", "undoing", "checking", "answered"} =>
              w.kind \in {"attach", "send"}

\* A clean-up that holds the lock still finds what it has read: the row, the attachment
\* it removes, and whether there are others.
Lawful(w) ==
    Holding(w) =>
        /\ w.file \in Rows
        /\ w.kind \in {"remove", "discard", "retry"}
        /\ IF w.kind = "retry" THEN w.holder = NoHolder
           ELSE w.holder \in Holder /\ holds[w.holder] = w.file
        /\ w.at = "batch" => w.verdict \in {"keep", "drop", "fail"}
        /\ w.at # "batch" \/ w.verdict # "keep" => References(w.file) \subseteq {w.holder}
        /\ w.at = "batch" /\ w.verdict = "keep" => References(w.file) \ {w.holder} # {}

FilesInv ==
    /\ TypeOK
    /\ OneRow
    /\ ActiveIffAttached
    /\ \A t \in Task : Placed(work[t]) /\ Lawful(work[t])
    /\ \A t, u \in Task : Holding(work[t]) /\ Holding(work[u]) => t = u

\* What every step does: it keeps the invariant, and is a step of SharedFile or stutters.
Keeps == FilesInv' /\ [Shared!SharedNext]_(Shared!sharedVars)

-----------------------------------------------------------------------------
(* Types *)

\* The copies that a coroutine which dies has made or deleted are copies all the same.
LEMMA AbandonedTyped ==
    ASSUME TypeOK, NEW t \in Task, NEW r, Abandoned(t, r)
    PROVE  r \in [Provider -> SUBSET (1 .. MaxCopy)]
<1>1. CASE work[t].at = "uploading"
  <2>1. PICK landed \in SUBSET work[t].todo, new \in Copies :
            r = [p \in Provider |-> remote[p] \cup ({new[p]} \ {0})]
    BY <1>1 DEF Abandoned
  <2> QED BY <2>1, StoredFilesAssumption DEF Copies, TypeOK
<1>2. CASE work[t].at \in {"deleting", "undoing"}
  <2>1. PICK done \in SUBSET Named(work[t].copy) :
            r = [p \in Provider |-> IF p \in done THEN remote[p] \ {work[t].copy[p]}
                                    ELSE remote[p]]
    BY <1>2 DEF Abandoned
  <2> QED BY <2>1 DEF TypeOK
<1>3. CASE work[t].at \notin {"uploading", "deleting", "undoing"}
  <2>1. r = remote
    BY <1>3 DEF Abandoned
  <2> QED BY <2>1 DEF TypeOK
<1> QED BY <1>1, <1>2, <1>3

\* Forgetting ids leaves a record of ids.
LEMMA WithoutTyped ==
    ASSUME NEW c \in Copies, NEW S
    PROVE  Without(c, S) \in Copies
BY StoredFilesAssumption DEF Without, Copies

Stages == {"idle", "uploading", "uploaded", "undoing", "checking", "answered",
           "deleting", "deleted", "batch", "sweeping"}

\* What a task has in hand moves on: where it stands, what it decided, what it holds.
LEMMA Moved ==
    ASSUME NEW w \in Work
    PROVE  /\ \A at \in Stages :
                 [w EXCEPT !.at = at] \in Work
           /\ \A at \in Stages, copy \in Copies :
                 [w EXCEPT !.at = at, !.copy = copy] \in Work
           /\ \A at \in Stages, failed \in SUBSET Provider :
                 [w EXCEPT !.at = at, !.failed = failed] \in Work
           /\ \A at \in Stages, failed \in SUBSET Provider, copy \in Copies :
                 [w EXCEPT !.at = at, !.failed = failed, !.copy = copy] \in Work
           /\ \A verdict \in {"none", "keep", "fail", "drop"} :
                 [w EXCEPT !.verdict = verdict] \in Work
<1>1. ASSUME NEW at \in Stages PROVE [w EXCEPT !.at = at] \in Work
  BY DEF Work, Stages
<1>2. ASSUME NEW at \in Stages, NEW copy \in Copies PROVE [w EXCEPT !.at = at, !.copy = copy] \in Work
  BY DEF Work, Stages
<1>3. ASSUME NEW at \in Stages, NEW failed \in SUBSET Provider
      PROVE  [w EXCEPT !.at = at, !.failed = failed] \in Work
  BY DEF Work, Stages
<1>4. ASSUME NEW at \in Stages, NEW failed \in SUBSET Provider, NEW copy \in Copies
      PROVE  [w EXCEPT !.at = at, !.failed = failed, !.copy = copy] \in Work
  BY DEF Work, Stages
<1>5. ASSUME NEW verdict \in {"none", "keep", "fail", "drop"}
      PROVE  [w EXCEPT !.verdict = verdict] \in Work
  BY DEF Work
<1> QED BY <1>1, <1>2, <1>3, <1>4, <1>5

LEMMA IdleTyped == Idle \in Work /\ ~Holding(Idle) /\ Placed(Idle) /\ Lawful(Idle)
BY StoredFilesAssumption DEF Idle, Work, Holding, Placed, Lawful, NoCopies, Copies

\* A send that uploads another copy has what it had, without the id that led nowhere.
LEMMA SendReuploadsIs ==
    ASSUME NEW t, work[t] \in Work, SendReuploads(t)
    PROVE  \E w \in Work :
              /\ Becomes(t, w) /\ w.at = "uploading" /\ w.kind = work[t].kind
              /\ w.holder = work[t].holder /\ w.file = work[t].file /\ w.late = work[t].late
              /\ w.copy = NoCopies
<1> DEFINE w == [work[t] EXCEPT !.at = "uploading", !.failed = {}, !.copy = NoCopies,
                                !.verdict = "keep"]
<1>1. NoCopies \in Copies
  BY StoredFilesAssumption DEF NoCopies, Copies
<1>2. w \in Work
  <2>1. \A copy \in Copies :
           [work[t] EXCEPT !.at = "uploading", !.failed = {}, !.copy = copy,
                           !.verdict = "keep"] \in Work
    BY DEF Work
  <2> QED BY <1>1, <2>1
<1>3. /\ w.at = "uploading" /\ w.kind = work[t].kind /\ w.holder = work[t].holder
      /\ w.file = work[t].file /\ w.late = work[t].late /\ w.copy = NoCopies
  BY DEF Work
<1>4. Becomes(t, w)
  BY DEF SendReuploads
<1> HIDE DEF w
<1> QED BY <1>2, <1>3, <1>4

\* A send that is too late has the copies that are new to delete, or has ended.
LEMMA SendUndoesIs ==
    ASSUME NEW t, work[t] \in Work, SendUndoes(t)
    PROVE  \/ Ends(t)
           \/ \E w \in Work :
                /\ Becomes(t, w) /\ w.at = "undoing" /\ w.kind = work[t].kind
                /\ w.holder = work[t].holder /\ w.file = work[t].file
<1> DEFINE new == NewlyUploaded(work[t])
           w == [work[t] EXCEPT !.at = "undoing", !.copy = new, !.verdict = "none"]
<1>1. new \in Copies
  BY WithoutTyped DEF NewlyUploaded, Work
<1>2. Ends(t) \/ Becomes(t, w)
  BY DEF SendUndoes
<1> HIDE DEF new
<1>3. w \in Work
  <2>1. \A copy \in Copies :
           [work[t] EXCEPT !.at = "undoing", !.copy = copy, !.verdict = "none"] \in Work
    BY DEF Work
  <2> QED BY <1>1, <2>1
<1>4. /\ w.at = "undoing" /\ w.kind = work[t].kind /\ w.holder = work[t].holder
      /\ w.file = work[t].file
  BY DEF Work
<1> HIDE DEF w
<1> QED BY <1>2, <1>3, <1>4

-----------------------------------------------------------------------------
(* The three kinds of steps *)

\* A step that changes no attachment and no state of a row, and after which a task has
\* something lawful in hand: it leaves the promise of SharedFile alone.
LEMMA QuietKeeps ==
    ASSUME FilesInv, NEW t \in Task, NEW w \in Work, Becomes(t, w),
           row' \in [File -> StoredFile], \A f \in File : row'[f].state = row[f].state,
           UNCHANGED holds, remote' \in [Provider -> SUBSET (1 .. MaxCopy)],
           frozen' \in BOOLEAN, Placed(w), Lawful(w),
           Holding(w) => \A u \in Task \ {t} : ~Holding(work[u])
    PROVE  Keeps
<1>1. /\ Rows' = Rows /\ UNCHANGED Attached
      /\ \A f \in File : References(f)' = References(f)
  BY DEF Rows, Present, Attached, References
<1>2. work' \in [Task -> Work] /\ work'[t] = w /\ \A u \in Task \ {t} : work'[u] = work[u]
  BY DEF FilesInv, TypeOK, Becomes
<1>3. TypeOK'
  BY <1>2 DEF TypeOK, FilesInv
<1>4. OneRow' /\ ActiveIffAttached'
  <2>1. \A h \in Holder : holds[h] # 0 => holds[h] \in File
    BY StoredFilesAssumption DEF FilesInv, TypeOK, File
  <2>2. \A h \in Holder : holds'[h] # 0 => row'[holds'[h]].state = "active"
    BY <2>1 DEF FilesInv, ActiveIffAttached
  <2>3. \A f \in Rows' : References(f)' = {} => row'[f].state = "delete_failed"
    BY <1>1 DEF FilesInv, ActiveIffAttached, Rows
  <2> QED BY <1>1, <2>2, <2>3 DEF FilesInv, OneRow, ActiveIffAttached
<1>5. ASSUME NEW v \in Work, Lawful(v)
      PROVE  Holding(v) =>
                /\ v.file \in Rows'
                /\ v.kind \in {"remove", "discard", "retry"}
                /\ IF v.kind = "retry" THEN v.holder = NoHolder
                   ELSE v.holder \in Holder /\ holds'[v.holder] = v.file
                /\ v.at = "batch" => v.verdict \in {"keep", "drop", "fail"}
                /\ v.at # "batch" \/ v.verdict # "keep" =>
                      References(v.file) \subseteq {v.holder}
                /\ v.at = "batch" /\ v.verdict = "keep" =>
                      References(v.file) \ {v.holder} # {}
  BY <1>1, <1>5 DEF Lawful
<1>6. ASSUME NEW u \in Task PROVE Placed(work[u])' /\ Lawful(work[u])'
  <2>1. work'[u] \in Work /\ Placed(work'[u]) /\ Lawful(work'[u])
    BY <1>2 DEF FilesInv, TypeOK
  <2>2. Placed(work[u])'
    BY <2>1 DEF Placed
  <2>3. Lawful(work[u])'
    BY <2>1, <1>5, <1>1 DEF Lawful, Rows, References, Holding
  <2> QED BY <2>2, <2>3
<1>7. \A u, v \in Task : Holding(work'[u]) /\ Holding(work'[v]) => u = v
  BY <1>2 DEF FilesInv
<1>8. FilesInv'
  BY <1>3, <1>4, <1>6, <1>7 DEF FilesInv, Holding
<1> QED BY <1>1, <1>8 DEF Keeps, Shared!sharedVars

\* A step that leaves what the tasks have in hand alone, too.
LEMMA StillKeeps ==
    ASSUME FilesInv, UNCHANGED work, row' \in [File -> StoredFile],
           \A f \in File : row'[f].state = row[f].state,
           UNCHANGED holds, remote' \in [Provider -> SUBSET (1 .. MaxCopy)],
           frozen' \in BOOLEAN
    PROVE  Keeps
<1>1. House \in Task /\ work[House] \in Work
  BY DEF Task, FilesInv, TypeOK
<1>2. Becomes(House, work[House])
  BY <1>1 DEF Becomes, FilesInv, TypeOK
<1>3. Placed(work[House]) /\ Lawful(work[House])
  BY <1>1 DEF FilesInv
<1>4. Holding(work[House]) => \A u \in Task \ {House} : ~Holding(work[u])
  BY <1>1 DEF FilesInv
<1> QED BY <1>1, <1>2, <1>3, <1>4, QuietKeeps

\* A task ends by changing the row or an attachment: nobody else holds the lock.
LEMMA LoudKeeps ==
    ASSUME FilesInv, NEW t \in Task, Ends(t),
           \A u \in Task \ {t} : ~Holding(work[u]),
           row' \in [File -> StoredFile], holds' \in [Holder -> 0 .. MaxFile],
           remote' \in [Provider -> SUBSET (1 .. MaxCopy)], frozen' \in BOOLEAN,
           OneRow', ActiveIffAttached'
    PROVE  FilesInv'
<1>1. work' \in [Task -> Work] /\ work'[t] = Idle /\ \A u \in Task \ {t} : work'[u] = work[u]
  BY IdleTyped DEF FilesInv, TypeOK, Ends, Becomes
<1>2. TypeOK'
  BY <1>1 DEF TypeOK
<1>3. \A u \in Task : ~Holding(work'[u]) /\ Placed(work'[u])
  BY <1>1, IdleTyped DEF FilesInv
<1>4. \A u \in Task : (Placed(work[u]) /\ Lawful(work[u]))'
  BY <1>3 DEF Lawful, Placed, Holding
<1>5. \A u, v \in Task : (Holding(work[u]) /\ Holding(work[v]) => u = v)'
  BY <1>3 DEF Holding
<1> QED BY <1>2, <1>4, <1>5 DEF FilesInv

-----------------------------------------------------------------------------
(* The row and its lock *)

\* A row that is not locked by anybody else: nobody else holds the lock.
LEMMA NobodyElse ==
    ASSUME FilesInv, NEW t \in Task, NEW f \in Rows, ~Locked(t, f)
    PROVE  \A u \in Task \ {t} : ~Holding(work[u])
BY DEF FilesInv, Lawful, Locked, Locks, Holding, OneRow

\* Everything that is attached is attached to the one row there is.
LEMMA AttachedToRow ==
    ASSUME FilesInv, NEW f \in Rows, NEW h \in Holder
    PROVE  holds[h] = 0 \/ (holds[h] = f /\ row[f].state = "active")
<1>1. CASE holds[h] # 0
  <2>1. holds[h] \in File /\ row[holds[h]].state = "active"
    BY <1>1, StoredFilesAssumption DEF FilesInv, ActiveIffAttached, TypeOK, File
  <2>2. holds[h] \in Rows
    BY <2>1 DEF Rows, Present
  <2> QED BY <2>1, <2>2 DEF FilesInv, OneRow
<1> QED BY <1>1

\* Nothing is attached to no row.
LEMMA NoRowNoHolder ==
    ASSUME FilesInv, Rows = {}, NEW h \in Holder
    PROVE  holds[h] = 0
BY StoredFilesAssumption DEF FilesInv, ActiveIffAttached, TypeOK, File, Rows, Present

-----------------------------------------------------------------------------
(* Attaching *)

\* A task that takes up the row of content the user has already, nobody holding its
\* lock: the row becomes active, and the holder is attached to it.
LEMMA TakingUpKeeps ==
    ASSUME FilesInv, NEW t \in Task, NEW h \in Holder, holds[h] = 0, NEW f \in Rows,
           ~Locked(t, f), Ends(t),
           holds' = [holds EXCEPT ![h] = f], row' = [row EXCEPT ![f].state = "active"],
           remote' \in [Provider -> SUBSET (1 .. MaxCopy)], UNCHANGED frozen
    PROVE  Keeps
<1>1. f \in File /\ f \in 0 .. MaxFile /\ f # 0
  BY StoredFilesAssumption DEF Rows, File
<1>2. /\ row' \in [File -> StoredFile] /\ row'[f].state = "active"
      /\ \A g \in File \ {f} : row'[g] = row[g]
  BY <1>1 DEF FilesInv, TypeOK, StoredFile
<1>3. holds' \in [Holder -> 0 .. MaxFile] /\ holds'[h] = f
  BY <1>1 DEF FilesInv, TypeOK
<1>4. \A k \in Holder \ {h} : holds'[k] = holds[k]
  BY DEF FilesInv, TypeOK
<1>5. Rows' = Rows
  BY <1>1, <1>2 DEF Rows, Present
<1>6. \A k \in Holder : holds'[k] = 0 \/ holds'[k] = f
  BY <1>3, <1>4, AttachedToRow
<1>7. OneRow'
  BY <1>5 DEF OneRow, FilesInv
<1>8. ActiveIffAttached'
  <2>1. \A k \in Holder : holds'[k] # 0 => row'[holds'[k]].state = "active"
    BY <1>2, <1>6
  <2>2. ASSUME NEW g \in Rows' PROVE h \in {k \in Holder : holds'[k] = g}
    BY <1>3, <1>5 DEF FilesInv, OneRow
  <2> QED BY <2>1, <2>2 DEF ActiveIffAttached, References
<1>9. FilesInv'
  BY <1>2, <1>3, <1>7, <1>8, NobodyElse, LoudKeeps DEF FilesInv, TypeOK
<1>10. Shared!Attach(h)
  <2>1. h \notin Attached /\ Attached' = Attached \cup {h}
    BY <1>1, <1>3, <1>4 DEF Attached
  <2> QED BY <2>1, <1>5 DEF Shared!Attach
<1> QED BY <1>9, <1>10 DEF Keeps, Shared!SharedNext

\* The insert of a row, where the user has none.
LEMMA InsertKeeps ==
    ASSUME FilesInv, NEW t \in Task, NEW h \in Holder, NEW f \in File, Rows = {},
           NEW c \in Copies, Ends(t),
           row' = [row EXCEPT ![f] = [state |-> "active", copy |-> c, stale |-> {}]],
           holds' = [holds EXCEPT ![h] = f], UNCHANGED <<remote, frozen>>
    PROVE  Keeps
<1>1. f \in 0 .. MaxFile /\ f # 0
  BY StoredFilesAssumption DEF File
<1>2. /\ row' \in [File -> StoredFile] /\ row'[f].state = "active"
      /\ \A g \in File \ {f} : row'[g] = row[g]
  BY DEF FilesInv, TypeOK, StoredFile
<1>3. holds' \in [Holder -> 0 .. MaxFile] /\ holds'[h] = f
  BY <1>1 DEF FilesInv, TypeOK
<1>4. \A k \in Holder \ {h} : holds'[k] = holds[k] /\ holds[k] = 0
  BY NoRowNoHolder DEF FilesInv, TypeOK
<1>5. Rows' = {f}
  BY <1>2 DEF Rows, Present
<1>6. OneRow' /\ ActiveIffAttached'
  <2>1. \A k \in Holder : holds'[k] # 0 => row'[holds'[k]].state = "active"
    BY <1>2, <1>3, <1>4
  <2>2. h \in {k \in Holder : holds'[k] = f}
    BY <1>3
  <2> QED BY <1>5, <2>1, <2>2 DEF OneRow, ActiveIffAttached, References
<1>7. \A u \in Task : ~Holding(work[u])
  BY DEF FilesInv, Lawful
<1>8. FilesInv'
  BY <1>2, <1>3, <1>6, <1>7, LoudKeeps DEF FilesInv, TypeOK
<1>9. Shared!Attach(h)
  <2>1. h \notin Attached /\ Attached' = Attached \cup {h}
    BY <1>1, <1>3, <1>4, NoRowNoHolder DEF Attached
  <2> QED BY <2>1, <1>5 DEF Shared!Attach
<1> QED BY <1>8, <1>9 DEF Keeps, Shared!SharedNext

\* The loop freezes: nothing else changes.
LEMMA FreezesKeeps == FilesInv /\ Freezes => Keeps
<1> SUFFICES ASSUME FilesInv, Freezes PROVE Keeps
  OBVIOUS
<1> QED BY StillKeeps DEF Freezes, FilesInv, TypeOK

\* A request that goes on with something other than a clean-up in hand.
LEMMA RequestKeeps ==
    ASSUME FilesInv, NEW t \in Task, NEW w \in Work, Becomes(t, w),
           UNCHANGED <<row, holds, frozen>>,
           remote' \in [Provider -> SUBSET (1 .. MaxCopy)],
           w.at \in {"idle", "uploading", "uploaded", "undoing", "checking", "answered",
                     "sweeping"},
           Placed(w)
    PROVE  Keeps
<1>1. ~Holding(w) /\ Lawful(w)
  BY DEF Holding, Lawful
<1> QED BY <1>1, QuietKeeps DEF FilesInv, TypeOK

LEMMA AttachKnownKeeps ==
    ASSUME FilesInv, NEW t \in Request, NEW h \in Holder, AttachKnown(t, h)
    PROVE  Keeps
<1>1. PICK f \in Rows : Reuses(t, h, f)
  BY DEF AttachKnown
<1>2. CASE Locked(t, f)
  BY <1>1, <1>2, FreezesKeeps DEF Reuses
<1>3. CASE ~Locked(t, f)
  <2>1. t \in Task /\ holds[h] = 0
    BY DEF AttachKnown, Task
  <2>2. /\ holds' = [holds EXCEPT ![h] = f] /\ row' = [row EXCEPT ![f].state = "active"]
        /\ Ends(t) /\ UNCHANGED <<remote, frozen>>
    BY <1>1, <1>3 DEF Reuses
  <2> QED BY <1>3, <2>1, <2>2, TakingUpKeeps DEF FilesInv, TypeOK
<1> QED BY <1>2, <1>3

LEMMA AttachNewKeeps ==
    ASSUME FilesInv, NEW t \in Request, NEW h \in Holder, AttachNew(t, h)
    PROVE  Keeps
<1>1. PICK f \in File :
        Becomes(t, [Idle EXCEPT !.at = "uploading", !.kind = "attach", !.holder = h,
                                !.file = f, !.todo = Provider])
  BY DEF AttachNew
<1> DEFINE w == [Idle EXCEPT !.at = "uploading", !.kind = "attach", !.holder = h,
                             !.file = f, !.todo = Provider]
<1>2. w \in Work /\ Placed(w) /\ w.at = "uploading"
  <2>1. f \in 0 .. MaxFile
    BY StoredFilesAssumption DEF File
  <2>2. w \in Work /\ w.at = "uploading"
    BY <2>1, IdleTyped DEF Work
  <2>3. w.kind = "attach" /\ w.holder = h /\ w.file = f
    BY <2>1, IdleTyped DEF Work
  <2> HIDE DEF w
  <2> QED BY <2>2, <2>3 DEF Placed
<1> QED BY <1>1, <1>2, RequestKeeps DEF AttachNew, Task, FilesInv, TypeOK

LEMMA CopiesArriveKeeps ==
    ASSUME FilesInv, NEW t \in Task, CopiesArrive(t)
    PROVE  Keeps
<1>1. PICK bad \in MayFail("upload", work[t].todo), new \in Copies :
        /\ remote' = [p \in Provider |-> remote[p] \cup ({new[p]} \ {0})]
        /\ Becomes(t, [work[t] EXCEPT !.at = "uploaded", !.failed = bad,
                                      !.copy = Without(new, bad)])
  BY DEF CopiesArrive
<1> DEFINE w == [work[t] EXCEPT !.at = "uploaded", !.failed = bad,
                                !.copy = Without(new, bad)]
<1>2. work[t] \in Work /\ Placed(work[t]) /\ work[t].at = "uploading"
  BY DEF FilesInv, TypeOK, CopiesArrive
<1>3. bad \in SUBSET Provider
  BY <1>2 DEF MayFail, Work
<1>4. w \in Work /\ Placed(w) /\ w.at = "uploaded"
  BY <1>2, <1>3, WithoutTyped DEF Work, Placed
<1>5. remote' \in [Provider -> SUBSET (1 .. MaxCopy)]
  BY <1>1, StoredFilesAssumption DEF Copies, FilesInv, TypeOK
<1> QED BY <1>1, <1>4, <1>5, RequestKeeps DEF CopiesArrive

LEMMA AttachResumesKeeps ==
    ASSUME FilesInv, NEW t \in Request, AttachResumes(t)
    PROVE  Keeps
<1> DEFINE f == work[t].file
           h == work[t].holder
<1>1. /\ t \in Task /\ work[t] \in Work /\ Placed(work[t])
      /\ work[t].at = "uploaded" /\ work[t].kind = "attach"
  BY DEF FilesInv, TypeOK, AttachResumes, Task
<1>2. f \in File /\ h \in Holder /\ work[t].copy \in Copies
  BY <1>1 DEF Placed, Work
<1>3. CASE work[t].failed = {} /\ \E g \in Rows : Deleted(t, g)
  BY <1>3, FreezesKeeps DEF AttachResumes
<1>4. CASE Rows = {} /\ /\ row' = [row EXCEPT ![f] = [state |-> "active",
                                                    copy |-> work[t].copy, stale |-> {}]]
                        /\ holds' = [holds EXCEPT ![h] = f]
                        /\ Ends(t) /\ UNCHANGED <<remote, frozen>>
  <2> HIDE DEF f, h
  <2> QED BY <1>1, <1>2, <1>4, InsertKeeps
<1>5. CASE UndoesCopies(t, work[t].failed = {} /\ Rows # {}) /\ UNCHANGED <<row, holds, remote, frozen>>
  <2>1. PICK v \in {"keep", "none"} : Becomes(t, [work[t] EXCEPT !.at = "undoing", !.verdict = v])
    BY <1>5 DEF UndoesCopies
  <2> DEFINE w == [work[t] EXCEPT !.at = "undoing", !.verdict = v]
  <2>2. w \in Work /\ Placed(w) /\ w.at = "undoing"
    BY <1>1 DEF Work, Placed
  <2> QED BY <1>1, <1>5, <2>1, <2>2, RequestKeeps DEF FilesInv, TypeOK
<1> QED BY <1>3, <1>4, <1>5 DEF AttachResumes

LEMMA UndoesKeeps ==
    ASSUME FilesInv, NEW t \in Request, Undoes(t)
    PROVE  Keeps
<1> DEFINE h == work[t].holder
<1>1. /\ t \in Task /\ work[t] \in Work /\ Placed(work[t]) /\ work[t].at = "undoing"
  BY DEF FilesInv, TypeOK, Undoes, Task
<1>2. h \in Holder
  BY <1>1 DEF Placed
<1>3. remote' \in [Provider -> SUBSET (1 .. MaxCopy)]
  BY DEF Undoes, FilesInv, TypeOK
<1>4. CASE frozen' = TRUE /\ UNCHANGED <<row, holds, work>>
  BY <1>3, <1>4, StillKeeps DEF FilesInv, TypeOK
<1>5. CASE Ends(t) /\ UNCHANGED <<row, holds, frozen>>
  BY <1>1, <1>3, <1>5, IdleTyped, RequestKeeps DEF Ends, Idle
<1>6. CASE holds[h] = 0 /\ \E f \in Rows :
              /\ ~Locked(t, f) /\ holds' = [holds EXCEPT ![h] = f]
              /\ row' = [row EXCEPT ![f].state = "active"]
              /\ Ends(t) /\ UNCHANGED frozen
  <2>1. PICK f \in Rows :
              /\ ~Locked(t, f) /\ holds' = [holds EXCEPT ![h] = f]
              /\ row' = [row EXCEPT ![f].state = "active"]
              /\ Ends(t) /\ UNCHANGED frozen
    BY <1>6
  <2> HIDE DEF h
  <2> QED BY <1>1, <1>2, <1>3, <1>6, <2>1, TakingUpKeeps
<1> QED BY <1>4, <1>5, <1>6 DEF Undoes

-----------------------------------------------------------------------------
(* Sending *)

LEMMA SendStartsKeeps ==
    ASSUME FilesInv, NEW t \in Request, NEW h \in Holder, NEW p \in Provider,
           SendStarts(t, h, p)
    PROVE  Keeps
<1> DEFINE copy == [NoCopies EXCEPT ![p] = row[holds[h]].copy[p]]
           at == IF copy[p] = 0 THEN "uploading" ELSE "checking"
           w == [Idle EXCEPT !.at = at, !.kind = "send", !.holder = h, !.file = holds[h],
                             !.copy = copy, !.todo = {p}]
<1>1. holds[h] \in File /\ holds[h] \in 0 .. MaxFile
  BY StoredFilesAssumption DEF SendStarts, FilesInv, TypeOK, File
<1>2. row[holds[h]].copy \in Copies
  BY <1>1 DEF FilesInv, TypeOK, StoredFile
<1>3. copy \in Copies
  BY <1>2, StoredFilesAssumption DEF NoCopies, Copies
<1>4. w \in Work /\ Placed(w) /\ w.at \in {"uploading", "checking"}
  <2>1. at \in {"uploading", "checking"}
    OBVIOUS
  <2> HIDE DEF at, copy
  <2> QED BY <1>1, <1>3, <2>1, IdleTyped DEF Idle, Work, Placed
<1>5. Becomes(t, w) /\ UNCHANGED <<row, holds, remote, frozen>>
  BY DEF SendStarts
<1> HIDE DEF w
<1> QED BY <1>4, <1>5, RequestKeeps DEF Task, FilesInv, TypeOK

\* The provider answers, and the request goes on, ends or undoes: none of it touches
\* the row or its attachments.
LEMMA SendMovesKeeps ==
    ASSUME FilesInv, NEW t \in Task,
           CheckAnswers(t) \/ SendReuploads(t) \/ SendFails(t) \/ SendUndoes(t)
    PROVE  Keeps
<1>1. work[t] \in Work /\ Placed(work[t])
  BY DEF FilesInv, TypeOK
<1>2. remote' \in [Provider -> SUBSET (1 .. MaxCopy)] /\ UNCHANGED <<row, holds, frozen>>
  BY DEF CheckAnswers, SendReuploads, SendFails, SendUndoes, FilesInv, TypeOK
<1>3. CASE CheckAnswers(t)
  <2>1. PICK S \in SUBSET Provider :
           Becomes(t, [work[t] EXCEPT !.at = "answered", !.failed = S])
    BY <1>1, <1>3 DEF CheckAnswers, Work
  <2> DEFINE w == [work[t] EXCEPT !.at = "answered", !.failed = S]
  <2>2. w \in Work /\ Placed(w) /\ w.at = "answered"
    BY <1>1, <1>3 DEF Work, Placed, CheckAnswers
  <2> QED BY <1>2, <2>1, <2>2, RequestKeeps
<1>4. CASE SendReuploads(t)
  <2>1. PICK w \in Work :
              /\ Becomes(t, w) /\ w.at = "uploading" /\ w.kind = work[t].kind
              /\ w.holder = work[t].holder /\ w.file = work[t].file
    BY <1>1, <1>4, SendReuploadsIs
  <2>2. Placed(w)
    BY <1>1, <1>4, <2>1 DEF Placed, SendReuploads
  <2> QED BY <1>2, <2>1, <2>2, RequestKeeps
<1>5. CASE SendFails(t)
  BY <1>2, <1>5, IdleTyped, RequestKeeps DEF SendFails, Ends, Idle
<1>6. CASE SendUndoes(t)
  <2>1. CASE Ends(t)
    BY <1>2, <2>1, IdleTyped, RequestKeeps DEF Ends, Idle
  <2>2. ASSUME NEW w \in Work, Becomes(t, w), w.at = "undoing", w.kind = work[t].kind,
               w.holder = work[t].holder, w.file = work[t].file
        PROVE  Keeps
    <3>1. Placed(w)
      BY <1>1, <1>6, <2>2 DEF Placed, SendUndoes
    <3> QED BY <1>2, <2>2, <3>1, RequestKeeps
  <2> QED BY <1>1, <1>6, <2>1, <2>2, SendUndoesIs
<1> QED BY <1>3, <1>4, <1>5, <1>6

\* A task that ends, and writes at most the copies of a row.
LEMMA WritesCopiesKeeps ==
    ASSUME FilesInv, NEW t \in Task, Ends(t), row' \in [File -> StoredFile],
           \A f \in File : row'[f].state = row[f].state, UNCHANGED <<holds, remote, frozen>>
    PROVE  Keeps
BY IdleTyped, QuietKeeps DEF Ends, FilesInv, TypeOK

LEMMA DispatchesKeeps ==
    ASSUME FilesInv, NEW t \in Request, Dispatches(t)
    PROVE  Keeps
<1> DEFINE f == work[t].file
           copy == [p \in Provider |-> IF work[t].at = "uploaded" /\ p \in work[t].todo
                                         THEN work[t].copy[p] ELSE row[f].copy[p]]
           stale == row[f].stale \ work[t].todo
<1>1. t \in Task /\ work[t] \in Work /\ Placed(work[t]) /\ work[t].at # "idle"
  BY DEF FilesInv, TypeOK, Task, Dispatches, MayDispatch
<1>2. f \in File /\ row[f] \in StoredFile
  BY <1>1 DEF Placed, FilesInv, TypeOK
<1>3. copy \in Copies /\ stale \in SUBSET Provider
  BY <1>1, <1>2 DEF Work, StoredFile, Copies
<1>4. row' = [row EXCEPT ![f].copy = copy, ![f].stale = stale]
  BY DEF Dispatches
<1> HIDE DEF f, copy, stale
<1>5. row' \in [File -> StoredFile] /\ \A g \in File : row'[g].state = row[g].state
  BY <1>2, <1>3, <1>4 DEF FilesInv, TypeOK, StoredFile
<1> QED BY <1>1, <1>5, WritesCopiesKeeps DEF Dispatches

-----------------------------------------------------------------------------
(* Cleaning up *)

\* What a clean-up does when it has decided: nothing that anybody holds the lock for
\* may go against it, and what it read is still so.
LEMMA DecidesKeeps ==
    ASSUME FilesInv, NEW t \in Task, NEW w \in Work, Lawful([w EXCEPT !.at = "batch"]),
           \A u \in Task \ {t} : ~Holding(work[u]), Decides(t, w)
    PROVE  Keeps
<1> DEFINE f == w.file
           b == [w EXCEPT !.at = "batch"]
           left == IF w.kind = "retry" THEN holds ELSE [holds EXCEPT ![w.holder] = 0]
<1>1. b \in Work /\ b.at = "batch" /\ Holding(b) /\ Lawful(b)
  BY DEF Work, Holding
<1>2. /\ f \in Rows /\ f \in File /\ f # 0 /\ w.kind \in {"remove", "discard", "retry"}
      /\ IF w.kind = "retry" THEN w.holder = NoHolder
         ELSE w.holder \in Holder /\ holds[w.holder] = f
      /\ w.verdict \in {"keep", "drop", "fail"}
      /\ w.verdict # "keep" => References(f) \subseteq {w.holder}
      /\ w.verdict = "keep" => References(f) \ {w.holder} # {}
  <2>1. /\ b.file = f /\ b.kind = w.kind /\ b.holder = w.holder /\ b.verdict = w.verdict
    BY DEF Work
  <2>2. f \in Rows
    BY <1>1, <2>1 DEF Lawful
  <2>3. f \in File /\ f # 0
    BY <2>2, StoredFilesAssumption DEF Rows, File
  <2> HIDE DEF b, f
  <2> QED BY <1>1, <2>1, <2>2, <2>3 DEF Lawful
<1>3. CASE Becomes(t, b) /\ UNCHANGED <<row, holds, remote, frozen>>
  <2>1. Placed(b)
    BY <1>2 DEF Placed, Work
  <2> HIDE DEF b
  <2> QED BY <1>1, <1>3, <2>1, QuietKeeps DEF FilesInv, TypeOK
<1>4. CASE Ends(t) /\ UNCHANGED <<row, holds, remote, frozen>>
  BY <1>4, WritesCopiesKeeps DEF FilesInv, TypeOK
<1>5. row[f] \in StoredFile /\ w.copy \in Copies
  BY <1>2 DEF FilesInv, TypeOK, Work
<1>6. \A h \in Holder : /\ left[h] = 0 \/ left[h] = f
                        /\ left[h] # 0 => holds[h] = f /\ row[f].state = "active"
                        /\ h = w.holder => left[h] = 0
                        /\ h # w.holder => left[h] = holds[h]
  BY <1>2, AttachedToRow, StoredFilesAssumption DEF FilesInv, TypeOK
<1>7. left \in [Holder -> 0 .. MaxFile]
  BY <1>2, StoredFilesAssumption DEF FilesInv, TypeOK
<1>8. \A h \in Holder : left[h] # 0 => h \in References(f) \ {w.holder}
  BY <1>6 DEF References
<1>9. ASSUME \A h \in Holder : holds'[h] = left[h],
             Rows' = {} => \A h \in Holder : left[h] = 0
      PROVE  [Shared!SharedNext]_(Shared!sharedVars)
  <2>1. CASE w.kind = "retry"
    <3>1. \A h \in Holder : holds'[h] = holds[h]
      BY <1>9, <2>1
    <3>2. Attached' = Attached
      BY <3>1 DEF Attached
    <3>3. CASE Rows' = {}
      <4>1. Attached = {}
        BY <1>9, <2>1, <3>3 DEF Attached
      <4>2. Shared!Collect
        BY <1>2, <3>2, <3>3, <4>1 DEF Shared!Collect
      <4> QED BY <4>2 DEF Shared!SharedNext
    <3>4. CASE Rows' # {}
      BY <1>2, <3>2, <3>4 DEF Shared!sharedVars
    <3> QED BY <3>3, <3>4
  <2>2. CASE w.kind # "retry"
    <3>1. w.holder \in Holder /\ holds[w.holder] = f
      BY <1>2, <2>2
    <3>2. w.holder \in Attached /\ Attached' = Attached \ {w.holder}
      BY <1>2, <1>6, <1>9, <3>1 DEF Attached
    <3>3. Rows' = {} => Attached' = {}
      BY <1>9 DEF Attached
    <3>4. Shared!Detach(w.holder)
      BY <3>2, <3>3 DEF Shared!Detach
    <3> QED BY <3>1, <3>4 DEF Shared!SharedNext
  <2> QED BY <2>1, <2>2
<1>10. CASE /\ w.verdict = "drop" /\ row' = [row EXCEPT ![f] = NoRow]
            /\ holds' = [h \in Holder |-> IF left[h] = f THEN 0 ELSE left[h]]
            /\ Ends(t) /\ UNCHANGED <<remote, frozen>>
  <2>1. \A h \in Holder : left[h] = 0
    BY <1>2, <1>8, <1>10
  <2>2. \A h \in Holder : holds'[h] = 0
    <3> HIDE DEF left
    <3> QED BY <1>10, <2>1
  <2>3. holds' \in [Holder -> 0 .. MaxFile]
    <3>1. 0 \in 0 .. MaxFile
      BY StoredFilesAssumption
    <3> HIDE DEF left
    <3> QED BY <1>10, <2>2, <3>1
  <2>4. row' \in [File -> StoredFile]
    <3>1. NoRow \in StoredFile
      BY StoredFilesAssumption DEF NoRow, StoredFile, NoCopies, Copies
    <3> QED BY <1>2, <1>10, <3>1 DEF FilesInv, TypeOK
  <2>5. Rows' = {}
    <3>1. row'[f].state = "none"
      BY <1>2, <1>10 DEF FilesInv, TypeOK, NoRow
    <3>2. \A g \in File \ {f} : row'[g].state = "none"
      BY <1>2, <1>10 DEF FilesInv, TypeOK, OneRow, Rows, Present
    <3> QED BY <3>1, <3>2 DEF Rows, Present
  <2>6. OneRow' /\ ActiveIffAttached'
    BY <2>2, <2>5 DEF OneRow, ActiveIffAttached
  <2>7. FilesInv'
    BY <1>10, <2>3, <2>4, <2>6, LoudKeeps DEF FilesInv, TypeOK
  <2>8. [Shared!SharedNext]_(Shared!sharedVars)
    <3> HIDE DEF left
    <3> QED BY <1>9, <2>1, <2>2
  <2> QED BY <2>7, <2>8 DEF Keeps
<1>11. CASE /\ w.verdict = "fail"
            /\ row' = [row EXCEPT ![f].state = "delete_failed",
                            ![f].copy = Without(row[f].copy, Named(w.copy) \ w.failed)]
            /\ holds' = left /\ Ends(t) /\ UNCHANGED <<remote, frozen>>
  <2>1. \A h \in Holder : left[h] = 0
    BY <1>2, <1>8, <1>11
  <2>2. Without(row[f].copy, Named(w.copy) \ w.failed) \in Copies
    BY <1>5, WithoutTyped DEF StoredFile
  <2>3. /\ row' \in [File -> StoredFile] /\ row'[f].state = "delete_failed"
        /\ \A g \in File \ {f} : row'[g] = row[g]
    <3> DEFINE c == Without(row[f].copy, Named(w.copy) \ w.failed)
    <3>1. row' = [row EXCEPT ![f].state = "delete_failed", ![f].copy = c]
      BY <1>11
    <3> HIDE DEF c
    <3>2. c \in Copies
      BY <2>2 DEF c
    <3> HIDE DEF f
    <3> QED BY <1>2, <1>5, <3>1, <3>2 DEF FilesInv, TypeOK, StoredFile
  <2>4. Rows' = Rows
    BY <1>2, <2>3 DEF Rows, Present
  <2>5. \A g \in Rows' : g = f
    BY <1>2, <2>4 DEF FilesInv, OneRow
  <2>6. OneRow' /\ ActiveIffAttached'
    <3> HIDE DEF left
    <3> QED BY <1>11, <2>1, <2>3, <2>5 DEF OneRow, ActiveIffAttached
  <2>7. FilesInv'
    <3> HIDE DEF left
    <3> QED BY <1>7, <1>11, <2>3, <2>6, LoudKeeps DEF FilesInv, TypeOK
  <2>8. [Shared!SharedNext]_(Shared!sharedVars)
    <3> HIDE DEF left
    <3> QED BY <1>2, <1>9, <1>11, <2>4
  <2> QED BY <2>7, <2>8 DEF Keeps
<1>12. CASE /\ w.verdict = "keep" /\ row' = [row EXCEPT ![f].state = "active"]
            /\ holds' = left /\ Ends(t) /\ UNCHANGED <<remote, frozen>>
  <2>1. PICK k \in Holder : k # w.holder /\ holds[k] = f /\ left[k] = f
    BY <1>2, <1>6, <1>12 DEF References
  <2>2. /\ row' \in [File -> StoredFile] /\ row'[f].state = "active"
        /\ \A g \in File \ {f} : row'[g] = row[g]
    BY <1>2, <1>12 DEF FilesInv, TypeOK, StoredFile
  <2>3. Rows' = Rows
    BY <1>2, <2>2 DEF Rows, Present
  <2>4. \A g \in Rows' : g = f
    BY <1>2, <2>3 DEF FilesInv, OneRow
  <2>5. \A h \in Holder : holds'[h] # 0 => row'[holds'[h]].state = "active"
    <3> HIDE DEF left
    <3> QED BY <1>6, <1>12, <2>2
  <2>6. k \in {h \in Holder : holds'[h] = f}
    BY <1>12, <2>1
  <2>7. OneRow' /\ ActiveIffAttached'
    <3> HIDE DEF left, f
    <3> QED BY <2>4, <2>5, <2>6 DEF OneRow, ActiveIffAttached, References
  <2>8. FilesInv'
    <3> HIDE DEF left
    <3> QED BY <1>7, <1>12, <2>2, <2>7, LoudKeeps DEF FilesInv, TypeOK
  <2>9. [Shared!SharedNext]_(Shared!sharedVars)
    <3> HIDE DEF left
    <3> QED BY <1>2, <1>9, <1>12, <2>3
  <2> QED BY <2>8, <2>9 DEF Keeps
<1> QED BY <1>2, <1>3, <1>4, <1>10, <1>11, <1>12 DEF Decides

\* A clean-up begins: it finds the row locked, or attached elsewhere too, or asks the
\* providers for the deletion of the copies.
LEMMA CleanUpStartsKeeps ==
    ASSUME FilesInv, NEW t \in Task,
           NEW kind \in {"remove", "discard", "retry"}, NEW h \in Holder \cup {NoHolder},
           NEW f \in Rows, NEW others, others = References(f) \ {h},
           kind = "retry" => h = NoHolder,
           kind # "retry" => h \in Holder /\ holds[h] = f,
           CleanUpStarts(t, kind, h, f, others)
    PROVE  Keeps
<1> DEFINE w == [Idle EXCEPT !.kind = kind, !.holder = h, !.file = f]
<1>1. f \in File /\ f \in 0 .. MaxFile
  BY StoredFilesAssumption DEF Rows, File
<1>2. /\ w \in Work /\ w.kind = kind /\ w.holder = h /\ w.file = f
  BY <1>1, IdleTyped DEF Idle, Work
<1>3. CASE Locked(t, f)
  BY <1>3, FreezesKeeps DEF CleanUpStarts
<1>4. CASE ~Locked(t, f) /\ others # {}
  <2> DEFINE v == [w EXCEPT !.verdict = "keep"]
  <2>1. v \in Work
    BY <1>2 DEF Work
  <2>2. Lawful([v EXCEPT !.at = "batch"])
    BY <1>2, <1>4 DEF Lawful, Work, Holding
  <2>3. Decides(t, v)
    BY <1>4 DEF CleanUpStarts
  <2> HIDE DEF v
  <2> QED BY <1>4, <2>1, <2>2, <2>3, NobodyElse, DecidesKeeps
<1>5. CASE ~Locked(t, f) /\ others = {}
  <2> DEFINE v == [w EXCEPT !.at = "deleting", !.copy = row[f].copy]
  <2>1. row[f].copy \in Copies
    BY <1>1 DEF FilesInv, TypeOK, StoredFile
  <2>2. v \in Work /\ v.at = "deleting"
    BY <1>2, <2>1 DEF Work
  <2>3. Placed(v) /\ Lawful(v)
    <3>1. v.kind = kind /\ v.holder = h /\ v.file = f
      BY <1>2 DEF Work
    <3> HIDE DEF v
    <3> QED BY <1>1, <1>5, <2>2, <3>1 DEF Placed, Lawful
  <2>4. Becomes(t, v) /\ UNCHANGED <<row, holds, remote, frozen>>
    BY <1>5 DEF CleanUpStarts
  <2> HIDE DEF v
  <2> QED BY <1>5, <2>2, <2>3, <2>4, NobodyElse, QuietKeeps DEF FilesInv, TypeOK
<1> QED BY <1>3, <1>4, <1>5

LEMMA RemoveStartsKeeps ==
    ASSUME FilesInv, NEW t \in Request, NEW h \in Holder, RemoveStarts(t, h)
    PROVE  Keeps
<1>1. PICK kind \in {"remove", "discard"} :
         CleanUpStarts(t, kind, h, holds[h], References(holds[h]) \ {h})
  BY DEF RemoveStarts
<1>2. holds[h] \in Rows
  BY StoredFilesAssumption
     DEF RemoveStarts, FilesInv, TypeOK, ActiveIffAttached, File, Rows, Present
<1> QED BY <1>1, <1>2, CleanUpStartsKeeps DEF Task

LEMMA RetryStartsKeeps ==
    ASSUME FilesInv, RetryStarts
    PROVE  Keeps
<1>1. PICK f \in Rows : CleanUpStarts(House, "retry", NoHolder, f, References(f))
  BY DEF RetryStarts
<1>2. References(f) = References(f) \ {NoHolder}
  BY StoredFilesAssumption DEF References
<1> QED BY <1>1, <1>2, CleanUpStartsKeeps DEF Task

LEMMA CopiesGoKeeps ==
    ASSUME FilesInv, NEW t \in Task, CopiesGo(t)
    PROVE  Keeps
<1>1. work[t] \in Work /\ Placed(work[t]) /\ Lawful(work[t]) /\ work[t].at = "deleting"
  BY DEF FilesInv, TypeOK, CopiesGo
<1>2. PICK bad \in MayFail("delete", Named(work[t].copy)) :
         Becomes(t, [work[t] EXCEPT !.at = "deleted", !.failed = bad])
  BY DEF CopiesGo
<1> DEFINE w == [work[t] EXCEPT !.at = "deleted", !.failed = bad]
<1>3. bad \in SUBSET Provider
  BY DEF MayFail, Named
<1>4. w \in Work /\ w.at = "deleted"
  BY <1>1, <1>3 DEF Work
<1>5. Placed(w) /\ Lawful(w)
  <2>1. w.file = work[t].file /\ w.kind = work[t].kind /\ w.holder = work[t].holder
    BY <1>1 DEF Work
  <2> HIDE DEF w
  <2> QED BY <1>1, <1>4, <2>1 DEF Placed, Lawful, Holding
<1>6. \A u \in Task \ {t} : ~Holding(work[u])
  BY <1>1 DEF FilesInv, Holding
<1>7. remote' \in [Provider -> SUBSET (1 .. MaxCopy)] /\ UNCHANGED <<row, holds, frozen>>
  BY DEF CopiesGo, FilesInv, TypeOK
<1> HIDE DEF w
<1>8. Becomes(t, w)
  BY <1>2 DEF w
<1> QED BY <1>4, <1>5, <1>6, <1>7, <1>8, QuietKeeps DEF FilesInv, TypeOK

LEMMA CleanUpResumesKeeps ==
    ASSUME FilesInv, NEW t \in Task, CleanUpResumes(t)
    PROVE  Keeps
<1>1. work[t] \in Work /\ Lawful(work[t])
  BY DEF FilesInv, TypeOK
<1>2. work[t].at \in {"deleted", "batch"} /\ Holding(work[t])
  BY DEF CleanUpResumes, Holding
<1>3. \A u \in Task \ {t} : ~Holding(work[u])
  BY <1>2 DEF FilesInv
<1>4. CASE work[t].at = "deleted"
  <2>1. PICK v \in {"drop", "fail"} : Decides(t, [work[t] EXCEPT !.verdict = v])
    BY <1>4 DEF CleanUpResumes
  <2> DEFINE w == [work[t] EXCEPT !.verdict = v]
             b == [w EXCEPT !.at = "batch"]
  <2>2. w \in Work
    BY <1>1 DEF Work
  <2>3. /\ b.file = work[t].file /\ b.kind = work[t].kind /\ b.holder = work[t].holder
        /\ b.verdict = v /\ b.at = "batch"
    BY <1>1 DEF Work
  <2>4. Lawful(b)
    <3> HIDE DEF b
    <3> QED BY <1>1, <1>2, <1>4, <2>3 DEF Lawful
  <2> QED BY <1>3, <2>1, <2>2, <2>4, DecidesKeeps
<1>5. CASE work[t].at = "batch"
  <2>1. [work[t] EXCEPT !.at = "batch"] = work[t]
    BY <1>1, <1>5 DEF Work
  <2> QED BY <1>1, <1>3, <1>5, <2>1, DecidesKeeps DEF CleanUpResumes
<1> QED BY <1>2, <1>4, <1>5

-----------------------------------------------------------------------------
(* Sweeping *)

LEMMA SweepStartsKeeps ==
    ASSUME FilesInv, NEW kind \in {"reconcile", "purge"}, SweepStarts(kind)
    PROVE  Keeps
<1>1. PICK f \in Rows, read \in SUBSET Provider :
         Becomes(House, [Idle EXCEPT !.at = "sweeping", !.kind = kind, !.file = f,
                           !.copy = Without(row[f].copy, Provider \ read), !.todo = read])
  <2>1. PICK f \in Rows :
          LET read == IF kind = "purge" THEN Named(row[f].copy) \cap row[f].stale
                      ELSE Named(row[f].copy)
          IN Becomes(House, [Idle EXCEPT !.at = "sweeping", !.kind = kind, !.file = f,
                               !.copy = Without(row[f].copy, Provider \ read), !.todo = read])
    BY DEF SweepStarts
  <2> DEFINE read == IF kind = "purge" THEN Named(row[f].copy) \cap row[f].stale
                     ELSE Named(row[f].copy)
  <2>2. read \in SUBSET Provider
    BY DEF Named
  <2> QED BY <2>1, <2>2
<1> DEFINE c == Without(row[f].copy, Provider \ read)
           w == [Idle EXCEPT !.at = "sweeping", !.kind = kind, !.file = f, !.copy = c,
                             !.todo = read]
<1>2. f \in File /\ f \in 0 .. MaxFile
  BY StoredFilesAssumption DEF Rows, File
<1>3. c \in Copies
  BY <1>2, WithoutTyped DEF FilesInv, TypeOK, StoredFile
<1> HIDE DEF c
<1>4. w \in Work /\ w.at = "sweeping" /\ w.kind = kind /\ w.file = f
  BY <1>2, <1>3, IdleTyped DEF Work
<1>5. Becomes(House, w)
  BY <1>1 DEF c
<1> HIDE DEF w
<1>6. Placed(w)
  BY <1>2, <1>4 DEF Placed
<1> QED BY <1>4, <1>5, <1>6, RequestKeeps DEF SweepStarts, Task, FilesInv, TypeOK

LEMMA SweepCallsKeeps ==
    ASSUME FilesInv, SweepCalls
    PROVE  Keeps
<1>1. /\ House \in Task /\ work[House] \in Work /\ Placed(work[House])
      /\ work[House].at = "sweeping"
  BY DEF FilesInv, TypeOK, SweepCalls, Task
<1>2. PICK T \in SUBSET Provider, S \in SUBSET Provider :
         Becomes(House, [work[House] EXCEPT !.todo = T, !.failed = S])
  <2>1. PICK p \in work[House].todo :
          \/ Becomes(House, [work[House] EXCEPT !.todo = @ \ {p}, !.failed = @ \cup {p}])
          \/ Becomes(House, [work[House] EXCEPT !.todo = @ \ {p}])
    BY DEF SweepCalls
  <2>2. /\ work[House].todo \ {p} \in SUBSET Provider
        /\ work[House].failed \cup {p} \in SUBSET Provider
        /\ work[House].failed \in SUBSET Provider
    BY <1>1, <2>1 DEF Work
  <2>3. [work[House] EXCEPT !.todo = work[House].todo \ {p}]
          = [work[House] EXCEPT !.todo = work[House].todo \ {p}, !.failed = work[House].failed]
    BY <1>1 DEF Work
  <2> QED BY <2>1, <2>2, <2>3
<1> DEFINE w == [work[House] EXCEPT !.todo = T, !.failed = S]
<1>3. w \in Work /\ w.at = "sweeping" /\ Placed(w)
  BY <1>1 DEF Work, Placed
<1>4. remote' \in [Provider -> SUBSET (1 .. MaxCopy)] /\ UNCHANGED <<row, holds, frozen>>
  BY DEF SweepCalls, FilesInv, TypeOK
<1> QED BY <1>1, <1>2, <1>3, <1>4, RequestKeeps

LEMMA SweepCommitsKeeps ==
    ASSUME FilesInv, SweepCommits
    PROVE  Keeps
<1> DEFINE f == work[House].file
           c == Without(row[f].copy, work[House].failed)
<1>1. House \in Task /\ f \in File
  BY DEF FilesInv, TypeOK, SweepCommits, SweepEnds, Task, Placed
<1>2. c \in Copies /\ row[f] \in StoredFile
  BY <1>1, WithoutTyped DEF FilesInv, TypeOK, StoredFile
<1>3. row' = row \/ row' = [row EXCEPT ![f].copy = c]
  BY DEF SweepCommits, Unmarks
<1> HIDE DEF f, c
<1>4. row' \in [File -> StoredFile] /\ \A g \in File : row'[g].state = row[g].state
  BY <1>1, <1>2, <1>3 DEF FilesInv, TypeOK, StoredFile
<1> QED BY <1>1, <1>4, WritesCopiesKeeps DEF SweepCommits

-----------------------------------------------------------------------------
(* The world *)

LEMMA AgesKeeps ==
    ASSUME FilesInv, NEW f \in File, NEW p \in Provider, Ages(f, p)
    PROVE  Keeps
<1>1. row' \in [File -> StoredFile] /\ \A g \in File : row'[g].state = row[g].state
  BY DEF Ages, FilesInv, TypeOK, StoredFile
<1> QED BY <1>1, StillKeeps DEF Ages, FilesInv, TypeOK

LEMMA VanishesKeeps ==
    ASSUME FilesInv, NEW p \in Provider, Vanishes(p)
    PROVE  Keeps
<1>1. remote' \in [Provider -> SUBSET (1 .. MaxCopy)]
  BY DEF Vanishes, FilesInv, TypeOK
<1> QED BY <1>1, StillKeeps DEF Vanishes, FilesInv, TypeOK

\* An operation expires while its coroutine waits: a clean-up that has the row locked
\* keeps it.
LEMMA ExpiresKeeps ==
    ASSUME FilesInv, NEW t \in Request, Expires(t)
    PROVE  Keeps
<1> DEFINE w == [work[t] EXCEPT !.late = TRUE]
<1>1. t \in Task /\ work[t] \in Work /\ Placed(work[t]) /\ Lawful(work[t])
  BY DEF FilesInv, TypeOK, Task
<1>2. w \in Work
  BY <1>1 DEF Work
<1>3. /\ w.at = work[t].at /\ w.kind = work[t].kind /\ w.holder = work[t].holder
      /\ w.file = work[t].file /\ w.verdict = work[t].verdict
  BY <1>1 DEF Work
<1>4. Becomes(t, w)
  BY DEF Expires
<1> HIDE DEF w
<1>5. Placed(w) /\ Lawful(w) /\ (Holding(w) => Holding(work[t]))
  BY <1>1, <1>3 DEF Placed, Lawful, Holding
<1>6. Holding(w) => \A u \in Task \ {t} : ~Holding(work[u])
  BY <1>1, <1>5 DEF FilesInv
<1> QED BY <1>1, <1>2, <1>4, <1>5, <1>6, QuietKeeps DEF Expires, FilesInv, TypeOK

LEMMA TimesOutKeeps ==
    ASSUME FilesInv, NEW t \in Request, TimesOut(t)
    PROVE  Keeps
<1>1. TypeOK /\ t \in Task /\ Abandoned(t, remote')
  BY DEF FilesInv, Task, TimesOut
<1>2. remote' \in [Provider -> SUBSET (1 .. MaxCopy)]
  BY <1>1, AbandonedTyped
<1>3. Idle.at = "idle"
  BY DEF Idle
<1> QED BY <1>1, <1>2, <1>3, IdleTyped, RequestKeeps DEF TimesOut, Ends

\* A restart rolls back what was not committed: nobody holds a lock any more.
LEMMA RestartsKeeps ==
    ASSUME FilesInv, Restarts
    PROVE  Keeps
<1>1. PICK t \in Task : Abandoned(t, remote')
  BY DEF Restarts
<1>2. remote' \in [Provider -> SUBSET (1 .. MaxCopy)]
  BY <1>1, AbandonedTyped DEF FilesInv
<1>3. UNCHANGED <<row, holds>> /\ \A u \in Task : work'[u] = Idle
  BY DEF Restarts
<1>4. TypeOK'
  <2>1. work' \in [Task -> Work]
    BY IdleTyped DEF Restarts
  <2> QED BY <1>2, <1>3, <2>1 DEF TypeOK, FilesInv, Restarts
<1>5. OneRow' /\ ActiveIffAttached' /\ Rows' = Rows /\ Attached' = Attached
  BY <1>3 DEF FilesInv, OneRow, ActiveIffAttached, References, Rows, Present, Attached
<1>6. \A u \in Task : Placed(work'[u]) /\ ~Holding(work'[u])
  BY <1>3, IdleTyped
<1>7. \A u \in Task : (Placed(work[u]) /\ Lawful(work[u]))'
  BY <1>6 DEF Placed, Lawful, Holding
<1>8. (\A u, v \in Task : Holding(work[u]) /\ Holding(work[v]) => u = v)'
  BY <1>6 DEF Holding
<1>9. FilesInv'
  BY <1>4, <1>5, <1>7, <1>8 DEF FilesInv
<1> QED BY <1>5, <1>9 DEF Keeps, Shared!sharedVars

-----------------------------------------------------------------------------
(* The specification *)

LEMMA InitFilesInv == Init => FilesInv /\ Shared!SharedInit
<1> SUFFICES ASSUME Init PROVE FilesInv /\ Shared!SharedInit
  OBVIOUS
<1>1. TypeOK
  <2>1. NoRow \in StoredFile /\ 0 \in 0 .. MaxFile
    BY StoredFilesAssumption DEF NoRow, StoredFile, NoCopies, Copies
  <2> QED BY <2>1, IdleTyped DEF Init, TypeOK
<1>2. Rows = {} /\ Attached = {}
  BY DEF Init, Rows, Present, NoRow, Attached
<1>3. OneRow /\ ActiveIffAttached
  BY <1>2 DEF Init, OneRow, ActiveIffAttached
<1>4. \A t \in Task : Placed(work[t]) /\ Lawful(work[t]) /\ ~Holding(work[t])
  BY IdleTyped DEF Init
<1> QED BY <1>1, <1>2, <1>3, <1>4 DEF FilesInv, Shared!SharedInit

LEMMA StepKeepsFilesInv == FilesInv /\ [Next]_vars => Keeps
<1> SUFFICES ASSUME FilesInv, [Next]_vars PROVE Keeps
  OBVIOUS
<1>1. ASSUME NEW t \in Request, RequestNext(t) PROVE Keeps
  <2>1. CASE \E h \in Holder :
               \/ AttachKnown(t, h) \/ AttachNew(t, h) \/ RemoveStarts(t, h)
               \/ \E p \in Provider : SendStarts(t, h, p)
    BY <2>1, AttachKnownKeeps, AttachNewKeeps, RemoveStartsKeeps, SendStartsKeeps
  <2>2. CASE AttachResumes(t) \/ Undoes(t) \/ Dispatches(t) \/ TimesOut(t)
    BY <2>2, AttachResumesKeeps, UndoesKeeps, DispatchesKeeps, TimesOutKeeps
  <2>3. CASE SendReuploads(t) \/ SendFails(t) \/ SendUndoes(t)
    BY <2>3, SendMovesKeeps DEF Task
  <2> QED BY <1>1, <2>1, <2>2, <2>3 DEF RequestNext
<1>2. ASSUME NEW t \in Task, ProviderNext(t) PROVE Keeps
  BY <1>2, CopiesArriveKeeps, SendMovesKeeps, CopiesGoKeeps DEF ProviderNext
<1>3. ASSUME NEW t \in Task, CleanUpResumes(t) \/ CopiesBlock(t) PROVE Keeps
  BY <1>3, CleanUpResumesKeeps, FreezesKeeps DEF CopiesBlock
<1>4. ASSUME HouseNext PROVE Keeps
  BY <1>4, RetryStartsKeeps, SweepStartsKeeps, SweepCallsKeeps, SweepCommitsKeeps
     DEF HouseNext
<1>5. ASSUME World PROVE Keeps
  BY <1>5, RestartsKeeps, VanishesKeeps, AgesKeeps, ExpiresKeeps DEF World
<1>6. ASSUME UNCHANGED vars PROVE Keeps
  BY <1>6, StillKeeps DEF vars, FilesInv, TypeOK
<1> QED BY <1>1, <1>2, <1>3, <1>4, <1>5, <1>6 DEF Next

\* In every reachable state there is at most one row of the content, one coroutine at most
\* has it locked, and a clean-up that has it locked decides on what is still so, however
\* attaching, sending, removing and housekeeping interleave, fail, expire or are restarted.
THEOREM FilesInductive == Spec => []FilesInv
<1>1. FilesInv /\ [Next]_vars => FilesInv'
  BY StepKeepsFilesInv DEF Keeps
<1> QED BY <1>1, InitFilesInv, PTL DEF Spec

\* Rows, references, copies and what the coroutines have in hand keep their types.
THEOREM FileTypes == Spec => []TypeOK
<1>1. FilesInv => TypeOK
  BY DEF FilesInv
<1> QED BY <1>1, FilesInductive, PTL

\* A row is active exactly while a history or a draft is attached to it
\* (mark_stored_file_active, cleanup_orphan_stored_file): no row is left active that
\* housekeeping would never visit, and nothing is attached to a row that is about to go.
THEOREM ActiveMeansAttached == Spec => []ActiveIffAttached
<1>1. FilesInv => ActiveIffAttached
  BY DEF FilesInv
<1> QED BY <1>1, FilesInductive, PTL

\* The rows implement SharedFile: the content stays as long as anything is attached to it,
\* and no clean-up takes away an attachment made while it waited for the providers.
THEOREM RowsKeepWhatIsAttached == Spec => KeepsWhatIsAttached
<1>1. FilesInv /\ [Next]_vars => [Shared!SharedNext]_(Shared!sharedVars)
  BY StepKeepsFilesInv DEF Keeps
<1> QED BY <1>1, InitFilesInv, FilesInductive, PTL
        DEF Spec, KeepsWhatIsAttached, Shared!SharedSpec

-----------------------------------------------------------------------------
(* Copies in hand *)

AtWork(w) == w.at # "idle"
Sending(w) == AtWork(w) /\ w.kind = "send"
Attaching(w) == AtWork(w) /\ w.kind = "attach"

\* The copies of w are made, and no row has them yet.
Made(w) == Attaching(w) /\ w.at \in {"uploaded", "undoing"}

EmployedAs(t, w) ==
    /\ AtWork(w) \/ w = Idle
    /\ ~w.late
    /\ AtWork(w) => w.kind \in IF t = House THEN {"retry", "reconcile", "purge"}
                               ELSE {"attach", "send", "remove", "discard"}
    /\ w.at = "undoing" => w.kind = "attach"
    /\ w.at = "sweeping" => t = House

\* The lease of a holder is one request's.
Alone ==
    \A t, u \in Request :
        AtWork(work[t]) /\ AtWork(work[u]) /\ work[t].holder = work[u].holder => t = u

SendersAttached ==
    \A t \in Request : Sending(work[t]) => holds[work[t].holder] = work[t].file

NamedAfterRow ==
    \A p \in Keyed :
        /\ \A t \in Task : work[t].copy[p] \in {0, work[t].file}
        /\ \A f \in File : row[f].copy[p] \in {0, f}

AbsentHasNone == \A f \in File \ Rows : \A p \in Provider : row[f].copy[p] = 0

\* An upload is for a row nobody knows of.
NewRows ==
    \A t \in Task : Attaching(work[t]) =>
        /\ work[t].file \notin Rows
        /\ \A u \in Task \ {t} : work[u].file # work[t].file

\* The copies it makes are nobody else's.
OwnCopies ==
    \A t \in Task : Made(work[t]) => \A p \in Provider : work[t].copy[p] # 0 =>
        /\ \A u \in Task \ {t} : work[u].copy[p] # work[t].copy[p]
        /\ \A f \in File : row[f].copy[p] # work[t].copy[p]

Apart ==
    /\ \A t \in Task : EmployedAs(t, work[t])
    /\ Alone
    /\ SendersAttached
    /\ NamedAfterRow
    /\ AbsentHasNone
    /\ NewRows
    /\ OwnCopies

LEMMA ApartStep ==
    ASSUME FilesInv, Apart, NEW t \in Task, NEW w \in Work, Becomes(t, w),
           EmployedAs(t, w),
           AtWork(w) /\ t \in Request =>
              \/ AtWork(work[t]) /\ w.holder = work[t].holder
              \/ \A u \in Request \ {t} : AtWork(work[u]) => work[u].holder # w.holder,
           \A u \in Request \ {t} :
              AtWork(work[u]) => holds'[work[u].holder] = holds[work[u].holder],
           Sending(w) => holds'[w.holder] = w.file,
           Attaching(w) => w.file \notin Rows' /\ \A u \in Task \ {t} : work[u].file # w.file,
           \A u \in Task \ {t} :
              Attaching(work[u]) => w.file # work[u].file /\ work[u].file \notin Rows',
           \A p \in Keyed : /\ w.copy[p] \in {0, w.file}
                            /\ \A f \in File : row'[f].copy[p] \in {0, f},
           \A f \in File \ Rows' : \A p \in Provider : row'[f].copy[p] = 0,
           \A u \in Task \ {t} : Made(work[u]) =>
              \A p \in Provider : work[u].copy[p] # 0 =>
                 /\ w.copy[p] # work[u].copy[p]
                 /\ \A f \in File : row'[f].copy[p] # work[u].copy[p],
           Made(w) => \A p \in Provider : w.copy[p] # 0 =>
                 /\ \A u \in Task \ {t} : work[u].copy[p] # w.copy[p]
                 /\ \A f \in File : row'[f].copy[p] # w.copy[p]
    PROVE  Apart'
<1>1. work' \in [Task -> Work] /\ work'[t] = w /\ \A u \in Task \ {t} : work'[u] = work[u]
  BY DEF FilesInv, TypeOK, Becomes
<1>2. Request \subseteq Task
  BY DEF Task
<1>3. \A u \in Task : EmployedAs(u, work'[u])
  BY <1>1 DEF Apart
<1>4. Alone'
  <2> SUFFICES ASSUME NEW u \in Request, NEW v \in Request, AtWork(work'[u]), AtWork(work'[v]),
                      work'[u].holder = work'[v].holder
               PROVE  u = v
    BY DEF Alone, AtWork
  <2>1. CASE u # t /\ v # t
    BY <1>1, <1>2, <2>1 DEF Apart, Alone
  <2>2. CASE u = t /\ v # t
    <3>1. AtWork(work[v]) /\ work[v].holder = w.holder /\ AtWork(w)
      BY <1>1, <1>2, <2>2
    <3> QED BY <2>2, <3>1 DEF Apart, Alone
  <2>3. CASE u # t /\ v = t
    <3>1. AtWork(work[u]) /\ work[u].holder = w.holder /\ AtWork(w)
      BY <1>1, <1>2, <2>3
    <3> QED BY <2>3, <3>1 DEF Apart, Alone
  <2> QED BY <2>1, <2>2, <2>3
<1>5. SendersAttached'
  <2> SUFFICES ASSUME NEW u \in Request, Sending(work'[u])
               PROVE  holds'[work'[u].holder] = work'[u].file
    BY DEF SendersAttached, Sending, AtWork
  <2>1. CASE u = t
    BY <1>1, <2>1
  <2>2. CASE u # t
    BY <1>1, <1>2, <2>2 DEF Apart, SendersAttached, Sending
  <2> QED BY <2>1, <2>2
<1>6. NamedAfterRow'
  BY <1>1 DEF Apart, NamedAfterRow
<1>7. AbsentHasNone'
  BY DEF AbsentHasNone
<1>8. NewRows'
  <2> SUFFICES ASSUME NEW u \in Task, Attaching(work'[u])
               PROVE  /\ work'[u].file \notin Rows'
                      /\ \A v \in Task \ {u} : work'[v].file # work'[u].file
    BY DEF NewRows, Attaching, AtWork
  <2>1. CASE u = t
    BY <1>1, <2>1
  <2>2. CASE u # t
    BY <1>1, <2>2 DEF Apart, NewRows
  <2> QED BY <2>1, <2>2
<1>9. OwnCopies'
  <2> SUFFICES ASSUME NEW u \in Task, Made(work'[u]), NEW p \in Provider, work'[u].copy[p] # 0
               PROVE  /\ \A v \in Task \ {u} : work'[v].copy[p] # work'[u].copy[p]
                      /\ \A f \in File : row'[f].copy[p] # work'[u].copy[p]
    BY DEF OwnCopies, Made, Attaching, AtWork
  <2>1. CASE u = t
    BY <1>1, <2>1
  <2>2. CASE u # t
    BY <1>1, <2>2 DEF Apart, OwnCopies
  <2> QED BY <2>1, <2>2
<1>10. \A u \in Task : EmployedAs(u, work[u])'
  BY <1>3 DEF EmployedAs, AtWork
<1> QED BY <1>4, <1>5, <1>6, <1>7, <1>8, <1>9, <1>10 DEF Apart

LEMMA IdleIs ==
    /\ Idle \in Work /\ ~AtWork(Idle) /\ ~Sending(Idle) /\ ~Attaching(Idle) /\ ~Made(Idle)
    /\ Idle.file = 0 /\ \A p \in Provider : Idle.copy[p] = 0
    /\ \A t \in Task : EmployedAs(t, Idle)
BY IdleTyped DEF Idle, AtWork, Sending, Attaching, Made, NoCopies, EmployedAs

\* What is at work names a row id, and a request at work a holder.
LEMMA WorkNames ==
    ASSUME FilesInv, Apart, NEW t \in Task, AtWork(work[t])
    PROVE  /\ work[t] \in Work /\ work[t].file \in File /\ work[t].file # 0
           /\ t \in Request => work[t].holder \in Holder
<1>1. work[t] \in Work /\ Placed(work[t]) /\ EmployedAs(t, work[t])
  BY DEF FilesInv, TypeOK, Apart
<1>2. work[t].file \in File /\ work[t].file # 0
  BY <1>1, StoredFilesAssumption DEF Placed, AtWork, File
<1>3. t \in Request => t # House
  BY StoredFilesAssumption
<1> QED BY <1>1, <1>2, <1>3 DEF Placed, AtWork, EmployedAs

\* A coroutine goes on, for the same holder and row.
LEMMA Continues ==
    ASSUME FilesInv, Apart, NEW t \in Task, NEW w \in Work, Becomes(t, w),
           UNCHANGED <<row, holds>>, EmployedAs(t, w), AtWork(work[t]), AtWork(w),
           w.kind = work[t].kind, w.holder = work[t].holder, w.file = work[t].file,
           \A p \in Provider : w.copy[p] \in {0, work[t].copy[p]},
           Made(w) => Made(work[t])
    PROVE  Apart'
<1>1. Rows' = Rows
  BY DEF Rows, Present
<1>2. Sending(w) => t \in Request
  <2>1. t = House => ~Sending(w)
    BY DEF EmployedAs, Sending
  <2> QED BY <2>1 DEF Task
<1>3. Sending(w) => Sending(work[t])
  BY DEF Sending
<1>4. Sending(w) => holds'[w.holder] = w.file
  BY <1>2, <1>3 DEF Apart, SendersAttached
<1>5. Attaching(w) => Attaching(work[t])
  BY DEF Attaching
<1>6. Attaching(w) => w.file \notin Rows' /\ \A u \in Task \ {t} : work[u].file # w.file
  BY <1>1, <1>5 DEF Apart, NewRows
<1>7. \A u \in Task \ {t} :
         Attaching(work[u]) => w.file # work[u].file /\ work[u].file \notin Rows'
  BY <1>1 DEF Apart, NewRows
<1>8. \A p \in Keyed : w.copy[p] \in {0, w.file} /\ \A f \in File : row'[f].copy[p] \in {0, f}
  BY StoredFilesAssumption DEF Apart, NamedAfterRow
<1>9. \A f \in File \ Rows' : \A p \in Provider : row'[f].copy[p] = 0
  BY <1>1 DEF Apart, AbsentHasNone
<1>10. \A u \in Task \ {t} : Made(work[u]) =>
          \A p \in Provider : work[u].copy[p] # 0 =>
             w.copy[p] # work[u].copy[p] /\ \A f \in File : row'[f].copy[p] # work[u].copy[p]
  BY DEF Apart, OwnCopies
<1>11. Made(w) => \A p \in Provider : w.copy[p] # 0 =>
          /\ \A u \in Task \ {t} : work[u].copy[p] # w.copy[p]
          /\ \A f \in File : row'[f].copy[p] # w.copy[p]
  BY DEF Apart, OwnCopies
<1> QED BY <1>4, <1>6, <1>7, <1>8, <1>9, <1>10, <1>11, ApartStep

\* A coroutine begins: an upload for a new row, or what it does with a row there is.
LEMMA Begins ==
    ASSUME FilesInv, Apart, NEW t \in Task, NEW w \in Work, Becomes(t, w),
           UNCHANGED <<row, holds>>, EmployedAs(t, w), AtWork(w), work[t].at = "idle",
           t \in Request => ~Leased(w.holder),
           Sending(w) => holds[w.holder] = w.file,
           ~Made(w),
           \/ Attaching(w) /\ FreshFile(w.file) /\ w.copy = NoCopies
           \/ ~Attaching(w) /\ w.file \in Rows
              /\ \A p \in Provider : w.copy[p] \in {0, row[w.file].copy[p]}
    PROVE  Apart'
<1>1. Rows' = Rows /\ Rows \subseteq File
  BY DEF Rows, Present
<1>2. t \in Request => \A u \in Request \ {t} : AtWork(work[u]) => work[u].holder # w.holder
  BY DEF Leased, Apart, EmployedAs, AtWork, Task
<1>3. Attaching(w) => w.file \notin Rows' /\ \A u \in Task \ {t} : work[u].file # w.file
  BY <1>1 DEF FreshFile
<1>4. \A u \in Task \ {t} :
         Attaching(work[u]) => w.file # work[u].file /\ work[u].file \notin Rows'
  BY <1>1 DEF Apart, NewRows, FreshFile
<1>5. \A p \in Keyed : w.copy[p] \in {0, w.file} /\ \A f \in File : row'[f].copy[p] \in {0, f}
  BY <1>1, StoredFilesAssumption DEF Apart, NamedAfterRow, NoCopies
<1>6. \A f \in File \ Rows' : \A p \in Provider : row'[f].copy[p] = 0
  BY <1>1 DEF Apart, AbsentHasNone
<1>7. \A u \in Task \ {t} : Made(work[u]) =>
          \A p \in Provider : work[u].copy[p] # 0 =>
             w.copy[p] # work[u].copy[p] /\ \A f \in File : row'[f].copy[p] # work[u].copy[p]
  BY <1>1 DEF Apart, OwnCopies, NoCopies
<1> QED BY <1>2, <1>3, <1>4, <1>5, <1>6, <1>7, ApartStep

\* A coroutine ends: of the copies, the row it worked on may have taken its own, or lost
\* some.
LEMMA Finishes ==
    ASSUME FilesInv, Apart, NEW t \in Task, Ends(t),
           \A u \in Request \ {t} :
              AtWork(work[u]) => holds'[work[u].holder] = holds[work[u].holder],
           \A f \in File, p \in Provider :
              \/ row'[f].copy[p] \in {0, row[f].copy[p]}
              \/ f = work[t].file /\ row'[f].copy[p] = work[t].copy[p],
           Rows' \subseteq Rows \cup {work[t].file},
           \A f \in File \ Rows' : \A p \in Provider : row'[f].copy[p] = 0
    PROVE  Apart'
<1>1. Becomes(t, Idle)
  BY DEF Ends
<1>2. \A u \in Task \ {t} :
         Attaching(work[u]) => Idle.file # work[u].file /\ work[u].file \notin Rows'
  BY IdleIs, WorkNames DEF Apart, NewRows, Attaching
<1>3. \A p \in Keyed :
         Idle.copy[p] \in {0, Idle.file} /\ \A f \in File : row'[f].copy[p] \in {0, f}
  BY IdleIs, StoredFilesAssumption DEF Apart, NamedAfterRow
<1>4. \A u \in Task \ {t} : Made(work[u]) =>
          \A p \in Provider : work[u].copy[p] # 0 =>
             /\ Idle.copy[p] # work[u].copy[p]
             /\ \A f \in File : row'[f].copy[p] # work[u].copy[p]
  BY IdleIs DEF Apart, OwnCopies
<1> QED BY <1>1, <1>2, <1>3, <1>4, IdleIs, ApartStep

\* Nothing happens to the coroutines, nor to what the rows name.
LEMMA StaysApart ==
    ASSUME FilesInv, Apart, UNCHANGED <<work, holds>>,
           \A f \in File : row'[f].copy = row[f].copy /\ row'[f].state = row[f].state
    PROVE  Apart'
<1>1. Rows' = Rows
  BY DEF Rows, Present
<1>2. Alone' /\ SendersAttached' /\ (\A t \in Task : EmployedAs(t, work[t]))'
  BY DEF Apart, Alone, SendersAttached, EmployedAs, AtWork, Sending
<1>3. NamedAfterRow' /\ AbsentHasNone' /\ NewRows' /\ OwnCopies'
  BY <1>1 DEF Apart, NamedAfterRow, AbsentHasNone, NewRows, OwnCopies, Made, Attaching, AtWork
<1> QED BY <1>2, <1>3 DEF Apart

-----------------------------------------------------------------------------
(* The steps, as long as no operation expires *)

LEMMA FreezesApart == FilesInv /\ Apart /\ Freezes => Apart'
BY StaysApart DEF Freezes

\* The holder a step is for is no other request's.
LEMMA HoldersApart ==
    ASSUME FilesInv, Apart, NEW t \in Task, NEW h \in Holder \cup {NoHolder},
           \/ ~Leased(h)
           \/ t \in Request /\ AtWork(work[t]) /\ work[t].holder = h
           \/ h = NoHolder,
           \A k \in Holder \ {h} : holds'[k] = holds[k]
    PROVE  \A u \in Request \ {t} :
              AtWork(work[u]) => holds'[work[u].holder] = holds[work[u].holder]
<1> SUFFICES ASSUME NEW u \in Request \ {t}, AtWork(work[u]) PROVE work[u].holder \in Holder \ {h}
  OBVIOUS
<1>1. u \in Task /\ work[u].holder \in Holder /\ EmployedAs(u, work[u])
  BY WorkNames DEF Task, Apart
<1>2. work[u].holder # h
  BY <1>1, StoredFilesAssumption DEF Leased, AtWork, EmployedAs, Apart, Alone
<1> QED BY <1>1, <1>2

\* A row is taken up by the holder a step is for.
LEMMA TakingUpApart ==
    ASSUME FilesInv, Apart, NEW t \in Task, NEW h \in Holder, NEW f \in Rows,
           ~Leased(h) \/ (t \in Request /\ AtWork(work[t]) /\ work[t].holder = h),
           Ends(t), holds' = [holds EXCEPT ![h] = f], row' = [row EXCEPT ![f].state = "active"]
    PROVE  Apart'
<1>1. \A g \in File : row'[g].copy = row[g].copy /\ (row'[g].state # "none" <=> row[g].state # "none")
  BY DEF FilesInv, TypeOK, StoredFile, Rows, Present
<1>2. Rows' = Rows
  BY <1>1 DEF Rows, Present
<1>3. \A k \in Holder \ {h} : holds'[k] = holds[k]
  BY DEF FilesInv, TypeOK
<1>4. \A u \in Request \ {t} :
        AtWork(work[u]) => holds'[work[u].holder] = holds[work[u].holder]
  BY <1>3, HoldersApart
<1>5. \A g \in File, p \in Provider : row'[g].copy[p] \in {0, row[g].copy[p]}
  BY <1>1
<1>6. \A g \in File \ Rows' : \A p \in Provider : row'[g].copy[p] = 0
  BY <1>1, <1>2 DEF Apart, AbsentHasNone
<1> QED BY <1>2, <1>4, <1>5, <1>6, Finishes

LEMMA AttachKnownApart ==
    ASSUME FilesInv, Apart, NEW t \in Request, NEW h \in Holder, AttachKnown(t, h)
    PROVE  Apart'
<1>1. PICK f \in Rows : Reuses(t, h, f)
  BY DEF AttachKnown
<1>2. CASE Locked(t, f)
  BY <1>1, <1>2, FreezesApart DEF Reuses
<1>3. CASE ~Locked(t, f)
  <2>1. t \in Task /\ ~Leased(h)
    BY DEF AttachKnown, Task, Starts
  <2>2. /\ holds' = [holds EXCEPT ![h] = f] /\ row' = [row EXCEPT ![f].state = "active"]
        /\ Ends(t)
    BY <1>1, <1>3 DEF Reuses
  <2> QED BY <2>1, <2>2, TakingUpApart
<1> QED BY <1>2, <1>3

LEMMA AttachNewApart ==
    ASSUME FilesInv, Apart, NEW t \in Request, NEW h \in Holder, AttachNew(t, h)
    PROVE  Apart'
<1>1. PICK f \in File : FreshFile(f) /\
        Becomes(t, [Idle EXCEPT !.at = "uploading", !.kind = "attach", !.holder = h,
                                !.file = f, !.todo = Provider])
  BY DEF AttachNew
<1> DEFINE w == [Idle EXCEPT !.at = "uploading", !.kind = "attach", !.holder = h,
                             !.file = f, !.todo = Provider]
<1>2. f \in 0 .. MaxFile
  BY StoredFilesAssumption DEF File
<1>3. /\ w \in Work /\ w.at = "uploading" /\ w.kind = "attach" /\ w.holder = h /\ w.file = f
      /\ w.copy = NoCopies /\ ~w.late
  BY <1>2, IdleTyped DEF Idle, Work
<1>4. t \in Task /\ t # House /\ work[t].at = "idle" /\ ~Leased(h) /\ UNCHANGED <<row, holds>>
  BY StoredFilesAssumption DEF Task, AttachNew, Starts
<1>5. Becomes(t, w)
  BY <1>1
<1> HIDE DEF w
<1>6. AtWork(w) /\ Attaching(w) /\ ~Made(w) /\ ~Sending(w) /\ EmployedAs(t, w)
  BY <1>3, <1>4 DEF AtWork, Attaching, Made, Sending, EmployedAs
<1> QED BY <1>1, <1>3, <1>4, <1>5, <1>6, Begins

\* The copies an upload makes are nobody's yet.
LEMMA NewCopies ==
    ASSUME FilesInv, Apart, NEW t \in Task, work[t].at = "uploading", NEW p \in Provider,
           NEW n \in NewCopy(t, p)
    PROVE  /\ n # 0 /\ (p \in Keyed => n = work[t].file)
           /\ \A u \in Task \ {t} :
                 Attaching(work[u]) \/ Attaching(work[t]) => work[u].copy[p] # n
           /\ Attaching(work[t]) => \A f \in File : row[f].copy[p] # n
<1>1. AtWork(work[t]) /\ work[t].file \in File /\ work[t].file # 0
  BY WorkNames DEF AtWork
<1>2. CASE p \in Keyed
  <2>1. n = work[t].file /\ n # 0
    BY <1>1, <1>2 DEF NewCopy
  <2>2. ASSUME NEW u \in Task \ {t}, Attaching(work[u]) \/ Attaching(work[t])
        PROVE  work[u].copy[p] # n
    <3>1. work[u].copy[p] \in {0, work[u].file}
      BY <1>2 DEF Apart, NamedAfterRow
    <3>2. work[u].file # work[t].file
      BY <2>2 DEF Apart, NewRows
    <3> QED BY <2>1, <3>1, <3>2
  <2>3. ASSUME Attaching(work[t]), NEW f \in File PROVE row[f].copy[p] # n
    <3>1. row[f].copy[p] \in {0, f}
      BY <1>2 DEF Apart, NamedAfterRow
    <3>2. f = work[t].file => f \notin Rows
      BY <2>3 DEF Apart, NewRows
    <3>3. f = work[t].file => row[f].copy[p] = 0
      BY <3>2 DEF Apart, AbsentHasNone
    <3> QED BY <2>1, <3>1, <3>3
  <2> QED BY <1>2, <2>1, <2>2, <2>3
<1>3. CASE p \notin Keyed
  <2>1. n \in 1 .. MaxCopy /\ (\A f \in File : row[f].copy[p] # n)
        /\ \A u \in Task : work[u].copy[p] # n
    BY <1>3 DEF NewCopy, FreeCopies
  <2>2. n # 0
    BY <2>1, StoredFilesAssumption
  <2> QED BY <1>3, <2>1, <2>2
<1> QED BY <1>2, <1>3

\* What arrived, and what the coroutine has of it.
LEMMA ArrivalIs ==
    ASSUME FilesInv, NEW t \in Task, CopiesArrive(t)
    PROVE  \E bad \in SUBSET work[t].todo : \E new \in Copies : \E w \in Work :
              /\ "upload" \notin Faults => bad = {}
              /\ "delete" \notin Faults => \A p \in bad : new[p] = 0
              /\ \A p \in Provider :
                    /\ new[p] = 0 \/ (p \in work[t].todo /\ new[p] \in NewCopy(t, p))
                    /\ p \in work[t].todo \ bad => new[p] \in NewCopy(t, p)
                    /\ w.copy[p] = IF p \in bad THEN 0 ELSE new[p]
              /\ remote' = [p \in Provider |-> remote[p] \cup ({new[p]} \ {0})]
              /\ Becomes(t, w) /\ w.at = "uploaded" /\ w.failed = bad
              /\ w.kind = work[t].kind /\ w.holder = work[t].holder
              /\ w.file = work[t].file /\ w.todo = work[t].todo /\ w.late = work[t].late
<1>1. PICK bad \in MayFail("upload", work[t].todo) : \E left \in MayFail("delete", bad) :
      \E new \in Copies :
        /\ \A p \in Provider :
             IF p \in (work[t].todo \ bad) \cup left THEN new[p] \in NewCopy(t, p) ELSE new[p] = 0
        /\ remote' = [p \in Provider |-> remote[p] \cup ({new[p]} \ {0})]
        /\ Becomes(t, [work[t] EXCEPT !.at = "uploaded", !.failed = bad,
                                      !.copy = Without(new, bad)])
  BY DEF CopiesArrive
<1>2. PICK left \in MayFail("delete", bad), new \in Copies :
        /\ \A p \in Provider :
             IF p \in (work[t].todo \ bad) \cup left THEN new[p] \in NewCopy(t, p) ELSE new[p] = 0
        /\ remote' = [p \in Provider |-> remote[p] \cup ({new[p]} \ {0})]
        /\ Becomes(t, [work[t] EXCEPT !.at = "uploaded", !.failed = bad,
                                      !.copy = Without(new, bad)])
  BY <1>1
<1> DEFINE w == [work[t] EXCEPT !.at = "uploaded", !.failed = bad, !.copy = Without(new, bad)]
<1>3. work[t] \in Work /\ work[t].at = "uploading"
  BY DEF FilesInv, TypeOK, CopiesArrive
<1>4. bad \in SUBSET work[t].todo /\ bad \in SUBSET Provider /\ left \in SUBSET bad
      /\ ("upload" \notin Faults => bad = {}) /\ ("delete" \notin Faults => left = {})
  BY <1>3 DEF MayFail, Work
<1>5. /\ w \in Work /\ w.at = "uploaded" /\ w.failed = bad /\ w.copy = Without(new, bad)
      /\ w.kind = work[t].kind /\ w.holder = work[t].holder
      /\ w.file = work[t].file /\ w.todo = work[t].todo /\ w.late = work[t].late
  BY <1>3, <1>4, WithoutTyped DEF Work
<1>6. Becomes(t, w)
  BY <1>2
<1> HIDE DEF w
<1>7. \A p \in Provider :
        /\ new[p] = 0 \/ (p \in work[t].todo /\ new[p] \in NewCopy(t, p))
        /\ p \in work[t].todo \ bad => new[p] \in NewCopy(t, p)
        /\ w.copy[p] = IF p \in bad THEN 0 ELSE new[p]
  BY <1>2, <1>4, <1>5 DEF Without
<1>8. "delete" \notin Faults => \A p \in bad : new[p] = 0
  BY <1>2, <1>4
<1> QED BY <1>2, <1>4, <1>5, <1>6, <1>7, <1>8

LEMMA CopiesArriveApart ==
    ASSUME FilesInv, Apart, NEW t \in Task, CopiesArrive(t)
    PROVE  Apart'
<1>1. PICK w \in Work :
        /\ Becomes(t, w) /\ w.at = "uploaded"
        /\ w.kind = work[t].kind /\ w.holder = work[t].holder
        /\ w.file = work[t].file /\ w.late = work[t].late
        /\ \A p \in Provider : w.copy[p] = 0 \/ w.copy[p] \in NewCopy(t, p)
  <2>1. PICK bad \in SUBSET work[t].todo, new \in Copies, w \in Work :
              /\ \A p \in Provider :
                    /\ new[p] = 0 \/ (p \in work[t].todo /\ new[p] \in NewCopy(t, p))
                    /\ w.copy[p] = IF p \in bad THEN 0 ELSE new[p]
              /\ Becomes(t, w) /\ w.at = "uploaded" /\ w.failed = bad
              /\ w.kind = work[t].kind /\ w.holder = work[t].holder
              /\ w.file = work[t].file /\ w.todo = work[t].todo /\ w.late = work[t].late
    BY ArrivalIs
  <2> QED BY <2>1
<1>2. UNCHANGED <<row, holds>> /\ work[t].at = "uploading" /\ AtWork(work[t])
  BY DEF CopiesArrive, AtWork
<1>3. Rows' = Rows /\ EmployedAs(t, work[t])
  BY <1>2 DEF Rows, Present, Apart
<1>4. AtWork(w) /\ EmployedAs(t, w) /\ (Attaching(w) <=> Attaching(work[t]))
      /\ (Sending(w) <=> Sending(work[t])) /\ (Made(w) <=> Attaching(work[t]))
  BY <1>1, <1>2, <1>3 DEF AtWork, EmployedAs, Attaching, Sending, Made
<1>5. Sending(w) => holds'[w.holder] = w.file
  <2>1. Sending(w) => t \in Request
    BY <1>4 DEF EmployedAs, Sending, Task
  <2> QED BY <1>1, <1>2, <1>4, <2>1 DEF Apart, SendersAttached
<1>6. Attaching(w) => w.file \notin Rows' /\ \A u \in Task \ {t} : work[u].file # w.file
  BY <1>1, <1>3, <1>4 DEF Apart, NewRows
<1>7. \A u \in Task \ {t} :
         Attaching(work[u]) => w.file # work[u].file /\ work[u].file \notin Rows'
  BY <1>1, <1>3 DEF Apart, NewRows
<1>8. \A p \in Keyed : w.copy[p] \in {0, w.file} /\ \A f \in File : row'[f].copy[p] \in {0, f}
  BY <1>1, <1>2, NewCopies, StoredFilesAssumption DEF Apart, NamedAfterRow
<1>9. \A f \in File \ Rows' : \A p \in Provider : row'[f].copy[p] = 0
  BY <1>2, <1>3 DEF Apart, AbsentHasNone
<1>10. \A u \in Task \ {t} : Made(work[u]) =>
          \A p \in Provider : work[u].copy[p] # 0 =>
             w.copy[p] # work[u].copy[p] /\ \A f \in File : row'[f].copy[p] # work[u].copy[p]
  BY <1>1, <1>2, NewCopies DEF Apart, OwnCopies, Made
<1>11. Made(w) => \A p \in Provider : w.copy[p] # 0 =>
          /\ \A u \in Task \ {t} : work[u].copy[p] # w.copy[p]
          /\ \A f \in File : row'[f].copy[p] # w.copy[p]
  BY <1>1, <1>2, <1>4, NewCopies
<1> QED BY <1>1, <1>2, <1>4, <1>5, <1>6, <1>7, <1>8, <1>9, <1>10, <1>11, ApartStep

LEMMA AttachResumesApart ==
    ASSUME FilesInv, Apart, NEW t \in Request, AttachResumes(t)
    PROVE  Apart'
<1> DEFINE f == work[t].file
           h == work[t].holder
<1>1. /\ t \in Task /\ work[t].at = "uploaded" /\ Attaching(work[t]) /\ AtWork(work[t])
      /\ Made(work[t])
  BY DEF AttachResumes, Task, Attaching, AtWork, Made
<1>2. work[t] \in Work /\ f \in File /\ h \in Holder /\ EmployedAs(t, work[t])
  BY <1>1, WorkNames DEF Apart
<1>3. CASE Freezes
  BY <1>3, FreezesApart
<1>4. CASE /\ row' = [row EXCEPT ![f] = [state |-> "active", copy |-> work[t].copy,
                                         stale |-> {}]]
           /\ holds' = [holds EXCEPT ![h] = f] /\ Ends(t)
  <2>1. /\ row'[f].copy = work[t].copy /\ row'[f].state = "active"
        /\ \A g \in File \ {f} : row'[g] = row[g]
    BY <1>2, <1>4 DEF FilesInv, TypeOK
  <2>2. Rows' = Rows \cup {f}
    BY <1>2, <2>1 DEF Rows, Present
  <2>3. \A k \in Holder \ {h} : holds'[k] = holds[k]
    BY <1>4 DEF FilesInv, TypeOK
  <2>4. \A u \in Request \ {t} :
          AtWork(work[u]) => holds'[work[u].holder] = holds[work[u].holder]
    BY <1>1, <1>2, <2>3, HoldersApart
  <2>5. \A g \in File, p \in Provider :
           \/ row'[g].copy[p] \in {0, row[g].copy[p]}
           \/ g = work[t].file /\ row'[g].copy[p] = work[t].copy[p]
    BY <2>1
  <2>6. \A g \in File \ Rows' : \A p \in Provider : row'[g].copy[p] = 0
    BY <2>1, <2>2 DEF Apart, AbsentHasNone
  <2> QED BY <1>1, <1>4, <2>2, <2>4, <2>5, <2>6, Finishes
<1>5. CASE UndoesCopies(t, work[t].failed = {} /\ Rows # {}) /\ UNCHANGED <<row, holds>>
  <2>1. PICK v \in {"keep", "none"} : Becomes(t, [work[t] EXCEPT !.at = "undoing", !.verdict = v])
    BY <1>5 DEF UndoesCopies
  <2> DEFINE w == [work[t] EXCEPT !.at = "undoing", !.verdict = v]
  <2>2. /\ w \in Work /\ w.at = "undoing" /\ w.kind = work[t].kind /\ w.holder = work[t].holder
        /\ w.file = work[t].file /\ w.copy = work[t].copy /\ w.late = work[t].late
    BY <1>2 DEF Work
  <2>3. Becomes(t, w)
    BY <2>1
  <2> HIDE DEF w
  <2>4. AtWork(w) /\ EmployedAs(t, w)
    BY <1>1, <1>2, <2>2 DEF AtWork, EmployedAs, Attaching
  <2> QED BY <1>1, <1>5, <2>2, <2>3, <2>4, Continues
<1> QED BY <1>3, <1>4, <1>5 DEF AttachResumes

LEMMA UndoesApart ==
    ASSUME FilesInv, Apart, NEW t \in Request, Undoes(t)
    PROVE  Apart'
<1> DEFINE h == work[t].holder
<1>1. t \in Task /\ AtWork(work[t])
  BY DEF Undoes, Task, AtWork
<1>2. h \in Holder
  BY <1>1, WorkNames
<1>3. CASE UNCHANGED <<row, holds, work>>
  BY <1>3, StaysApart
<1>4. CASE Ends(t) /\ UNCHANGED <<row, holds>>
  BY <1>1, <1>4, Finishes DEF Apart, AbsentHasNone, Rows, Present
<1>5. CASE \E f \in Rows : /\ holds' = [holds EXCEPT ![h] = f]
                           /\ row' = [row EXCEPT ![f].state = "active"] /\ Ends(t)
  <2> HIDE DEF h
  <2>1. PICK f \in Rows : /\ holds' = [holds EXCEPT ![h] = f]
                          /\ row' = [row EXCEPT ![f].state = "active"] /\ Ends(t)
    BY <1>5
  <2>2. work[t].holder = h
    BY DEF h
  <2> QED BY <1>1, <1>2, <2>1, <2>2, TakingUpApart
<1> QED BY <1>3, <1>4, <1>5 DEF Undoes

LEMMA SendStartsIs ==
    ASSUME FilesInv, NEW t \in Request, NEW h \in Holder, NEW p \in Provider,
           SendStarts(t, h, p)
    PROVE  \E w \in Work :
              /\ Becomes(t, w) /\ w.kind = "send" /\ w.holder = h /\ w.file = holds[h] /\ ~w.late
              /\ w.todo = {p} /\ w.failed = {}
              /\ w.at = IF row[holds[h]].copy[p] = 0 THEN "uploading" ELSE "checking"
              /\ \A q \in Provider : w.copy[q] = IF q = p THEN row[holds[h]].copy[p] ELSE 0
<1> DEFINE copy == [NoCopies EXCEPT ![p] = row[holds[h]].copy[p]]
           at == IF copy[p] = 0 THEN "uploading" ELSE "checking"
           w == [Idle EXCEPT !.at = at, !.kind = "send", !.holder = h, !.file = holds[h],
                             !.copy = copy, !.todo = {p}]
<1>1. holds[h] \in File /\ holds[h] \in 0 .. MaxFile
  BY StoredFilesAssumption DEF SendStarts, FilesInv, TypeOK, File
<1>2. row[holds[h]].copy \in Copies
  BY <1>1 DEF FilesInv, TypeOK, StoredFile
<1>3. copy \in Copies /\ \A q \in Provider : copy[q] = IF q = p THEN row[holds[h]].copy[p] ELSE 0
  BY <1>2, StoredFilesAssumption DEF NoCopies, Copies
<1>4. Becomes(t, w)
  BY DEF SendStarts
<1>5. at = IF row[holds[h]].copy[p] = 0 THEN "uploading" ELSE "checking"
  BY <1>3
<1> HIDE DEF copy, at
<1>6. /\ w \in Work /\ w.at = at /\ w.kind = "send" /\ w.holder = h /\ w.file = holds[h] /\ ~w.late
      /\ w.todo = {p} /\ w.failed = {} /\ w.copy = copy
  BY <1>1, <1>3, <1>5, IdleTyped DEF Idle, Work
<1> HIDE DEF w
<1> QED BY <1>3, <1>4, <1>5, <1>6

LEMMA SendStartsApart ==
    ASSUME FilesInv, Apart, NEW t \in Request, NEW h \in Holder, NEW p \in Provider,
           SendStarts(t, h, p)
    PROVE  Apart'
<1>1. PICK w \in Work :
        /\ Becomes(t, w) /\ w.kind = "send" /\ w.holder = h /\ w.file = holds[h] /\ ~w.late
        /\ w.at = IF row[holds[h]].copy[p] = 0 THEN "uploading" ELSE "checking"
        /\ \A q \in Provider : w.copy[q] = IF q = p THEN row[holds[h]].copy[p] ELSE 0
  BY SendStartsIs
<1>2. t \in Task /\ t # House /\ work[t].at = "idle" /\ ~Leased(h) /\ UNCHANGED <<row, holds>>
      /\ holds[h] # 0
  BY StoredFilesAssumption DEF Task, SendStarts, Starts
<1>3. holds[h] \in Rows
  BY <1>2, StoredFilesAssumption
     DEF FilesInv, TypeOK, ActiveIffAttached, File, Rows, Present
<1>4. AtWork(w) /\ ~Attaching(w) /\ ~Made(w) /\ EmployedAs(t, w)
  BY <1>1, <1>2 DEF AtWork, Attaching, Made, EmployedAs
<1> QED BY <1>1, <1>2, <1>3, <1>4, Begins

LEMMA SendMovesApart ==
    ASSUME FilesInv, Apart, NEW t \in Task,
           CheckAnswers(t) \/ SendReuploads(t) \/ SendFails(t) \/ SendUndoes(t)
    PROVE  Apart'
<1>1. work[t] \in Work /\ EmployedAs(t, work[t]) /\ UNCHANGED <<row, holds>>
  BY DEF FilesInv, TypeOK, Apart, CheckAnswers, SendReuploads, SendFails, SendUndoes
<1>2. CASE CheckAnswers(t)
  <2>1. PICK S \in SUBSET Provider : Becomes(t, [work[t] EXCEPT !.at = "answered", !.failed = S])
    BY <1>1, <1>2 DEF CheckAnswers, Work
  <2> DEFINE w == [work[t] EXCEPT !.at = "answered", !.failed = S]
  <2>2. /\ w \in Work /\ w.at = "answered" /\ w.kind = work[t].kind /\ w.holder = work[t].holder
        /\ w.file = work[t].file /\ w.copy = work[t].copy /\ w.late = work[t].late
    BY <1>1 DEF Work
  <2>3. Becomes(t, w) /\ AtWork(work[t])
    BY <1>2, <2>1 DEF CheckAnswers, AtWork
  <2> HIDE DEF w
  <2>4. AtWork(w) /\ EmployedAs(t, w) /\ ~Made(w)
    BY <1>1, <2>2, <2>3 DEF AtWork, EmployedAs, Made
  <2> QED BY <1>1, <2>2, <2>3, <2>4, Continues
<1>3. CASE SendReuploads(t)
  <2>1. NoCopies \in Copies /\ \A p \in Provider : NoCopies[p] = 0
    BY StoredFilesAssumption DEF NoCopies, Copies
  <2>2. PICK w \in Work :
              /\ Becomes(t, w) /\ w.at = "uploading" /\ w.kind = work[t].kind
              /\ w.holder = work[t].holder /\ w.file = work[t].file /\ w.late = work[t].late
              /\ w.copy = NoCopies
    BY <1>1, <1>3, SendReuploadsIs
  <2>3. Becomes(t, w) /\ AtWork(work[t])
    BY <1>3, <2>2 DEF SendReuploads, AtWork
  <2>4. AtWork(w) /\ EmployedAs(t, w) /\ ~Made(w)
    BY <1>1, <2>2, <2>3 DEF AtWork, EmployedAs, Made
  <2> QED BY <1>1, <2>1, <2>2, <2>3, <2>4, Continues
<1>4. CASE SendFails(t)
  BY <1>1, <1>4, Finishes DEF SendFails, Apart, AbsentHasNone, Rows, Present
<1>5. CASE SendUndoes(t)
  BY <1>1, <1>5 DEF SendUndoes, Current, EmployedAs
<1> QED BY <1>2, <1>3, <1>4, <1>5

LEMMA DispatchIs ==
    ASSUME FilesInv, NEW t \in Request, Dispatches(t)
    PROVE  LET f == work[t].file IN
           /\ t \in Task /\ f \in File /\ Sending(work[t])
           /\ Rows' = Rows /\ UNCHANGED holds /\ Ends(t)
           /\ \A g \in File : row'[g].state = row[g].state /\ (g # f => row'[g].copy = row[g].copy)
           /\ \A p \in Provider : row'[f].copy[p] =
                 IF work[t].at = "uploaded" /\ p \in work[t].todo THEN work[t].copy[p]
                                                                  ELSE row[f].copy[p]
<1> DEFINE f == work[t].file
           copy == [p \in Provider |-> IF work[t].at = "uploaded" /\ p \in work[t].todo
                                         THEN work[t].copy[p] ELSE row[f].copy[p]]
           stale == row[f].stale \ work[t].todo
<1>1. t \in Task /\ Placed(work[t]) /\ Sending(work[t]) /\ AtWork(work[t])
  BY DEF FilesInv, Task, Dispatches, MayDispatch, Sending, AtWork
<1>2. f \in File
  BY <1>1 DEF Placed, AtWork
<1>3. row' = [row EXCEPT ![f].copy = copy, ![f].stale = stale]
  BY DEF Dispatches
<1> HIDE DEF f, copy, stale
<1>4. \A g \in File : row'[g].state = row[g].state /\ (g # f => row'[g].copy = row[g].copy)
  BY <1>2, <1>3 DEF FilesInv, TypeOK, StoredFile
<1>5. row'[f].copy = copy
  BY <1>2, <1>3 DEF FilesInv, TypeOK, StoredFile
<1>6. Rows' = Rows
  BY <1>4 DEF Rows, Present
<1> QED BY <1>1, <1>2, <1>4, <1>5, <1>6 DEF Dispatches, f, copy

LEMMA DispatchesApart ==
    ASSUME FilesInv, Apart, NEW t \in Request, Dispatches(t)
    PROVE  Apart'
<1>1. /\ t \in Task /\ work[t].file \in File /\ AtWork(work[t])
      /\ Rows' = Rows /\ UNCHANGED holds /\ Ends(t)
      /\ \A f \in File, p \in Provider :
           \/ row'[f].copy[p] = row[f].copy[p]
           \/ f = work[t].file /\ row'[f].copy[p] = work[t].copy[p]
      /\ \A f \in File : f # work[t].file => row'[f].copy = row[f].copy
  BY DispatchIs DEF Sending
<1>2. work[t].file \in Rows
  BY <1>1 DEF Dispatches, MayDispatch, Rows
<1>3. \A f \in File \ Rows' : \A p \in Provider : row'[f].copy[p] = 0
  BY <1>1, <1>2 DEF Apart, AbsentHasNone
<1> QED BY <1>1, <1>3, Finishes

\* A clean-up that commits: nothing but its own attachment goes.
LEMMA DecidesApart ==
    ASSUME FilesInv, Apart, NEW t \in Task, NEW w \in Work, Lawful([w EXCEPT !.at = "batch"]),
           \/ ~Leased(w.holder)
           \/ t \in Request /\ AtWork(work[t]) /\ work[t].holder = w.holder
           \/ w.holder = NoHolder,
           Becomes(t, [w EXCEPT !.at = "batch"]) /\ UNCHANGED <<row, holds>> => Apart',
           Decides(t, w)
    PROVE  Apart'
<1> DEFINE f == w.file
           b == [w EXCEPT !.at = "batch"]
           left == IF w.kind = "retry" THEN holds ELSE [holds EXCEPT ![w.holder] = 0]
<1>1. /\ b \in Work /\ b.at = "batch" /\ b.file = f /\ b.kind = w.kind /\ b.holder = w.holder
      /\ b.verdict = w.verdict
  BY DEF Work
<1>2. /\ f \in Rows /\ f \in File /\ f # 0
      /\ IF w.kind = "retry" THEN w.holder = NoHolder
         ELSE w.holder \in Holder /\ holds[w.holder] = f
      /\ w.verdict # "keep" => References(f) \subseteq {w.holder}
  <2>1. Lawful(b) /\ Holding(b)
    BY <1>1 DEF Holding
  <2>2. f \in Rows
    BY <1>1, <2>1 DEF Lawful
  <2>3. f \in File /\ f # 0
    BY <2>2, StoredFilesAssumption DEF Rows, File
  <2> HIDE DEF b, f
  <2> QED BY <1>1, <2>1, <2>2, <2>3 DEF Lawful
<1>3. w.holder \in Holder \cup {NoHolder}
  BY <1>2
<1>4. \A h \in Holder : h # w.holder => left[h] = holds[h]
  BY <1>2, StoredFilesAssumption DEF FilesInv, TypeOK
<1>5. CASE Becomes(t, b) /\ UNCHANGED <<row, holds, remote, frozen>>
  BY <1>5
<1>6. CASE Ends(t) /\ UNCHANGED <<row, holds>>
  BY <1>6, Finishes DEF Apart, AbsentHasNone, Rows, Present
<1>7. ASSUME Ends(t), \A h \in Holder \ {w.holder} : holds'[h] = holds[h],
             \A g \in File, p \in Provider : row'[g].copy[p] \in {0, row[g].copy[p]},
             Rows' \subseteq Rows,
             \A g \in Rows \ Rows' : \A p \in Provider : row'[g].copy[p] = 0
      PROVE  Apart'
  <2>1. \A u \in Request \ {t} :
          AtWork(work[u]) => holds'[work[u].holder] = holds[work[u].holder]
    BY <1>3, <1>7, HoldersApart
  <2>2. \A g \in File \ Rows' : \A p \in Provider : row'[g].copy[p] = 0
    BY <1>7 DEF Apart, AbsentHasNone
  <2> QED BY <1>7, <2>1, <2>2, Finishes
<1>8. CASE /\ w.verdict = "drop" /\ row' = [row EXCEPT ![f] = NoRow]
           /\ holds' = [h \in Holder |-> IF left[h] = f THEN 0 ELSE left[h]]
           /\ Ends(t)
  <2>1. \A h \in Holder \ {w.holder} : holds'[h] = holds[h]
    <3>1. \A h \in Holder \ {w.holder} : holds[h] # f
      BY <1>2, <1>8 DEF References
    <3> HIDE DEF left, f
    <3> QED BY <1>4, <1>8, <3>1
  <2>2. row'[f] = NoRow /\ \A g \in File \ {f} : row'[g] = row[g]
    BY <1>2, <1>8 DEF FilesInv, TypeOK
  <2>3. \A p \in Provider : NoRow.copy[p] = 0
    BY DEF NoRow, NoCopies
  <2>4. \A g \in File, p \in Provider : row'[g].copy[p] \in {0, row[g].copy[p]}
    BY <2>2, <2>3
  <2>5. Rows' = Rows \ {f}
    BY <1>2, <2>2 DEF Rows, Present, NoRow
  <2> HIDE DEF f, left
  <2> QED BY <1>2, <1>7, <1>8, <2>1, <2>2, <2>3, <2>4, <2>5
<1>9. CASE /\ row' = [row EXCEPT ![f].state = "delete_failed",
                           ![f].copy = Without(row[f].copy, Named(w.copy) \ w.failed)]
           /\ holds' = left /\ Ends(t)
  <2> DEFINE c == Without(row[f].copy, Named(w.copy) \ w.failed)
  <2>1. \A p \in Provider : c[p] \in {0, row[f].copy[p]}
    BY DEF Without
  <2>2. row' = [row EXCEPT ![f].state = "delete_failed", ![f].copy = c]
    BY <1>9
  <2> HIDE DEF c
  <2>3. /\ row'[f].copy = c /\ row'[f].state = "delete_failed"
        /\ \A g \in File \ {f} : row'[g] = row[g]
    <3> HIDE DEF f
    <3> QED BY <1>2, <2>2 DEF FilesInv, TypeOK, StoredFile
  <2>4. Rows' = Rows
    BY <1>2, <2>3 DEF Rows, Present
  <2>5. \A g \in File, p \in Provider : row'[g].copy[p] \in {0, row[g].copy[p]}
    BY <2>1, <2>3
  <2>6. \A h \in Holder \ {w.holder} : holds'[h] = holds[h]
    <3> HIDE DEF left
    <3> QED BY <1>4, <1>9
  <2> HIDE DEF f, left
  <2> QED BY <1>7, <1>9, <2>4, <2>5, <2>6
<1>10. CASE row' = [row EXCEPT ![f].state = "active"] /\ holds' = left /\ Ends(t)
  <2>1. /\ row'[f].copy = row[f].copy /\ row'[f].state = "active"
        /\ \A g \in File \ {f} : row'[g] = row[g]
    BY <1>2, <1>10 DEF FilesInv, TypeOK, StoredFile
  <2>2. Rows' = Rows
    BY <1>2, <2>1 DEF Rows, Present
  <2>3. \A g \in File, p \in Provider : row'[g].copy[p] \in {0, row[g].copy[p]}
    BY <2>1
  <2>4. \A h \in Holder \ {w.holder} : holds'[h] = holds[h]
    <3> HIDE DEF left
    <3> QED BY <1>4, <1>10
  <2> HIDE DEF f, left
  <2> QED BY <1>7, <1>10, <2>2, <2>3, <2>4
<1> QED BY <1>5, <1>6, <1>8, <1>9, <1>10 DEF Decides

LEMMA CleanUpStartsApart ==
    ASSUME FilesInv, Apart, NEW t \in Task, work[t].at = "idle",
           NEW kind \in {"remove", "discard", "retry"}, NEW h \in Holder \cup {NoHolder},
           NEW f \in Rows, NEW others, others = References(f) \ {h},
           kind = "retry" => h = NoHolder /\ t = House,
           kind # "retry" => h \in Holder /\ holds[h] = f /\ t \in Request /\ ~Leased(h),
           CleanUpStarts(t, kind, h, f, others)
    PROVE  Apart'
<1> DEFINE w == [Idle EXCEPT !.kind = kind, !.holder = h, !.file = f]
<1>1. f \in File /\ f \in 0 .. MaxFile
  BY StoredFilesAssumption DEF Rows, File
<1>2. /\ w \in Work /\ w.kind = kind /\ w.holder = h /\ w.file = f /\ ~w.late /\ w.copy = NoCopies
  BY <1>1, IdleTyped DEF Idle, Work
<1>3. NoCopies \in Copies /\ \A p \in Provider : NoCopies[p] = 0
  BY StoredFilesAssumption DEF NoCopies, Copies
<1>4. t \in Request => t # House
  BY StoredFilesAssumption
<1>5. ASSUME NEW v \in Work, Becomes(t, v), UNCHANGED <<row, holds>>,
             v.at \in {"batch", "deleting"}, v.kind = kind, v.holder = h, v.file = f, ~v.late,
             \A p \in Provider : v.copy[p] \in {0, row[f].copy[p]}
      PROVE  Apart'
  <2>1. AtWork(v) /\ ~Attaching(v) /\ ~Made(v) /\ ~Sending(v) /\ EmployedAs(t, v)
    BY <1>4, <1>5 DEF AtWork, Attaching, Made, Sending, EmployedAs
  <2>2. t \in Request => ~Leased(h)
    BY <1>4
  <2> QED BY <1>5, <2>1, <2>2, Begins
<1>6. CASE Freezes
  BY <1>6, FreezesApart
<1>7. CASE others # {} /\ Decides(t, [w EXCEPT !.verdict = "keep"])
  <2> DEFINE v == [w EXCEPT !.verdict = "keep"]
             b == [v EXCEPT !.at = "batch"]
  <2>1. /\ v \in Work /\ v.kind = kind /\ v.holder = h /\ v.file = f
    BY <1>2 DEF Work
  <2>2. /\ b \in Work /\ b.at = "batch" /\ b.kind = kind /\ b.holder = h /\ b.file = f /\ ~b.late
        /\ b.copy = NoCopies /\ b.verdict = "keep"
    <3>1. b \in Work
      BY <2>1, Moved DEF Stages
    <3>2. /\ b.at = "batch" /\ b.kind = kind /\ b.holder = h /\ b.file = f /\ ~b.late
          /\ b.copy = NoCopies /\ b.verdict = "keep"
      BY <1>2, <2>1 DEF Work
    <3> QED BY <3>1, <3>2
  <2> HIDE DEF b
  <2>3. Lawful(b)
    BY <1>7, <2>2 DEF Lawful, Holding
  <2>4. Becomes(t, b) /\ UNCHANGED <<row, holds>> => Apart'
    BY <1>3, <1>5, <2>2
  <2>5. Decides(t, v)
    BY <1>7
  <2>6. b = [v EXCEPT !.at = "batch"]
    BY DEF b
  <2> HIDE DEF v
  <2> QED BY <2>1, <2>3, <2>4, <2>5, <2>6, DecidesApart
<1>8. CASE /\ Becomes(t, [w EXCEPT !.at = "deleting", !.copy = row[f].copy])
           /\ UNCHANGED <<row, holds, remote, frozen>>
  <2> DEFINE v == [w EXCEPT !.at = "deleting", !.copy = row[f].copy]
  <2>1. row[f].copy \in Copies
    BY <1>1 DEF FilesInv, TypeOK, StoredFile
  <2>2. /\ v \in Work /\ v.at = "deleting" /\ v.kind = kind /\ v.holder = h /\ v.file = f
        /\ ~v.late /\ v.copy = row[f].copy
    <3>1. v \in Work
      BY <1>2, <2>1, Moved DEF Stages
    <3>2. /\ v.at = "deleting" /\ v.kind = kind /\ v.holder = h /\ v.file = f /\ ~v.late
          /\ v.copy = row[f].copy
      BY <1>2, <2>1 DEF Work
    <3> QED BY <3>1, <3>2
  <2>3. Becomes(t, v)
    BY <1>8
  <2> HIDE DEF v
  <2> QED BY <1>5, <1>8, <2>2, <2>3
<1> QED BY <1>6, <1>7, <1>8 DEF CleanUpStarts

LEMMA RemoveStartsApart ==
    ASSUME FilesInv, Apart, NEW t \in Request, NEW h \in Holder, RemoveStarts(t, h)
    PROVE  Apart'
<1>1. PICK kind \in {"remove", "discard"} :
         CleanUpStarts(t, kind, h, holds[h], References(holds[h]) \ {h})
  BY DEF RemoveStarts
<1>2. holds[h] \in Rows
  BY StoredFilesAssumption
     DEF RemoveStarts, FilesInv, TypeOK, ActiveIffAttached, File, Rows, Present
<1>3. t \in Task /\ work[t].at = "idle" /\ ~Leased(h)
  BY DEF RemoveStarts, Starts, Task
<1> QED BY <1>1, <1>2, <1>3, CleanUpStartsApart

LEMMA RetryStartsApart ==
    ASSUME FilesInv, Apart, RetryStarts
    PROVE  Apart'
<1>1. PICK f \in Rows : CleanUpStarts(House, "retry", NoHolder, f, References(f))
  BY DEF RetryStarts
<1>2. References(f) = References(f) \ {NoHolder}
  BY StoredFilesAssumption DEF References
<1>3. House \in Task /\ work[House].at = "idle"
  BY DEF RetryStarts, Task
<1> QED BY <1>1, <1>2, <1>3, CleanUpStartsApart

LEMMA CopiesGoApart ==
    ASSUME FilesInv, Apart, NEW t \in Task, CopiesGo(t)
    PROVE  Apart'
<1>1. work[t] \in Work /\ EmployedAs(t, work[t]) /\ AtWork(work[t]) /\ UNCHANGED <<row, holds>>
  BY DEF FilesInv, TypeOK, Apart, CopiesGo, AtWork
<1>2. PICK bad \in MayFail("delete", Named(work[t].copy)) :
         Becomes(t, [work[t] EXCEPT !.at = "deleted", !.failed = bad])
  BY DEF CopiesGo
<1> DEFINE w == [work[t] EXCEPT !.at = "deleted", !.failed = bad]
<1>3. bad \in SUBSET Provider
  BY DEF MayFail, Named
<1>4. /\ w \in Work /\ w.at = "deleted" /\ w.kind = work[t].kind /\ w.holder = work[t].holder
      /\ w.file = work[t].file /\ w.copy = work[t].copy /\ w.late = work[t].late
  BY <1>1, <1>3 DEF Work
<1>5. Becomes(t, w)
  BY <1>2
<1> HIDE DEF w
<1>6. AtWork(w) /\ EmployedAs(t, w) /\ ~Made(w)
  BY <1>1, <1>4 DEF AtWork, EmployedAs, Made
<1> QED BY <1>1, <1>4, <1>5, <1>6, Continues

LEMMA CleanUpResumesApart ==
    ASSUME FilesInv, Apart, NEW t \in Task, CleanUpResumes(t)
    PROVE  Apart'
<1>1. /\ work[t] \in Work /\ Lawful(work[t]) /\ EmployedAs(t, work[t])
      /\ work[t].at \in {"deleted", "batch"} /\ AtWork(work[t]) /\ Holding(work[t])
  BY DEF FilesInv, TypeOK, Apart, CleanUpResumes, AtWork, Holding
<1>2. \/ t \in Request /\ AtWork(work[t]) 
      \/ work[t].holder = NoHolder
  <2>1. t = House => work[t].kind = "retry"
    BY <1>1 DEF EmployedAs, Lawful, AtWork
  <2> QED BY <1>1, <2>1 DEF Lawful, Task
<1>3. ASSUME NEW v \in Work, \/ v = work[t] /\ work[t].at = "batch"
                             \/ \E d \in {"drop", "fail"} :
                                  v = [work[t] EXCEPT !.verdict = d] /\ work[t].at = "deleted",
             Decides(t, v)
      PROVE  Apart'
  <2> DEFINE b == [v EXCEPT !.at = "batch"]
  <2>1. /\ v.kind = work[t].kind /\ v.holder = work[t].holder /\ v.file = work[t].file
        /\ v.copy = work[t].copy /\ v.late = work[t].late
        /\ \/ work[t].at = "deleted" /\ v.verdict \in {"drop", "fail"}
           \/ work[t].at = "batch" /\ v.verdict = work[t].verdict
    BY <1>1, <1>3 DEF Work
  <2>2. /\ b \in Work /\ b.at = "batch" /\ b.kind = v.kind /\ b.holder = v.holder
        /\ b.file = v.file /\ b.copy = v.copy /\ b.late = v.late /\ b.verdict = v.verdict
    BY DEF Work
  <2>3. b = [v EXCEPT !.at = "batch"]
    OBVIOUS
  <2> HIDE DEF b
  <2>4. Lawful(b)
    BY <1>1, <2>1, <2>2 DEF Lawful, Holding
  <2>5. AtWork(b) /\ EmployedAs(t, b) /\ ~Made(b)
    BY <1>1, <2>1, <2>2 DEF AtWork, EmployedAs, Made
  <2>6. Becomes(t, b) /\ UNCHANGED <<row, holds>> => Apart'
    BY <1>1, <2>1, <2>2, <2>5, Continues
  <2>7. Becomes(t, [v EXCEPT !.at = "batch"]) /\ UNCHANGED <<row, holds>> => Apart'
    BY <2>3, <2>6
  <2>8. Lawful([v EXCEPT !.at = "batch"])
    BY <2>3, <2>4
  <2>9. \/ t \in Request /\ AtWork(work[t]) /\ work[t].holder = v.holder
        \/ v.holder = NoHolder
    BY <1>2, <2>1
  <2> QED BY <1>3, <2>7, <2>8, <2>9, DecidesApart
<1>4. CASE work[t].at = "deleted"
  <2>1. PICK d \in {"drop", "fail"} : Decides(t, [work[t] EXCEPT !.verdict = d])
    BY <1>4 DEF CleanUpResumes
  <2>2. [work[t] EXCEPT !.verdict = d] \in Work
    BY <1>1 DEF Work
  <2> QED BY <1>3, <1>4, <2>1, <2>2
<1>5. CASE work[t].at = "batch"
  BY <1>1, <1>3, <1>5 DEF CleanUpResumes
<1> QED BY <1>1, <1>4, <1>5

LEMMA SweepStartsIs ==
    ASSUME FilesInv, NEW kind \in {"reconcile", "purge"}, SweepStarts(kind)
    PROVE  \E f \in Rows : \E w \in Work :
              /\ Becomes(House, w) /\ w.at = "sweeping" /\ w.kind = kind /\ w.file = f
              /\ ~w.late /\ w.failed = {}
              /\ \A p \in Provider : w.copy[p] = IF p \in w.todo THEN row[f].copy[p] ELSE 0
              /\ \A p \in w.todo : row[f].copy[p] # 0
<1>1. PICK f \in Rows, read \in SUBSET Provider :
         /\ \A p \in read : row[f].copy[p] # 0
         /\ Becomes(House, [Idle EXCEPT !.at = "sweeping", !.kind = kind, !.file = f,
                              !.copy = Without(row[f].copy, Provider \ read), !.todo = read])
  <2>1. PICK f \in Rows :
          LET read == IF kind = "purge" THEN Named(row[f].copy) \cap row[f].stale
                      ELSE Named(row[f].copy)
          IN Becomes(House, [Idle EXCEPT !.at = "sweeping", !.kind = kind, !.file = f,
                               !.copy = Without(row[f].copy, Provider \ read), !.todo = read])
    BY DEF SweepStarts
  <2> DEFINE read == IF kind = "purge" THEN Named(row[f].copy) \cap row[f].stale
                     ELSE Named(row[f].copy)
  <2>2. read \in SUBSET Provider /\ \A p \in read : row[f].copy[p] # 0
    BY DEF Named
  <2> QED BY <2>1, <2>2
<1> DEFINE c == Without(row[f].copy, Provider \ read)
           w == [Idle EXCEPT !.at = "sweeping", !.kind = kind, !.file = f, !.copy = c,
                             !.todo = read]
<1>2. f \in File /\ f \in 0 .. MaxFile
  BY StoredFilesAssumption DEF Rows, File
<1>3. c \in Copies /\ \A p \in Provider : c[p] = IF p \in read THEN row[f].copy[p] ELSE 0
  BY <1>2, WithoutTyped DEF FilesInv, TypeOK, StoredFile, Without
<1> HIDE DEF c
<1>4. /\ w \in Work /\ w.at = "sweeping" /\ w.kind = kind /\ w.file = f
      /\ ~w.late /\ w.failed = {} /\ w.copy = c /\ w.todo = read
  BY <1>2, <1>3, IdleTyped DEF Work, Idle
<1>5. Becomes(House, w)
  BY <1>1 DEF c
<1> HIDE DEF w
<1> QED BY <1>1, <1>3, <1>4, <1>5

LEMMA SweepCallsIs ==
    ASSUME FilesInv, SweepCalls
    PROVE  \E p \in work[House].todo : \E w \in Work :
              /\ Becomes(House, w) /\ w.at = "sweeping" /\ w.kind = work[House].kind
              /\ w.holder = work[House].holder /\ w.file = work[House].file
              /\ w.late = work[House].late /\ w.copy = work[House].copy
              /\ w.todo = work[House].todo \ {p}
              /\ w.failed \in {work[House].failed, work[House].failed \cup {p}}
              /\ work[House].kind # "purge" =>
                    /\ UNCHANGED remote
                    /\ work[House].copy[p] \in remote[p] => w.failed = work[House].failed
<1>1. House \in Task /\ work[House] \in Work /\ work[House].at = "sweeping"
  BY DEF FilesInv, TypeOK, SweepCalls, Task
<1>2. PICK p \in work[House].todo :
        LET marked == [work[House] EXCEPT !.todo = @ \ {p}, !.failed = @ \cup {p}]
            skipped == [work[House] EXCEPT !.todo = @ \ {p}]
        IN IF work[House].kind = "purge"
             THEN Becomes(House, marked) \/ Becomes(House, skipped)
             ELSE /\ \/ Becomes(House, skipped)
                     \/ work[House].copy[p] \notin remote[p] /\ Becomes(House, marked)
                  /\ UNCHANGED remote
  BY DEF SweepCalls
<1> DEFINE marked == [work[House] EXCEPT !.todo = @ \ {p}, !.failed = @ \cup {p}]
           skipped == [work[House] EXCEPT !.todo = @ \ {p}]
<1>3. p \in Provider /\ work[House].todo \ {p} \in SUBSET Provider
      /\ work[House].failed \cup {p} \in SUBSET Provider
  BY <1>1, <1>2 DEF Work
<1>4. /\ marked \in Work /\ marked.at = "sweeping" /\ marked.kind = work[House].kind
      /\ marked.holder = work[House].holder /\ marked.file = work[House].file
      /\ marked.late = work[House].late /\ marked.copy = work[House].copy
      /\ marked.todo = work[House].todo \ {p} /\ marked.failed = work[House].failed \cup {p}
  BY <1>1, <1>3 DEF Work
<1>5. /\ skipped \in Work /\ skipped.at = "sweeping" /\ skipped.kind = work[House].kind
      /\ skipped.holder = work[House].holder /\ skipped.file = work[House].file
      /\ skipped.late = work[House].late /\ skipped.copy = work[House].copy
      /\ skipped.todo = work[House].todo \ {p} /\ skipped.failed = work[House].failed
  BY <1>1, <1>3 DEF Work
<1>6. IF work[House].kind = "purge"
        THEN Becomes(House, marked) \/ Becomes(House, skipped)
        ELSE /\ \/ Becomes(House, skipped)
                \/ work[House].copy[p] \notin remote[p] /\ Becomes(House, marked)
             /\ UNCHANGED remote
  BY <1>2
<1> HIDE DEF marked, skipped
<1>7. CASE work[House].kind = "purge"
  BY <1>4, <1>5, <1>6, <1>7
<1>8. CASE work[House].kind # "purge" /\ Becomes(House, skipped)
  BY <1>5, <1>6, <1>8
<1>9. CASE work[House].kind # "purge" /\ ~Becomes(House, skipped)
  BY <1>4, <1>6, <1>9
<1> QED BY <1>7, <1>8, <1>9

LEMMA SweepCommitsIs ==
    ASSUME FilesInv, SweepCommits
    PROVE  /\ House \in Task /\ Ends(House) /\ UNCHANGED <<holds, remote>> /\ Rows' = Rows
           /\ \A f \in File, p \in Provider : row'[f].copy[p] =
                 IF f = work[House].file /\ f \in Rows /\ p \in work[House].failed THEN 0
                 ELSE row[f].copy[p]
<1> DEFINE f == work[House].file
           c == Without(row[f].copy, work[House].failed)
<1>1. House \in Task /\ f \in File
  BY DEF FilesInv, TypeOK, SweepCommits, SweepEnds, Task, Placed
<1>2. IF Present(f) THEN row' = [row EXCEPT ![f].copy = c] ELSE row' = row
  BY DEF SweepCommits, Unmarks
<1>3. \A p \in Provider : c[p] = IF p \in work[House].failed THEN 0 ELSE row[f].copy[p]
  BY DEF Without
<1> HIDE DEF f, c
<1>4. /\ \A g \in File : row'[g].state = row[g].state /\ (g # f => row'[g].copy = row[g].copy)
      /\ row'[f].copy = IF f \in Rows THEN c ELSE row[f].copy
  BY <1>1, <1>2 DEF FilesInv, TypeOK, StoredFile, Rows
<1>5. Rows' = Rows
  BY <1>4 DEF Rows, Present
<1>6. Ends(House) /\ UNCHANGED <<holds, remote>>
  BY DEF SweepCommits
<1>7. \A g \in File, p \in Provider : row'[g].copy[p] =
                 IF g = f /\ g \in Rows /\ p \in work[House].failed THEN 0
                 ELSE row[g].copy[p]
  BY <1>3, <1>4
<1> QED BY <1>1, <1>5, <1>6, <1>7 DEF f

LEMMA SweepsApart ==
    ASSUME FilesInv, Apart,
           (\E kind \in {"reconcile", "purge"} : SweepStarts(kind)) \/ SweepCalls \/ SweepCommits
    PROVE  Apart'
<1>1. House \in Task /\ House \notin Request
  BY StoredFilesAssumption DEF Task
<1>2. ASSUME NEW kind \in {"reconcile", "purge"}, SweepStarts(kind) PROVE Apart'
  <2>1. PICK f \in Rows, w \in Work :
              /\ Becomes(House, w) /\ w.at = "sweeping" /\ w.kind = kind /\ w.file = f
              /\ ~w.late
              /\ \A p \in Provider : w.copy[p] = IF p \in w.todo THEN row[f].copy[p] ELSE 0
    BY <1>2, SweepStartsIs
  <2>2. AtWork(w) /\ EmployedAs(House, w) /\ ~Made(w) /\ ~Sending(w) /\ ~Attaching(w)
    BY <2>1 DEF AtWork, EmployedAs, Made, Sending, Attaching
  <2>3. work[House].at = "idle" /\ UNCHANGED <<row, holds>>
    BY <1>2 DEF SweepStarts
  <2> QED BY <1>1, <2>1, <2>2, <2>3, Begins
<1>3. CASE SweepCalls
  <2>1. PICK w \in Work :
              /\ Becomes(House, w) /\ w.at = "sweeping" /\ w.kind = work[House].kind
              /\ w.holder = work[House].holder /\ w.file = work[House].file
              /\ w.late = work[House].late /\ w.copy = work[House].copy
    BY <1>3, SweepCallsIs
  <2>2. AtWork(work[House]) /\ EmployedAs(House, work[House]) /\ UNCHANGED <<row, holds>>
    BY <1>1, <1>3 DEF SweepCalls, Apart, AtWork
  <2>3. AtWork(w) /\ EmployedAs(House, w) /\ ~Made(w)
    BY <2>1, <2>2 DEF AtWork, EmployedAs, Made
  <2> QED BY <1>1, <2>1, <2>2, <2>3, Continues
<1>4. CASE SweepCommits
  <2>1. \A f \in File, p \in Provider : row'[f].copy[p] \in {0, row[f].copy[p]}
    BY <1>4, SweepCommitsIs
  <2>2. Rows' = Rows /\ UNCHANGED holds /\ Ends(House)
    BY <1>4, SweepCommitsIs
  <2>3. \A f \in File \ Rows' : \A p \in Provider : row'[f].copy[p] = 0
    BY <2>1, <2>2 DEF Apart, AbsentHasNone
  <2> QED BY <1>1, <2>1, <2>2, <2>3, Finishes
<1> QED BY <1>2, <1>3, <1>4

LEMMA RestartsApart ==
    ASSUME FilesInv, Apart, Restarts
    PROVE  Apart'
<1>1. UNCHANGED <<row, holds>> /\ \A t \in Task : work'[t] = Idle
  BY DEF Restarts
<1>2. Rows' = Rows /\ Request \subseteq Task
  BY <1>1 DEF Rows, Present, Task
<1>3. \A t \in Task : EmployedAs(t, work'[t]) /\ ~AtWork(work'[t])
  BY <1>1, IdleIs
<1>4. (\A t \in Task : EmployedAs(t, work[t]))'
  BY <1>3 DEF EmployedAs, AtWork
<1>5. Alone' /\ SendersAttached' /\ NewRows' /\ OwnCopies'
  BY <1>2, <1>3 DEF Alone, SendersAttached, NewRows, OwnCopies, Made, Attaching, Sending, AtWork
<1>6. NamedAfterRow' /\ AbsentHasNone'
  BY <1>1, <1>2, IdleIs, StoredFilesAssumption DEF Apart, NamedAfterRow, AbsentHasNone
<1> QED BY <1>4, <1>5, <1>6 DEF Apart

LEMMA InitApart == Init => Apart
<1> SUFFICES ASSUME Init PROVE Apart
  OBVIOUS
<1>1. \A t \in Task : work[t] = Idle
  BY DEF Init
<1>2. \A f \in File : \A p \in Provider : row[f].copy[p] = 0
  BY DEF Init, NoRow, NoCopies
<1>3. Request \subseteq Task
  BY DEF Task
<1>4. Alone /\ SendersAttached /\ NewRows /\ OwnCopies
  BY <1>1, <1>3, IdleIs DEF Alone, SendersAttached, NewRows, OwnCopies
<1>5. NamedAfterRow /\ AbsentHasNone
  BY <1>1, <1>2, IdleIs, StoredFilesAssumption DEF NamedAfterRow, AbsentHasNone
<1> QED BY <1>1, <1>4, <1>5, IdleIs DEF Apart

\* As long as no operation expires, whatever else may fail.
LEMMA ApartInductive ==
    ASSUME "timeout" \notin Faults, FilesInv, Apart, [Next]_vars
    PROVE  Apart'
<1>1. ASSUME NEW t \in Request, RequestNext(t) PROVE Apart'
  <2>1. CASE \E h \in Holder :
               \/ AttachKnown(t, h) \/ AttachNew(t, h) \/ RemoveStarts(t, h)
               \/ \E p \in Provider : SendStarts(t, h, p)
    BY <2>1, AttachKnownApart, AttachNewApart, RemoveStartsApart, SendStartsApart
  <2>2. CASE AttachResumes(t) \/ Undoes(t) \/ Dispatches(t)
    BY <2>2, AttachResumesApart, UndoesApart, DispatchesApart
  <2>3. CASE SendReuploads(t) \/ SendFails(t) \/ SendUndoes(t)
    BY <2>3, SendMovesApart DEF Task
  <2>4. ~TimesOut(t)
    BY DEF TimesOut, Apart, EmployedAs, Task
  <2> QED BY <1>1, <2>1, <2>2, <2>3, <2>4 DEF RequestNext
<1>2. ASSUME NEW t \in Task, ProviderNext(t) PROVE Apart'
  BY <1>2, CopiesArriveApart, SendMovesApart, CopiesGoApart DEF ProviderNext
<1>3. ASSUME NEW t \in Task, CleanUpResumes(t) \/ CopiesBlock(t) PROVE Apart'
  BY <1>3, CleanUpResumesApart, FreezesApart DEF CopiesBlock
<1>4. ASSUME HouseNext PROVE Apart'
  BY <1>4, RetryStartsApart, SweepsApart DEF HouseNext
<1>5. ASSUME NEW p \in Provider, Vanishes(p) PROVE Apart'
  BY <1>5, StaysApart DEF Vanishes
<1>6. ASSUME NEW p \in Provider, NEW f \in File, Ages(f, p) PROVE Apart'
  <2>1. \A g \in File : row'[g].copy = row[g].copy /\ row'[g].state = row[g].state
    BY <1>6 DEF Ages, FilesInv, TypeOK, StoredFile
  <2> QED BY <1>6, <2>1, StaysApart DEF Ages
<1>7. \A t \in Request : ~Expires(t)
  BY DEF Expires
<1>8. ASSUME UNCHANGED vars PROVE Apart'
  BY <1>8, StaysApart DEF vars
<1> QED BY <1>1, <1>2, <1>3, <1>4, <1>5, <1>6, <1>7, <1>8, RestartsApart DEF Next, World

-----------------------------------------------------------------------------
(* What a send has found or made stays where it is *)

Dispatchable(w) == Sending(w) /\ w.at \in {"answered", "uploaded"} /\ w.failed = {}

Founded ==
    /\ work[House].kind # "purge"
    /\ \A t \in Request : Dispatchable(work[t]) =>
          \A p \in work[t].todo : work[t].copy[p] \in remote[p]

\* A row whose copies go has nobody on it but the request that removes it.
LEMMA NobodySends ==
    ASSUME FilesInv, Apart, NEW t \in Task, Holding(work[t]),
           work[t].at # "batch" \/ work[t].verdict # "keep", NEW u \in Request
    PROVE  ~Sending(work[u])
<1> SUFFICES ASSUME Sending(work[u]) PROVE FALSE
  OBVIOUS
<1>1. u \in Task /\ work[u].holder \in Holder /\ work[u].file \in File
      /\ work[u].file # 0 /\ holds[work[u].holder] = work[u].file
  BY WorkNames DEF Sending, Task, Apart, SendersAttached
<1>2. work[u].file \in Rows
  BY <1>1 DEF FilesInv, ActiveIffAttached, Rows, Present
<1>3. /\ work[t].file \in Rows /\ References(work[t].file) \subseteq {work[t].holder}
      /\ work[t].kind \in {"remove", "discard", "retry"}
      /\ work[t].kind = "retry" => work[t].holder = NoHolder
  BY DEF FilesInv, Lawful
<1>4. work[u].file = work[t].file
  BY <1>2, <1>3 DEF FilesInv, OneRow
<1>5. work[u].holder = work[t].holder
  BY <1>1, <1>3, <1>4 DEF References
<1>6. work[t].kind # "retry"
  BY <1>1, <1>3, <1>5, StoredFilesAssumption
<1>7. t \in Request /\ AtWork(work[t])
  BY <1>3, <1>6 DEF Apart, EmployedAs, AtWork, Holding, Task
<1>8. t = u
  BY <1>5, <1>7 DEF Apart, Alone, Sending
<1> QED BY <1>3, <1>8 DEF Sending

\* A step takes from the providers nothing but what its coroutine has made, or is to
\* delete; and that is no copy of a send.
LEMMA FoundedStep ==
    ASSUME FilesInv, Apart, Founded, NEW t \in Task, NEW w \in Work, Becomes(t, w),
           w.kind # "purge",
           Dispatchable(w) /\ t \in Request => \A p \in w.todo : w.copy[p] \in remote'[p],
           \/ UNCHANGED remote
           \/ \A p \in Provider : remote[p] \subseteq remote'[p]
           \/ /\ work[t].at = "deleting" \/ Made(work[t])
              /\ \A p \in Provider : remote[p] \ {work[t].copy[p]} \subseteq remote'[p]
    PROVE  Founded'
<1>1. work'[t] = w /\ \A u \in Task \ {t} : work'[u] = work[u]
  BY DEF FilesInv, TypeOK, Becomes
<1>2. Request \subseteq Task /\ House \in Task
  BY DEF Task
<1>3. ASSUME NEW u \in Request \ {t}, Dispatchable(work[u]), NEW p \in work[u].todo
      PROVE  work[u].copy[p] \in remote'[p]
  <2>1. p \in Provider /\ work[u].copy[p] \in remote[p] /\ Sending(work[u])
    BY <1>2, <1>3 DEF Founded, Dispatchable, FilesInv, TypeOK, Work
  <2>2. work[u].copy[p] # 0
    BY <2>1, StoredFilesAssumption DEF FilesInv, TypeOK
  <2>3. work[t].at # "deleting"
    BY <1>3, <2>1, NobodySends DEF Holding
  <2>4. Made(work[t]) => work[u].copy[p] # work[t].copy[p]
    BY <1>2, <2>1, <2>2 DEF Apart, OwnCopies
  <2> QED BY <2>1, <2>3, <2>4
<1>4. ASSUME NEW u \in Request, Dispatchable(work'[u]), NEW p \in work'[u].todo
      PROVE  work'[u].copy[p] \in remote'[p]
  <2>1. CASE u = t
    BY <1>1, <1>4, <2>1
  <2>2. CASE u # t
    BY <1>1, <1>2, <1>3, <1>4, <2>2
  <2> QED BY <2>1, <2>2
<1>5. work'[House].kind # "purge"
  BY <1>1, <1>2 DEF Founded
<1> QED BY <1>4, <1>5 DEF Founded, Dispatchable, Sending, AtWork

\* The coroutines have in hand what they had.
LEMMA FoundedStays ==
    ASSUME FilesInv, Founded, UNCHANGED <<work, remote>>
    PROVE  Founded'
BY DEF Founded, Dispatchable, Sending, AtWork

LEMMA IdleFounds == Idle \in Work /\ Idle.kind # "purge" /\ ~Dispatchable(Idle)
BY IdleIs DEF Idle, Dispatchable

LEMMA EndsFounded ==
    ASSUME FilesInv, Apart, Founded, NEW t \in Task, Ends(t), UNCHANGED remote
    PROVE  Founded'
BY IdleFounds, FoundedStep DEF Ends

LEMMA FreezesFounded == FilesInv /\ Founded /\ Freezes => Founded'
BY FoundedStays DEF Freezes

LEMMA AttachesFounded ==
    ASSUME FilesInv, Apart, Founded, NEW t \in Request,
           AttachResumes(t) \/ \E h \in Holder : AttachKnown(t, h) \/ AttachNew(t, h)
    PROVE  Founded'
<1>1. t \in Task
  BY DEF Task
<1>2. ASSUME NEW h \in Holder, AttachKnown(t, h) PROVE Founded'
  <2>1. Freezes \/ (Ends(t) /\ UNCHANGED remote)
    BY <1>2 DEF AttachKnown, Reuses
  <2> QED BY <1>1, <2>1, FreezesFounded, EndsFounded
<1>3. ASSUME NEW h \in Holder, AttachNew(t, h) PROVE Founded'
  <2>1. PICK f \in File :
          Becomes(t, [Idle EXCEPT !.at = "uploading", !.kind = "attach", !.holder = h,
                                  !.file = f, !.todo = Provider])
    BY <1>3 DEF AttachNew
  <2> DEFINE w == [Idle EXCEPT !.at = "uploading", !.kind = "attach", !.holder = h,
                               !.file = f, !.todo = Provider]
  <2>2. f \in 0 .. MaxFile
    BY StoredFilesAssumption DEF File
  <2>3. w \in Work /\ w.kind = "attach"
    BY <2>2, IdleTyped DEF Idle, Work
  <2>4. Becomes(t, w) /\ UNCHANGED remote
    BY <1>3, <2>1 DEF AttachNew
  <2> HIDE DEF w
  <2> QED BY <1>1, <2>3, <2>4, FoundedStep DEF Dispatchable, Sending
<1>4. CASE AttachResumes(t)
  <2>1. work[t] \in Work /\ work[t].kind = "attach"
    BY <1>1, <1>4 DEF FilesInv, TypeOK, AttachResumes
  <2>2. CASE Freezes \/ (Ends(t) /\ UNCHANGED remote)
    BY <1>1, <2>2, FreezesFounded, EndsFounded
  <2>3. CASE UndoesCopies(t, work[t].failed = {} /\ Rows # {}) /\ UNCHANGED remote
    <3>1. PICK v \in {"keep", "none"} : Becomes(t, [work[t] EXCEPT !.at = "undoing", !.verdict = v])
      BY <2>3 DEF UndoesCopies
    <3> DEFINE w == [work[t] EXCEPT !.at = "undoing", !.verdict = v]
    <3>2. w \in Work /\ w.kind = "attach" /\ Becomes(t, w)
      BY <2>1, <3>1 DEF Work
    <3> HIDE DEF w
    <3> QED BY <1>1, <2>3, <3>2, FoundedStep DEF Dispatchable, Sending
  <2> QED BY <1>4, <2>2, <2>3 DEF AttachResumes
<1> QED BY <1>2, <1>3, <1>4

\* What the undoing of an attachment takes from the providers.
LEMMA UndoesIs ==
    ASSUME FilesInv, NEW t \in Request, Undoes(t)
    PROVE  /\ \A p \in Provider : /\ remote[p] \ {work[t].copy[p]} \subseteq remote'[p]
                                  /\ remote'[p] \subseteq remote[p]
           /\ "delete" \notin Faults => \A p \in Provider : remote'[p] = remote[p] \ {work[t].copy[p]}
           /\ UNCHANGED work \/ Ends(t)
           /\ \A f \in File : row'[f].copy = row[f].copy
           /\ Rows' = Rows
<1>1. PICK left \in MayFail("delete", Named(work[t].copy)) :
         remote' = [p \in Provider |-> IF p \in left THEN remote[p]
                                       ELSE remote[p] \ {work[t].copy[p]}]
  BY DEF Undoes
<1>2. "delete" \notin Faults => left = {}
  BY DEF MayFail
<1>3. (UNCHANGED work \/ Ends(t)) /\ (UNCHANGED row \/ \E f \in Rows : row' = [row EXCEPT ![f].state = "active"])
  BY DEF Undoes
<1>4. \A f \in File : row'[f].copy = row[f].copy /\ (row'[f].state # "none" <=> row[f].state # "none")
  BY <1>3 DEF FilesInv, TypeOK, StoredFile, Rows, Present
<1>5. Rows' = Rows
  BY <1>4 DEF Rows, Present
<1> QED BY <1>1, <1>2, <1>3, <1>4, <1>5

LEMMA UndoesFounded ==
    ASSUME FilesInv, Apart, Founded, NEW t \in Request, Undoes(t)
    PROVE  Founded'
<1>1. t \in Task /\ work[t] \in Work /\ EmployedAs(t, work[t]) /\ work[t].at = "undoing"
  BY DEF Task, FilesInv, TypeOK, Apart, Undoes
<1>2. Made(work[t]) /\ work[t].kind = "attach" /\ ~Dispatchable(work[t])
  BY <1>1 DEF EmployedAs, Made, Attaching, AtWork, Dispatchable, Sending
<1>3. Becomes(t, work[t]) \/ Becomes(t, Idle)
  BY <1>1, UndoesIs DEF Becomes, Ends, FilesInv, TypeOK
<1>4. \A p \in Provider : remote[p] \ {work[t].copy[p]} \subseteq remote'[p]
  BY UndoesIs
<1> QED BY <1>1, <1>2, <1>3, <1>4, IdleFounds, FoundedStep

LEMMA SendsFounded ==
    ASSUME FilesInv, Apart, Founded, NEW t \in Task,
           \/ t \in Request /\ \E h \in Holder, p \in Provider : SendStarts(t, h, p)
           \/ CheckAnswers(t) \/ SendReuploads(t) \/ SendFails(t) \/ SendUndoes(t)
           \/ t \in Request /\ Dispatches(t)
    PROVE  Founded'
<1>1. work[t] \in Work
  BY DEF FilesInv, TypeOK
<1>2. ASSUME t \in Request, NEW h \in Holder, NEW p \in Provider, SendStarts(t, h, p)
      PROVE  Founded'
  <2>1. PICK w \in Work : Becomes(t, w) /\ w.kind = "send" /\ w.at \in {"uploading", "checking"}
    BY <1>2, SendStartsIs
  <2>2. UNCHANGED remote
    BY <1>2 DEF SendStarts
  <2> QED BY <2>1, <2>2, FoundedStep DEF Dispatchable
<1>3. CASE CheckAnswers(t)
  <2> DEFINE S == {p \in work[t].todo : work[t].copy[p] \notin remote[p]}
             w == [work[t] EXCEPT !.at = "answered", !.failed = S]
  <2>1. S \in SUBSET Provider
    BY <1>1 DEF Work
  <2>2. /\ w \in Work /\ w.kind = work[t].kind /\ w.copy = work[t].copy /\ w.todo = work[t].todo
        /\ w.failed = S
    BY <1>1, <2>1 DEF Work
  <2>3. Becomes(t, w) /\ UNCHANGED remote
    BY <1>3 DEF CheckAnswers
  <2>4. work[t].kind # "purge"
    BY <1>3, <1>1 DEF FilesInv, Placed, CheckAnswers
  <2>5. Dispatchable(w) => \A p \in w.todo : w.copy[p] \in remote'[p]
    <3> HIDE DEF w
    <3> QED BY <2>2, <2>3 DEF Dispatchable
  <2> HIDE DEF w, S
  <2> QED BY <2>2, <2>3, <2>4, <2>5, FoundedStep
<1>4. CASE SendReuploads(t)
  <2>1. PICK w \in Work : Becomes(t, w) /\ w.at = "uploading" /\ w.kind = work[t].kind
    BY <1>1, <1>4, SendReuploadsIs
  <2>2. UNCHANGED remote
    BY <1>4 DEF SendReuploads
  <2>3. work[t].kind # "purge"
    BY <1>4, <1>1 DEF FilesInv, Placed, SendReuploads
  <2> QED BY <2>1, <2>2, <2>3, FoundedStep DEF Dispatchable
<1>5. CASE SendFails(t) \/ (t \in Request /\ Dispatches(t))
  <2>1. Ends(t) /\ UNCHANGED remote
    BY <1>5 DEF SendFails, Dispatches
  <2> QED BY <2>1, EndsFounded
<1>6. ~SendUndoes(t)
  BY DEF SendUndoes, Current, Apart, EmployedAs
<1> QED BY <1>2, <1>3, <1>4, <1>5, <1>6

LEMMA CopiesArriveFounded ==
    ASSUME FilesInv, Apart, Founded, NEW t \in Task, CopiesArrive(t)
    PROVE  Founded'
<1>1. PICK bad \in SUBSET work[t].todo, new \in Copies, w \in Work :
              /\ \A p \in Provider :
                    /\ p \in work[t].todo \ bad => new[p] \in NewCopy(t, p)
                    /\ w.copy[p] = IF p \in bad THEN 0 ELSE new[p]
              /\ remote' = [p \in Provider |-> remote[p] \cup ({new[p]} \ {0})]
              /\ Becomes(t, w) /\ w.at = "uploaded" /\ w.failed = bad
              /\ w.kind = work[t].kind /\ w.todo = work[t].todo
  BY ArrivalIs
<1>2. \A p \in Provider : remote[p] \subseteq remote'[p]
  BY <1>1
<1>3. work[t] \in Work /\ work[t].at = "uploading" /\ work[t].kind # "purge"
  BY DEF FilesInv, TypeOK, CopiesArrive, Placed
<1>4. Dispatchable(w) => \A p \in w.todo : w.copy[p] \in remote'[p]
  <2> SUFFICES ASSUME w.failed = {}, NEW p \in w.todo PROVE w.copy[p] \in remote'[p]
    BY DEF Dispatchable
  <2>1. p \in Provider /\ p \in work[t].todo \ bad /\ w.copy[p] = new[p]
    BY <1>1, <1>3 DEF Work
  <2>2. new[p] \in NewCopy(t, p)
    BY <1>1, <2>1
  <2>3. new[p] # 0
    BY <1>3, <2>1, <2>2, NewCopies
  <2> QED BY <1>1, <2>1, <2>3
<1> QED BY <1>1, <1>2, <1>3, <1>4, FoundedStep

LEMMA CleanUpsFounded ==
    ASSUME FilesInv, Apart, Founded, NEW t \in Task,
           \/ t \in Request /\ \E h \in Holder : RemoveStarts(t, h)
           \/ t = House /\ RetryStarts
           \/ CopiesGo(t) \/ CleanUpResumes(t)
    PROVE  Founded'
<1>1. work[t] \in Work
  BY DEF FilesInv, TypeOK
<1>2. ASSUME NEW w \in Work, w.kind \in {"remove", "discard", "retry"}, Decides(t, w)
      PROVE  Founded'
  <2>1. Ends(t) \/ Becomes(t, [w EXCEPT !.at = "batch"])
    BY <1>2 DEF Decides
  <2>2. UNCHANGED remote
    BY <1>2 DEF Decides
  <2> DEFINE b == [w EXCEPT !.at = "batch"]
  <2>3. b \in Work /\ b.kind = w.kind
    BY <1>2 DEF Work
  <2>4. Ends(t) \/ Becomes(t, b)
    BY <2>1
  <2> HIDE DEF b
  <2>5. b.kind # "purge" /\ ~Dispatchable(b)
    BY <1>2, <2>3 DEF Dispatchable, Sending
  <2> QED BY <2>2, <2>3, <2>4, <2>5, EndsFounded, FoundedStep
<1>3. ASSUME NEW kind \in {"remove", "discard", "retry"}, NEW h \in Holder \cup {NoHolder},
             NEW f \in File, NEW others, CleanUpStarts(t, kind, h, f, others)
      PROVE  Founded'
  <2> DEFINE w == [Idle EXCEPT !.kind = kind, !.holder = h, !.file = f]
             v == [w EXCEPT !.verdict = "keep"]
             d == [w EXCEPT !.at = "deleting", !.copy = row[f].copy]
  <2>1. f \in 0 .. MaxFile /\ row[f].copy \in Copies
    BY StoredFilesAssumption DEF File, FilesInv, TypeOK, StoredFile
  <2>2. w \in Work /\ w.kind = kind
    BY <2>1, IdleTyped DEF Idle, Work
  <2>3. v \in Work /\ v.kind = kind /\ d \in Work /\ d.kind = kind
    <3>1. v \in Work /\ d \in Work
      BY <2>1, <2>2, Moved DEF Stages
    <3>2. v.kind = kind /\ d.kind = kind
      BY <2>2 DEF Work
    <3> QED BY <3>1, <3>2
  <2>4. Freezes \/ Decides(t, v) \/ (Becomes(t, d) /\ UNCHANGED remote)
    BY <1>3 DEF CleanUpStarts
  <2> HIDE DEF v, d
  <2>5. d.kind # "purge" /\ ~Dispatchable(d)
    BY <2>3 DEF Dispatchable, Sending
  <2> QED BY <1>2, <2>3, <2>4, <2>5, FreezesFounded, FoundedStep
<1>4. CASE t \in Request /\ \E h \in Holder : RemoveStarts(t, h)
  <2>1. PICK h \in Holder, kind \in {"remove", "discard"} :
           holds[h] # 0 /\ CleanUpStarts(t, kind, h, holds[h], References(holds[h]) \ {h})
    BY <1>4 DEF RemoveStarts
  <2>2. holds[h] \in File
    BY <2>1, StoredFilesAssumption DEF FilesInv, TypeOK, File
  <2> QED BY <1>3, <2>1, <2>2
<1>5. CASE t = House /\ RetryStarts
  <2>1. PICK f \in File : CleanUpStarts(House, "retry", NoHolder, f, References(f))
    BY <1>5 DEF RetryStarts, Rows
  <2> QED BY <1>3, <1>5, <2>1
<1>6. CASE CopiesGo(t)
  <2>1. PICK bad \in MayFail("delete", Named(work[t].copy)) :
           /\ remote' = [p \in Provider |-> IF p \in bad THEN remote[p]
                                            ELSE remote[p] \ {work[t].copy[p]}]
           /\ Becomes(t, [work[t] EXCEPT !.at = "deleted", !.failed = bad])
    BY <1>6 DEF CopiesGo
  <2> DEFINE w == [work[t] EXCEPT !.at = "deleted", !.failed = bad]
  <2>2. bad \in SUBSET Provider
    BY DEF MayFail, Named
  <2>3. w \in Work /\ w.at = "deleted" /\ w.kind = work[t].kind
    <3>1. w \in Work
      BY <1>1, <2>2, Moved DEF Stages
    <3>2. w.at = "deleted" /\ w.kind = work[t].kind
      BY <1>1, <2>2 DEF Work
    <3> QED BY <3>1, <3>2
  <2>4. Becomes(t, w)
    BY <2>1
  <2> HIDE DEF w
  <2>5. work[t].at = "deleting" /\ w.kind # "purge" /\ ~Dispatchable(w)
    BY <1>6, <2>3 DEF CopiesGo, FilesInv, Lawful, Holding, Dispatchable
  <2>6. \A p \in Provider : remote[p] \ {work[t].copy[p]} \subseteq remote'[p]
    BY <2>1
  <2> QED BY <2>3, <2>4, <2>5, <2>6, FoundedStep
<1>7. CASE CleanUpResumes(t)
  <2>1. work[t].kind \in {"remove", "discard", "retry"}
    BY <1>7 DEF CleanUpResumes, FilesInv, Lawful, Holding
  <2>2. PICK v \in {work[t]} \cup {[work[t] EXCEPT !.verdict = d] : d \in {"drop", "fail"}} :
           Decides(t, v)
    BY <1>7 DEF CleanUpResumes
  <2>3. v \in Work /\ v.kind = work[t].kind
    BY <1>1 DEF Work
  <2> QED BY <1>2, <2>1, <2>2, <2>3
<1> QED BY <1>4, <1>5, <1>6, <1>7

\* As long as no operation expires, no copy vanishes and nothing is purged.
LEMMA FoundedInductive ==
    ASSUME "timeout" \notin Faults, "vanish" \notin Faults, "purge" \notin Chores,
           FilesInv, Apart, Founded, [Next]_vars
    PROVE  Founded'
<1>1. House \in Task /\ Request \subseteq Task /\ House \notin Request
  BY StoredFilesAssumption DEF Task
<1>2. ASSUME NEW t \in Request, RequestNext(t) PROVE Founded'
  <2>1. ~TimesOut(t)
    BY <1>1 DEF TimesOut, Apart, EmployedAs
  <2> QED BY <1>1, <1>2, <2>1, AttachesFounded, UndoesFounded, SendsFounded, CleanUpsFounded
          DEF RequestNext
<1>3. ASSUME NEW t \in Task, ProviderNext(t) \/ CleanUpResumes(t) \/ CopiesBlock(t)
      PROVE  Founded'
  BY <1>3, CopiesArriveFounded, SendsFounded, CleanUpsFounded, FreezesFounded
     DEF ProviderNext, CopiesBlock
<1>4. CASE RetryStarts
  BY <1>1, <1>4, CleanUpsFounded
<1>5. ASSUME NEW kind \in {"reconcile", "purge"}, SweepStarts(kind) PROVE Founded'
  <2>1. kind # "purge"
    BY <1>5 DEF SweepStarts
  <2>2. PICK w \in Work : Becomes(House, w) /\ w.kind = kind
    BY <1>5, SweepStartsIs
  <2> QED BY <1>1, <1>5, <2>1, <2>2, FoundedStep DEF SweepStarts
<1>6. CASE SweepCalls
  <2>1. PICK w \in Work : Becomes(House, w) /\ w.kind = work[House].kind
                          /\ (work[House].kind # "purge" => UNCHANGED remote)
    BY <1>6, SweepCallsIs
  <2> QED BY <1>1, <2>1, FoundedStep DEF Founded
<1>7. CASE SweepCommits
  BY <1>1, <1>7, EndsFounded DEF SweepCommits
<1>8. CASE Restarts
  <2>1. \A t \in Task : work'[t] = Idle
    BY <1>8 DEF Restarts
  <2>2. \A t \in Task : work'[t].kind # "purge" /\ ~Dispatchable(work'[t])
    BY <2>1, IdleFounds
  <2> QED BY <1>1, <2>2 DEF Founded, Dispatchable, Sending, AtWork
<1>9. ASSUME UNCHANGED <<work, remote>> PROVE Founded'
  BY <1>9, FoundedStays
<1>10. CASE World
  BY <1>8, <1>9, <1>10 DEF World, Vanishes, Ages, Expires
<1>11. CASE UNCHANGED vars
  BY <1>9, <1>11 DEF vars
<1> QED BY <1>2, <1>3, <1>4, <1>5, <1>6, <1>7, <1>10, <1>11 DEF Next, HouseNext

LEMMA FoundedDispatches ==
    ASSUME Founded
    PROVE  DispatchIsFounded
BY DEF Founded, DispatchIsFounded, Dispatches, MayDispatch, Dispatchable, Sending, AtWork

-----------------------------------------------------------------------------
(* When only uploads fail *)

OnlyUploadsFail == Faults \subseteq {"upload"} /\ "purge" \notin Chores

\* The copies of the row of w are deleted.
Dooms(w) == w.at = "deleted" \/ (w.at = "batch" /\ w.verdict # "keep")

\* What a coroutine has in hand fits the rows and the copies there are.
FitsWith(w, rows, there) ==
    /\ w.at \in {"checking", "answered"} => w.kind = "send"
    /\ Sending(w) =>
          /\ w.at \in {"checking", "answered"} /\ w.failed = {}
          /\ \A p \in w.todo : w.copy[p] \in there[p]
    /\ Attaching(w) /\ w.at = "uploading" => w.todo = Provider
    /\ Attaching(w) /\ w.at = "uploaded" /\ w.failed = {} =>
          \A p \in Provider : w.copy[p] \in there[p]
    /\ w.at = "deleting" => \A p \in Provider : w.copy[p] = rows[w.file].copy[p]
    /\ w.at = "deleted" => w.failed = {}
    /\ w.at = "batch" => w.verdict # "fail"
    /\ Dooms(w) => \A p \in Provider : rows[w.file].copy[p] \notin there[p]
    /\ w.at = "sweeping" =>
          /\ \A p \in w.failed : w.copy[p] \notin there[p]
          /\ rows[w.file].state # "none" =>
                \A p \in w.failed \cup w.todo : rows[w.file].copy[p] = w.copy[p]
Fits(w) == FitsWith(w, row, remote)

\* The copies of a row that is not going are there.
Complete ==
    \A f \in Rows : (\A t \in Task : Dooms(work[t]) => work[t].file # f) =>
        \A p \in Provider : row[f].copy[p] \in remote[p]

Owned ==
    \A p \in Provider : \A n \in remote[p] :
        \/ \E f \in File : row[f].copy[p] = n
        \/ \E t \in Task : Made(work[t]) /\ work[t].copy[p] = n

Followed == (\A t \in Task : Fits(work[t])) /\ Complete /\ Owned

LEMMA FollowedTracks == Followed => CopiesAreTracked
BY DEF Followed, Owned, CopiesAreTracked, Tracked

LEMMA IdleFits == Fits(Idle) /\ ~Dooms(Idle) /\ ~Made(Idle)
BY IdleIs DEF Idle, Fits, FitsWith, Dooms, Sending, Attaching, AtWork

\* No copy has the id 0.
LEMMA NotNone == TypeOK => \A p \in Provider : 0 \notin remote[p]
BY StoredFilesAssumption DEF TypeOK

\* What a coroutine has in hand fits on when the copies it has to find are still there,
\* those it has to miss are not, and the row it works on names what it named.
LEMMA FitsAgain ==
    ASSUME NEW w \in Work, NEW rows, NEW there, FitsWith(w, rows, there),
           NEW rows2, NEW there2,
           Sending(w) \/ Made(w) =>
              \A p \in Provider : w.copy[p] \in there[p] => w.copy[p] \in there2[p],
           w.at = "deleting" =>
              \A p \in Provider : rows2[w.file].copy[p] = rows[w.file].copy[p],
           Dooms(w) => \A p \in Provider : rows2[w.file].copy[p] \notin there2[p],
           w.at = "sweeping" =>
              /\ \A p \in w.failed : w.copy[p] \notin there2[p]
              /\ rows2[w.file].state # "none" =>
                    /\ rows[w.file].state # "none"
                    /\ \A p \in w.failed \cup w.todo :
                          rows2[w.file].copy[p] = rows[w.file].copy[p]
    PROVE  FitsWith(w, rows2, there2)
BY DEF FitsWith, Work, Made

\* A step that leaves the copies alone, of the providers and of the rows.
LEMMA FollowedStill ==
    ASSUME FilesInv, Followed, NEW t \in Task, NEW w \in Work, Becomes(t, w),
           UNCHANGED remote, Rows' = Rows, \A f \in File : row'[f].copy = row[f].copy,
           Fits(w), Placed(w),
           Dooms(work[t]) => Dooms(w) /\ w.file = work[t].file,
           Made(work[t]) => Made(w) /\ w.copy = work[t].copy
    PROVE  Followed'
<1>1. work'[t] = w /\ \A u \in Task \ {t} : work'[u] = work[u]
  BY DEF FilesInv, TypeOK, Becomes
<1>3. ASSUME NEW u \in Task PROVE Fits(work[u])'
  <2>1. work'[u] \in Work /\ FitsWith(work'[u], row, remote) /\ Placed(work'[u])
    BY <1>1 DEF FilesInv, TypeOK, Followed, Fits
  <2>2. work'[u].at # "idle" =>
          /\ row'[work'[u].file].copy = row[work'[u].file].copy
          /\ row'[work'[u].file].state # "none" <=> row[work'[u].file].state # "none"
    <3>1. work'[u].at # "idle" => work'[u].file \in File
      BY <2>1 DEF Placed
    <3>2. \A f \in File : row'[f].state # "none" <=> row[f].state # "none"
      BY DEF Rows, Present
    <3> QED BY <3>1, <3>2
  <2>3. FitsWith(work'[u], row', remote')
    <3> DEFINE v == work'[u]
    <3>1. v \in Work /\ FitsWith(v, row, remote)
      BY <2>1
    <3>2. Dooms(v) => \A p \in Provider : row[v.file].copy[p] \notin remote[p]
      BY <3>1 DEF FitsWith
    <3>3. v.at = "sweeping" => \A p \in v.failed : v.copy[p] \notin remote[p]
      BY <3>1 DEF FitsWith
    <3>4. v.at # "idle" =>
          /\ row'[v.file].copy = row[v.file].copy
          /\ row'[v.file].state # "none" <=> row[v.file].state # "none"
      BY <2>2
    <3> HIDE DEF v
    <3>5. Dooms(v) \/ v.at \in {"deleting", "sweeping"} => v.at # "idle"
      BY DEF Dooms
    <3>6. FitsWith(v, row', remote')
      BY <3>1, <3>2, <3>3, <3>4, <3>5, FitsAgain
    <3> QED BY <3>6 DEF v
  <2> QED BY <2>3 DEF Fits
<1>4. Complete'
  <2> SUFFICES ASSUME NEW f \in Rows, \A u \in Task : Dooms(work'[u]) => work'[u].file # f
               PROVE  \A p \in Provider : row'[f].copy[p] \in remote'[p]
    BY DEF Complete, Dooms
  <2>1. f \in File /\ row'[f].copy = row[f].copy
    BY DEF Rows
  <2>2. \A u \in Task : Dooms(work[u]) => work[u].file # f
    BY <1>1
  <2> QED BY <2>1, <2>2 DEF Followed, Complete
<1>5. Owned'
  <2>1. ASSUME NEW u \in Task, Made(work[u])
        PROVE  Made(work'[u]) /\ work'[u].copy = work[u].copy
    BY <1>1, <2>1
  <2> SUFFICES ASSUME NEW p \in Provider, NEW n \in remote[p]
               PROVE  \/ \E f \in File : row'[f].copy[p] = n
                      \/ \E u \in Task : Made(work'[u]) /\ work'[u].copy[p] = n
    BY DEF Owned, Made, Attaching, AtWork
  <2> QED BY <2>1 DEF Followed, Owned
<1> QED BY <1>3, <1>4, <1>5 DEF Followed

\* A coroutine ends that had neither made copies nor deleted any.
LEMMA EndsFollowed ==
    ASSUME FilesInv, Followed, NEW t \in Task, Ends(t), UNCHANGED remote, Rows' = Rows,
           \A f \in File : row'[f].copy = row[f].copy, ~Dooms(work[t]), ~Made(work[t])
    PROVE  Followed'
BY IdleIs, IdleTyped, IdleFits, FollowedStill DEF Ends

\* The coroutines go on having in hand what they had.
LEMMA StaysFollowed ==
    ASSUME FilesInv, Followed, UNCHANGED <<work, remote, row>>
    PROVE  Followed'
<1>1. House \in Task /\ work[House] \in Work /\ Fits(work[House]) /\ Placed(work[House])
  BY DEF Task, FilesInv, TypeOK, Followed
<1>2. Becomes(House, work[House]) /\ Rows' = Rows
  BY DEF FilesInv, TypeOK, Becomes, Rows, Present
<1> QED BY <1>1, <1>2, FollowedStill

LEMMA FreezesFollowed == FilesInv /\ Followed /\ Freezes => Followed'
BY StaysFollowed DEF Freezes

\* An attachment to a row there is, by a coroutine that had nothing in hand.
LEMMA AttachKnownFollowed ==
    ASSUME FilesInv, Followed, NEW t \in Request, NEW h \in Holder, AttachKnown(t, h)
    PROVE  Followed'
<1>1. PICK f \in Rows : Reuses(t, h, f)
  BY DEF AttachKnown
<1>2. CASE Freezes
  BY <1>2, FreezesFollowed
<1>3. CASE row' = [row EXCEPT ![f].state = "active"] /\ Ends(t) /\ UNCHANGED remote
  <2>1. \A g \in File : row'[g].copy = row[g].copy /\ (row'[g].state # "none" <=> row[g].state # "none")
    BY <1>3 DEF FilesInv, TypeOK, StoredFile, Rows, Present
  <2>2. Rows' = Rows
    BY <2>1 DEF Rows, Present
  <2>3. t \in Task /\ ~Dooms(work[t]) /\ ~Made(work[t])
    BY DEF Task, AttachKnown, Starts, Dooms, Made
  <2> QED BY <1>3, <2>1, <2>2, <2>3, EndsFollowed
<1> QED BY <1>1, <1>2, <1>3 DEF Reuses

LEMMA AttachNewFollowed ==
    ASSUME FilesInv, Followed, NEW t \in Request, NEW h \in Holder, AttachNew(t, h)
    PROVE  Followed'
<1>1. PICK f \in File :
        Becomes(t, [Idle EXCEPT !.at = "uploading", !.kind = "attach", !.holder = h,
                                !.file = f, !.todo = Provider])
  BY DEF AttachNew
<1> DEFINE w == [Idle EXCEPT !.at = "uploading", !.kind = "attach", !.holder = h,
                             !.file = f, !.todo = Provider]
<1>2. f \in 0 .. MaxFile
  BY StoredFilesAssumption DEF File
<1>3. /\ w \in Work /\ w.at = "uploading" /\ w.kind = "attach" /\ w.holder = h /\ w.file = f
      /\ w.todo = Provider
  BY <1>2, IdleTyped DEF Idle, Work
<1>4. t \in Task /\ UNCHANGED <<row, remote>> /\ Rows' = Rows
      /\ ~Dooms(work[t]) /\ ~Made(work[t])
  BY DEF Task, AttachNew, Starts, Rows, Present, Dooms, Made
<1>5. Becomes(t, w)
  BY <1>1
<1> HIDE DEF w
<1>6. Fits(w) /\ Placed(w)
  BY <1>3 DEF Fits, FitsWith, Placed, Sending, Dooms
<1> QED BY <1>3, <1>4, <1>5, <1>6, FollowedStill

LEMMA SendStartsFollowed ==
    ASSUME FilesInv, Apart, Followed, NEW t \in Request, NEW h \in Holder, NEW p \in Provider,
           SendStarts(t, h, p)
    PROVE  Followed'
<1>1. PICK w \in Work :
              /\ Becomes(t, w) /\ w.kind = "send" /\ w.holder = h /\ w.file = holds[h] /\ ~w.late
              /\ w.todo = {p} /\ w.failed = {}
              /\ w.at = IF row[holds[h]].copy[p] = 0 THEN "uploading" ELSE "checking"
              /\ w.copy[p] = row[holds[h]].copy[p]
  BY SendStartsIs
<1>2. holds[h] \in Rows /\ holds[h] \in File
  BY StoredFilesAssumption
     DEF SendStarts, FilesInv, TypeOK, ActiveIffAttached, File, Rows, Present
<1>3. ASSUME NEW u \in Task, Dooms(work[u]) PROVE work[u].file # holds[h]
  <2> SUFFICES ASSUME work[u].file = holds[h] PROVE FALSE
    OBVIOUS
  <2>1. Holding(work[u]) /\ Lawful(work[u]) /\ EmployedAs(u, work[u])
    BY <1>3 DEF Dooms, Holding, FilesInv, Apart
  <2>2. /\ References(work[u].file) \subseteq {work[u].holder}
        /\ work[u].kind = "retry" => work[u].holder = NoHolder
        /\ work[u].kind \in {"remove", "discard", "retry"}
    BY <1>3, <2>1 DEF Lawful, Dooms
  <2>3. work[u].holder = h
    BY <2>2 DEF References
  <2>4. u \in Request /\ work[u].at # "idle" /\ ~work[u].late
    BY <2>1, <2>2, <2>3, StoredFilesAssumption DEF EmployedAs, AtWork, Holding, Task
  <2> QED BY <2>3, <2>4 DEF SendStarts, Starts, Leased
<1>4. row[holds[h]].copy[p] \in remote[p]
  BY <1>2, <1>3 DEF Followed, Complete
<1>5. w.at = "checking" /\ \A q \in w.todo : w.copy[q] \in remote[q]
  BY <1>1, <1>4, NotNone DEF FilesInv
<1>6. t \in Task /\ UNCHANGED <<row, remote>> /\ Rows' = Rows
      /\ ~Dooms(work[t]) /\ ~Made(work[t])
  BY DEF Task, SendStarts, Starts, Rows, Present, Dooms, Made
<1>7. Fits(w) /\ Placed(w)
  BY <1>1, <1>2, <1>5 DEF Fits, FitsWith, Placed, Attaching, Dooms
<1> QED BY <1>1, <1>6, <1>7, FollowedStill

LEMMA SendMovesFollowed ==
    ASSUME FilesInv, Apart, Followed, NEW t \in Task,
           \/ CheckAnswers(t) \/ SendReuploads(t) \/ SendFails(t) \/ SendUndoes(t)
           \/ t \in Request /\ Dispatches(t)
    PROVE  Followed'
<1>1. work[t] \in Work /\ Fits(work[t]) /\ Placed(work[t])
  BY DEF FilesInv, TypeOK, Followed
<1>2. CASE CheckAnswers(t)
  <2> DEFINE S == {p \in work[t].todo : work[t].copy[p] \notin remote[p]}
             w == [work[t] EXCEPT !.at = "answered", !.failed = S]
  <2>1. S \in SUBSET Provider /\ work[t].at = "checking"
    BY <1>1, <1>2 DEF Work, CheckAnswers
  <2>2. /\ w \in Work /\ w.at = "answered" /\ w.kind = work[t].kind /\ w.copy = work[t].copy
        /\ w.todo = work[t].todo /\ w.failed = S /\ w.file = work[t].file
        /\ w.holder = work[t].holder
    BY <1>1, <2>1 DEF Work
  <2>3. Becomes(t, w) /\ UNCHANGED <<row, remote>> /\ Rows' = Rows
    BY <1>2 DEF CheckAnswers, Rows, Present
  <2>4. work[t].kind \in {"attach", "send"}
    BY <1>2 DEF CheckAnswers, FilesInv, Placed
  <2>5. Sending(work[t]) => S = {}
    BY <1>1 DEF Fits, FitsWith
  <2> HIDE DEF w, S
  <2>6. Sending(w) => Sending(work[t])
    BY <2>1, <2>2 DEF Sending, AtWork
  <2>7. Fits(w)
    BY <1>1, <2>1, <2>2, <2>5, <2>6 DEF Fits, FitsWith, Dooms
  <2>8. Placed(w) /\ ~Dooms(work[t]) /\ ~Made(work[t])
    BY <1>1, <2>1, <2>2 DEF Placed, Dooms, Made
  <2> QED BY <2>2, <2>3, <2>7, <2>8, FollowedStill
<1>3. ~SendReuploads(t)
  BY <1>1 DEF SendReuploads, Fits, FitsWith, Sending, AtWork
<1>4. CASE SendFails(t)
  <2>1. ~Dooms(work[t]) /\ ~Made(work[t]) /\ UNCHANGED <<row, remote>> /\ Ends(t) /\ Rows' = Rows
    BY <1>4 DEF SendFails, Dooms, Made, Attaching, Rows, Present
  <2> QED BY <2>1, EndsFollowed
<1>5. ~SendUndoes(t)
  BY DEF SendUndoes, Current, Apart, EmployedAs
<1>6. CASE t \in Request /\ Dispatches(t)
  <2>1. Sending(work[t]) /\ Ends(t) /\ Rows' = Rows /\ UNCHANGED remote
    BY <1>6, DispatchIs DEF Dispatches
  <2>2. work[t].at # "uploaded" /\ ~Dooms(work[t]) /\ ~Made(work[t])
    BY <1>1, <2>1 DEF Fits, FitsWith, Sending, Dooms, Made, Attaching
  <2>3. row' = [row EXCEPT ![work[t].file].copy =
                   [p \in Provider |-> row[work[t].file].copy[p]],
                 ![work[t].file].stale = row[work[t].file].stale \ work[t].todo]
    BY <1>6, <2>2 DEF Dispatches
  <2>4. work[t].file \in File
    BY <1>1, <2>1 DEF Placed, Sending, AtWork
  <2>5. row[work[t].file].copy = [p \in Provider |-> row[work[t].file].copy[p]]
    <3>1. row[work[t].file].copy \in [Provider -> 0 .. MaxCopy]
      BY <2>4 DEF FilesInv, TypeOK, StoredFile, Copies
    <3> QED BY <3>1
  <2>6. \A f \in File : row'[f].copy = row[f].copy
    <3> DEFINE n == work[t].file  c == [p \in Provider |-> row[n].copy[p]]
    <3>1. row \in [File -> StoredFile] /\ n \in File /\ row[n].copy = c
      BY <2>4, <2>5 DEF FilesInv, TypeOK
    <3>2. row' = [row EXCEPT ![n].copy = c, ![n].stale = row[n].stale \ work[t].todo]
      BY <2>3
    <3> HIDE DEF n, c
    <3>3. \A f \in File : f # n => row'[f] = row[f]
      BY <3>1, <3>2
    <3>4. row'[n].copy = c
      BY <3>1, <3>2 DEF StoredFile
    <3> QED BY <3>1, <3>3, <3>4
  <2> QED BY <2>1, <2>2, <2>6, EndsFollowed
<1> QED BY <1>2, <1>3, <1>4, <1>5, <1>6

\* A clean-up that goes on, keeps its row or finds that the copies are gone.
LEMMA DecidesFollowed ==
    ASSUME FilesInv, Apart, Followed, NEW t \in Task, NEW w \in Work,
           Fits([w EXCEPT !.at = "batch"]), Lawful([w EXCEPT !.at = "batch"]),
           Dooms(work[t]) => w.verdict # "keep" /\ w.file = work[t].file,
           w.verdict # "keep" => w.file = work[t].file /\ Holding(work[t]),
           ~Made(work[t]), ~w.late, Decides(t, w)
    PROVE  Followed'
<1> DEFINE f == w.file
           b == [w EXCEPT !.at = "batch"]
<1>1. /\ b \in Work /\ b.at = "batch" /\ b.file = f /\ b.kind = w.kind /\ b.holder = w.holder
      /\ b.verdict = w.verdict /\ b.copy = w.copy
  BY DEF Work
<1>2. /\ f \in Rows /\ f \in File
      /\ b.kind \in {"remove", "discard", "retry"} /\ b.verdict \in {"keep", "drop"}
      /\ b.kind # "retry" => b.holder \in Holder
      /\ b.verdict = "drop" => \A p \in Provider : row[f].copy[p] \notin remote[p]
  BY <1>1 DEF Lawful, Holding, Fits, FitsWith, Dooms, Rows
<1>3. CASE Becomes(t, b) /\ UNCHANGED <<row, holds, remote, frozen>>
  <2>1. Rows' = Rows /\ (Dooms(work[t]) => Dooms(b) /\ b.file = work[t].file)
    BY <1>1, <1>3 DEF Rows, Present, Dooms
  <2>2. Placed(b) /\ Fits(b)
    BY <1>1, <1>2 DEF Placed
  <2> HIDE DEF b
  <2> QED BY <1>1, <1>3, <2>1, <2>2, FollowedStill
<1>4. CASE w.verdict = "drop" /\ row' = [row EXCEPT ![f] = NoRow] /\ Ends(t) /\ UNCHANGED remote
  <2>1. row'[f] = NoRow /\ \A g \in File \ {f} : row'[g] = row[g]
    BY <1>2, <1>4 DEF FilesInv, TypeOK
  <2>2. Rows' = {}
    BY <1>2, <2>1 DEF Rows, Present, NoRow, FilesInv, OneRow
  <2>3. work'[t] = Idle /\ \A u \in Task \ {t} : work'[u] = work[u] /\ ~Holding(work[u])
    BY <1>4 DEF FilesInv, TypeOK, Ends, Becomes
  <2>4. ASSUME NEW u \in Task PROVE Fits(work[u])'
    <3>1. Fits(work'[u]) /\ ~Holding(work'[u])
      BY <2>3, IdleFits, IdleTyped DEF Followed
    <3> DEFINE v == work'[u]
    <3>2. v \in Work /\ FitsWith(v, row, remote) /\ Placed(v) /\ ~Holding(v)
      BY <2>3, <3>1, IdleTyped DEF FilesInv, TypeOK, Fits
    <3>3. v.at = "sweeping" => row'[v.file].state = "none"
      BY <2>2, <3>2 DEF Placed, Rows, Present
    <3>4. UNCHANGED remote
      BY <1>4
    <3> HIDE DEF v
    <3>5. v.at = "sweeping" => \A p \in v.failed : v.copy[p] \notin remote[p]
      BY <3>2 DEF FitsWith
    <3>6. FitsWith(v, row', remote')
      BY <3>2, <3>3, <3>4, <3>5, FitsAgain DEF Holding, Dooms
    <3> QED BY <3>6 DEF v, Fits
  <2>5. Owned'
    <3> SUFFICES ASSUME NEW p \in Provider, NEW n \in remote[p]
                 PROVE  \/ \E g \in File : row'[g].copy[p] = n
                        \/ \E u \in Task : Made(work'[u]) /\ work'[u].copy[p] = n
      BY <1>4 DEF Owned, Made, Attaching, AtWork
    <3>1. CASE \E g \in File : row[g].copy[p] = n
      <4>1. PICK g \in File : row[g].copy[p] = n
        BY <3>1
      <4>2. g # f
        BY <1>1, <1>2, <1>4, <4>1
      <4> QED BY <2>1, <4>1, <4>2
    <3>2. CASE \E u \in Task : Made(work[u]) /\ work[u].copy[p] = n
      <4>1. PICK u \in Task : Made(work[u]) /\ work[u].copy[p] = n
        BY <3>2
      <4> QED BY <2>3, <4>1
    <3> QED BY <3>1, <3>2 DEF Followed, Owned
  <2> QED BY <2>2, <2>4, <2>5 DEF Followed, Complete
<1>5. CASE /\ w.verdict = "keep" /\ row' = [row EXCEPT ![f].state = "active"]
           /\ Ends(t) /\ UNCHANGED remote
  <2>1. \A g \in File : row'[g].copy = row[g].copy /\ (row'[g].state # "none" <=> row[g].state # "none")
    BY <1>2, <1>5 DEF FilesInv, TypeOK, StoredFile, Rows, Present
  <2>2. Rows' = Rows /\ ~Dooms(work[t])
    BY <1>5, <2>1 DEF Rows, Present
  <2> QED BY <1>5, <2>1, <2>2, EndsFollowed
<1> QED BY <1>1, <1>2, <1>3, <1>4, <1>5 DEF Decides

LEMMA CleanUpStartsFollowed ==
    ASSUME FilesInv, Apart, Followed, NEW t \in Task, work[t].at = "idle",
           NEW kind \in {"remove", "discard", "retry"}, NEW h \in Holder \cup {NoHolder},
           NEW f \in Rows, NEW others, others = References(f) \ {h},
           IF kind = "retry" THEN h = NoHolder ELSE h \in Holder /\ holds[h] = f,
           CleanUpStarts(t, kind, h, f, others)
    PROVE  Followed'
<1> DEFINE w == [Idle EXCEPT !.kind = kind, !.holder = h, !.file = f]
<1>1. f \in File /\ f \in 0 .. MaxFile
  BY StoredFilesAssumption DEF Rows, File
<1>2. /\ w \in Work /\ w.kind = kind /\ w.holder = h /\ w.file = f /\ ~w.late
  BY <1>1, IdleTyped DEF Idle, Work
<1>3. ~Dooms(work[t]) /\ ~Made(work[t])
  BY DEF Dooms, Made
<1>4. CASE Freezes
  BY <1>4, FreezesFollowed
<1>5. CASE others # {} /\ Decides(t, [w EXCEPT !.verdict = "keep"])
  <2> DEFINE v == [w EXCEPT !.verdict = "keep"]
             b == [v EXCEPT !.at = "batch"]
  <2>1. v \in Work /\ ~v.late /\ v.verdict = "keep"
    BY <1>2 DEF Work
  <2>2. /\ b \in Work /\ b.at = "batch" /\ b.kind = kind /\ b.holder = h /\ b.file = f
        /\ b.verdict = "keep"
    <3>1. b \in Work
      BY <2>1, Moved DEF Stages
    <3>2. b.at = "batch" /\ b.kind = kind /\ b.holder = h /\ b.file = f /\ b.verdict = "keep"
      BY <1>2, <2>1 DEF Work
    <3> QED BY <3>1, <3>2
  <2> HIDE DEF b
  <2>3. Lawful(b) /\ Fits(b)
    BY <1>5, <2>2 DEF Lawful, Holding, Fits, FitsWith, Sending, Attaching, Dooms
  <2>4. Decides(t, v) /\ b = [v EXCEPT !.at = "batch"]
    BY <1>5 DEF b
  <2> HIDE DEF v
  <2> QED BY <1>3, <2>1, <2>3, <2>4, DecidesFollowed
<1>6. CASE /\ Becomes(t, [w EXCEPT !.at = "deleting", !.copy = row[f].copy])
           /\ UNCHANGED <<row, holds, remote, frozen>>
  <2> DEFINE v == [w EXCEPT !.at = "deleting", !.copy = row[f].copy]
  <2>1. row[f].copy \in Copies
    BY <1>1 DEF FilesInv, TypeOK, StoredFile
  <2>2. /\ v \in Work /\ v.at = "deleting" /\ v.kind = kind /\ v.holder = h /\ v.file = f
        /\ v.copy = row[f].copy
    <3>1. v \in Work
      BY <1>2, <2>1, Moved DEF Stages
    <3>2. v.at = "deleting" /\ v.kind = kind /\ v.holder = h /\ v.file = f /\ v.copy = row[f].copy
      BY <1>2, <2>1 DEF Work
    <3> QED BY <3>1, <3>2
  <2>3. Becomes(t, v) /\ Rows' = Rows
    BY <1>6 DEF Rows, Present
  <2> HIDE DEF v
  <2>4. Fits(v) /\ Placed(v)
    BY <1>1, <2>2 DEF Fits, FitsWith, Placed, Sending, Attaching, Dooms
  <2> QED BY <1>3, <1>6, <2>2, <2>3, <2>4, FollowedStill
<1> QED BY <1>4, <1>5, <1>6 DEF CleanUpStarts

LEMMA RemoveStartsFollowed ==
    ASSUME FilesInv, Apart, Followed, NEW t \in Request, NEW h \in Holder, RemoveStarts(t, h)
    PROVE  Followed'
<1>1. PICK kind \in {"remove", "discard"} :
         CleanUpStarts(t, kind, h, holds[h], References(holds[h]) \ {h})
  BY DEF RemoveStarts
<1>2. holds[h] \in Rows
  BY StoredFilesAssumption
     DEF RemoveStarts, FilesInv, TypeOK, ActiveIffAttached, File, Rows, Present
<1>3. t \in Task /\ work[t].at = "idle"
  BY DEF RemoveStarts, Starts, Task
<1> QED BY <1>1, <1>2, <1>3, CleanUpStartsFollowed

LEMMA RetryStartsFollowed ==
    ASSUME FilesInv, Apart, Followed, RetryStarts
    PROVE  Followed'
<1>1. PICK f \in Rows : CleanUpStarts(House, "retry", NoHolder, f, References(f))
  BY DEF RetryStarts
<1>2. References(f) = References(f) \ {NoHolder}
  BY StoredFilesAssumption DEF References
<1>3. House \in Task /\ work[House].at = "idle"
  BY DEF RetryStarts, Task
<1> QED BY <1>1, <1>2, <1>3, CleanUpStartsFollowed

LEMMA CleanUpResumesFollowed ==
    ASSUME FilesInv, Apart, Followed, NEW t \in Task, CleanUpResumes(t)
    PROVE  Followed'
<1>1. /\ work[t] \in Work /\ Lawful(work[t]) /\ EmployedAs(t, work[t]) /\ Fits(work[t])
      /\ work[t].at \in {"deleted", "batch"} /\ Holding(work[t]) /\ ~Made(work[t])
      /\ ~work[t].late
  BY DEF FilesInv, TypeOK, Apart, Followed, EmployedAs, CleanUpResumes, Holding, Made
<1>2. PICK v \in Work : /\ Decides(t, v)
                        /\ v.kind = work[t].kind /\ v.holder = work[t].holder
                        /\ v.file = work[t].file /\ v.late = work[t].late
                        /\ \/ work[t].at = "deleted" /\ v.verdict = "drop"
                           \/ work[t].at = "batch" /\ v.verdict = work[t].verdict
  <2>1. CASE work[t].at = "deleted"
    <3> DEFINE v == [work[t] EXCEPT !.verdict = "drop"]
    <3>1. Decides(t, v)
      BY <1>1, <2>1 DEF CleanUpResumes, Fits, FitsWith
    <3>2. /\ v \in Work /\ v.kind = work[t].kind /\ v.holder = work[t].holder
          /\ v.file = work[t].file /\ v.late = work[t].late /\ v.verdict = "drop"
      BY <1>1 DEF Work
    <3> HIDE DEF v
    <3> QED BY <2>1, <3>1, <3>2
  <2>2. CASE work[t].at = "batch"
    BY <1>1, <2>2 DEF CleanUpResumes
  <2> QED BY <1>1, <2>1, <2>2
<1> DEFINE b == [v EXCEPT !.at = "batch"]
<1>3. /\ b \in Work /\ b.at = "batch" /\ b.kind = v.kind /\ b.holder = v.holder
      /\ b.file = v.file /\ b.verdict = v.verdict
  BY DEF Work
<1>4. Fits(b) /\ Lawful(b)
  <2> HIDE DEF b
  <2>1. Fits(b)
    BY <1>1, <1>2, <1>3 DEF Fits, FitsWith, Lawful, Holding, Sending, Attaching, AtWork, Dooms
  <2>2. Lawful(b)
    BY <1>1, <1>2, <1>3 DEF Lawful, Holding
  <2> QED BY <2>1, <2>2
<1>5. Dooms(work[t]) => v.verdict # "keep" /\ v.file = work[t].file
  BY <1>1, <1>2 DEF Dooms
<1> QED BY <1>1, <1>2, <1>4, <1>5, DecidesFollowed

LEMMA SweepsFollowed ==
    ASSUME FilesInv, Followed, "purge" \notin Chores,
           (\E kind \in {"reconcile", "purge"} : SweepStarts(kind)) \/ SweepCalls,
           work[House].kind # "purge" \/ work[House].at # "sweeping"
    PROVE  Followed'
<1>1. House \in Task /\ work[House] \in Work /\ Fits(work[House]) /\ Placed(work[House])
  BY DEF Task, FilesInv, TypeOK, Followed
<1>2. /\ UNCHANGED row /\ Rows' = Rows /\ ~Dooms(work[House]) /\ ~Made(work[House])
  BY DEF SweepStarts, SweepCalls, Rows, Present, Dooms, Made
<1>3. CASE \E kind \in {"reconcile", "purge"} : SweepStarts(kind)
  <2>1. PICK f \in Rows, w \in Work :
              /\ Becomes(House, w) /\ w.at = "sweeping" /\ w.kind \in {"reconcile", "purge"}
              /\ w.file = f /\ w.failed = {}
              /\ \A p \in Provider : w.copy[p] = IF p \in w.todo THEN row[f].copy[p] ELSE 0
    BY <1>3, SweepStartsIs
  <2>2. w.todo \in SUBSET Provider /\ f \in File
    BY DEF Work, Rows
  <2>3. Fits(w) /\ Placed(w)
    BY <2>1, <2>2 DEF Fits, FitsWith, Placed, Sending, Attaching, Dooms
  <2>4. UNCHANGED remote
    BY <1>3 DEF SweepStarts
  <2> QED BY <1>1, <1>2, <2>1, <2>3, <2>4, FollowedStill
<1>4. CASE SweepCalls
  <2>1. work[House].at = "sweeping" /\ work[House].kind # "purge"
    BY <1>4 DEF SweepCalls
  <2>2. PICK p \in work[House].todo, w \in Work :
              /\ Becomes(House, w) /\ w.at = "sweeping" /\ w.kind = work[House].kind
              /\ w.holder = work[House].holder /\ w.file = work[House].file
              /\ w.copy = work[House].copy
              /\ w.todo = work[House].todo \ {p}
              /\ UNCHANGED remote
              /\ w.failed \in {work[House].failed, work[House].failed \cup {p}}
              /\ work[House].copy[p] \in remote[p] => w.failed = work[House].failed
    BY <1>4, <2>1, SweepCallsIs
  <2>3. Fits(w) /\ Placed(w)
    BY <1>1, <2>1, <2>2 DEF Fits, FitsWith, Placed, Sending, Attaching, AtWork, Dooms
  <2> QED BY <1>1, <1>2, <2>2, <2>3, FollowedStill
<1> QED BY <1>3, <1>4

\* The copies that arrive are for a row that is new, and are nobody else's.
LEMMA CopiesArriveFollowed ==
    ASSUME FilesInv, Apart, Followed, "delete" \notin Faults, NEW t \in Task, CopiesArrive(t)
    PROVE  Followed'
<1>1. PICK bad \in SUBSET work[t].todo, new \in Copies, w \in Work :
              /\ \A p \in bad : new[p] = 0
              /\ \A p \in Provider :
                    /\ new[p] = 0 \/ new[p] \in NewCopy(t, p)
                    /\ p \in work[t].todo \ bad => new[p] \in NewCopy(t, p)
                    /\ w.copy[p] = IF p \in bad THEN 0 ELSE new[p]
              /\ remote' = [p \in Provider |-> remote[p] \cup ({new[p]} \ {0})]
              /\ Becomes(t, w) /\ w.at = "uploaded" /\ w.failed = bad
              /\ w.kind = work[t].kind /\ w.file = work[t].file
  BY ArrivalIs
<1>2. /\ work[t] \in Work /\ work[t].at = "uploading" /\ FitsWith(work[t], row, remote)
      /\ UNCHANGED row
  BY DEF FilesInv, TypeOK, CopiesArrive, Followed, Fits
<1>3. Attaching(work[t]) /\ work[t].todo = Provider
  BY <1>2 DEF FilesInv, Placed, FitsWith, Attaching, Sending, AtWork
<1>4. \A p \in Provider : new[p] # 0 =>
        /\ \A u \in Task \ {t} : work[u].copy[p] # new[p]
        /\ \A f \in File : row[f].copy[p] # new[p]
  BY <1>1, <1>2, <1>3, NewCopies
<1>5. \A p \in Provider : w.copy[p] = new[p]
  BY <1>1
<1>6. work'[t] = w /\ \A u \in Task \ {t} : work'[u] = work[u]
  BY <1>1 DEF FilesInv, TypeOK, Becomes
<1>7. Made(w) /\ ~Sending(w)
  BY <1>1, <1>3 DEF Made, Attaching, Sending, AtWork
<1>8. FitsWith(w, row', remote')
  <2>1. w.failed = {} => \A p \in Provider : w.copy[p] \in remote'[p]
    <3> SUFFICES ASSUME w.failed = {}, NEW p \in Provider PROVE w.copy[p] \in remote'[p]
      OBVIOUS
    <3>1. new[p] \in NewCopy(t, p)
      BY <1>1, <1>3
    <3>2. new[p] # 0
      BY <1>2, <3>1, NewCopies
    <3> QED BY <1>1, <1>5, <3>2
  <2> QED BY <1>1, <1>7, <2>1 DEF FitsWith, Dooms
<1>9. ASSUME NEW u \in Task \ {t} PROVE FitsWith(work'[u], row', remote')
  <2> DEFINE v == work[u]
  <2>1. v \in Work /\ FitsWith(v, row, remote) /\ Placed(v)
    BY DEF FilesInv, TypeOK, Followed, Fits
  <2>2. \A p \in Provider : v.copy[p] = new[p] => new[p] = 0
    BY <1>4
  <2> HIDE DEF v
  <2>3. \A p \in Provider : remote[p] \subseteq remote'[p]
    BY <1>1
  <2>4. Dooms(v) => \A p \in Provider : row[v.file].copy[p] \notin remote'[p]
    <3>1. Dooms(v) => v.file \in File
      BY <2>1 DEF Dooms, Placed
    <3>2. Dooms(v) => \A p \in Provider : row[v.file].copy[p] \notin remote[p]
      BY <2>1 DEF FitsWith
    <3> QED BY <1>1, <1>4, <3>1, <3>2
  <2>5. v.at = "sweeping" => \A p \in v.failed : v.copy[p] \notin remote'[p]
    <3>1. v.at = "sweeping" => \A p \in v.failed : v.copy[p] \notin remote[p]
      BY <2>1 DEF FitsWith
    <3>2. v.failed \subseteq Provider
      BY <2>1 DEF Work
    <3> QED BY <1>1, <2>2, <3>1, <3>2
  <2>6. FitsWith(v, row', remote')
    BY <1>2, <2>1, <2>3, <2>4, <2>5, FitsAgain
  <2>7. v = work'[u]
    BY <1>6 DEF v
  <2> QED BY <2>6, <2>7
<1>10. \A u \in Task : Fits(work[u])'
  BY <1>6, <1>8, <1>9 DEF Fits
<1>11. Rows' = Rows
  BY <1>2 DEF Rows, Present
<1>12. Complete'
  <2> SUFFICES ASSUME NEW f \in Rows, \A u \in Task : Dooms(work'[u]) => work'[u].file # f
               PROVE  \A p \in Provider : row'[f].copy[p] \in remote'[p]
    BY <1>11 DEF Complete, Dooms
  <2>1. \A u \in Task : Dooms(work[u]) => work[u].file # f
    BY <1>2, <1>6 DEF Dooms
  <2> QED BY <1>1, <1>2, <2>1 DEF Followed, Complete
<1>13. Owned'
  <2> SUFFICES ASSUME NEW p \in Provider, NEW n \in remote'[p]
               PROVE  \/ \E f \in File : row'[f].copy[p] = n
                      \/ \E u \in Task : Made(work'[u]) /\ work'[u].copy[p] = n
    BY DEF Owned, Made, Attaching, AtWork
  <2>1. CASE n \in remote[p]
    <3>1. \A u \in Task : Made(work[u]) => work'[u] = work[u]
      BY <1>2, <1>6 DEF Made
    <3> QED BY <1>2, <2>1, <3>1 DEF Followed, Owned
  <2>2. CASE n = new[p]
    BY <1>5, <1>6, <1>7, <2>2
  <2> QED BY <1>1, <2>1, <2>2
<1> QED BY <1>10, <1>12, <1>13 DEF Followed

\* The copies in hand go, which nobody else has in hand.
LEMMA CopiesLeave ==
    ASSUME FilesInv, Followed, NEW t \in Task, NEW w \in Work, Becomes(t, w),
           Rows' = Rows, \A f \in File : row'[f].copy = row[f].copy,
           \A p \in Provider : remote'[p] = remote[p] \ {work[t].copy[p]},
           \A u \in Task \ {t} : Sending(work[u]) \/ Made(work[u]) =>
              \A p \in Provider :
                 work[u].copy[p] \in remote[p] => work[u].copy[p] # work[t].copy[p],
           FitsWith(w, row', remote'), ~Dooms(work[t]),
           \A f \in Rows : (Dooms(w) => w.file # f) =>
              \A p \in Provider : row[f].copy[p] \in remote[p] => row[f].copy[p] # work[t].copy[p]
    PROVE  Followed'
<1>1. work'[t] = w /\ \A u \in Task \ {t} : work'[u] = work[u]
  BY DEF FilesInv, TypeOK, Becomes
<1>2. \A f \in File : row'[f].state # "none" <=> row[f].state # "none"
  BY DEF Rows, Present
<1>3. ASSUME NEW u \in Task \ {t} PROVE FitsWith(work'[u], row', remote')
  <2> DEFINE v == work[u]
  <2>1. v \in Work /\ FitsWith(v, row, remote) /\ Placed(v)
    BY DEF FilesInv, TypeOK, Followed, Fits
  <2>2. Sending(v) \/ Made(v) =>
           \A p \in Provider : v.copy[p] \in remote[p] => v.copy[p] \in remote'[p]
    OBVIOUS
  <2> HIDE DEF v
  <2>3. v.at # "idle" => v.file \in File
    BY <2>1 DEF Placed
  <2>4. v.at # "idle" => /\ row'[v.file].copy = row[v.file].copy
                         /\ row'[v.file].state # "none" <=> row[v.file].state # "none"
    BY <1>2, <2>3
  <2>5. \A p \in Provider : remote'[p] \subseteq remote[p]
    OBVIOUS
  <2>6. Dooms(v) => \A p \in Provider : row'[v.file].copy[p] \notin remote'[p]
    BY <2>1, <2>4, <2>5 DEF FitsWith, Dooms
  <2>7. v.at = "sweeping" => \A p \in v.failed : v.copy[p] \notin remote'[p]
    BY <2>1, <2>5 DEF FitsWith, Work
  <2>8. FitsWith(v, row', remote')
    BY <2>1, <2>2, <2>4, <2>6, <2>7, FitsAgain
  <2>9. v = work'[u]
    BY <1>1 DEF v
  <2> QED BY <2>8, <2>9
<1>4. \A u \in Task : Fits(work[u])'
  BY <1>1, <1>3 DEF Fits
<1>5. Complete'
  <2> SUFFICES ASSUME NEW f \in Rows, \A u \in Task : Dooms(work'[u]) => work'[u].file # f
               PROVE  \A p \in Provider : row'[f].copy[p] \in remote'[p]
    BY DEF Complete, Dooms
  <2>1. (\A u \in Task : Dooms(work[u]) => work[u].file # f) /\ (Dooms(w) => w.file # f)
    BY <1>1
  <2>2. \A p \in Provider : row[f].copy[p] \in remote[p]
    BY <2>1 DEF Followed, Complete
  <2>3. f \in File
    BY DEF Rows
  <2> QED BY <2>1, <2>2, <2>3
<1>6. Owned'
  <2> SUFFICES ASSUME NEW p \in Provider, NEW n \in remote'[p]
               PROVE  \/ \E f \in File : row'[f].copy[p] = n
                      \/ \E u \in Task : Made(work'[u]) /\ work'[u].copy[p] = n
    BY DEF Owned, Made, Attaching, AtWork
  <2>1. n \in remote[p] /\ n # work[t].copy[p]
    OBVIOUS
  <2>2. CASE \E f \in File : row[f].copy[p] = n
    BY <2>2
  <2>3. CASE \E u \in Task : Made(work[u]) /\ work[u].copy[p] = n
    <3>1. PICK u \in Task : Made(work[u]) /\ work[u].copy[p] = n
      BY <2>3
    <3>2. u # t
      BY <2>1, <3>1
    <3> QED BY <1>1, <3>1, <3>2
  <2> QED BY <2>1, <2>2, <2>3 DEF Followed, Owned
<1> QED BY <1>4, <1>5, <1>6 DEF Followed

LEMMA UndoesFollowed ==
    ASSUME FilesInv, Apart, Followed, "delete" \notin Faults, NEW t \in Request, Undoes(t)
    PROVE  Followed'
<1>1. /\ t \in Task /\ work[t] \in Work /\ EmployedAs(t, work[t]) /\ work[t].at = "undoing"
      /\ FitsWith(work[t], row, remote)
  BY DEF Task, FilesInv, TypeOK, Apart, Undoes, Followed, Fits
<1>2. Made(work[t]) /\ ~Dooms(work[t]) /\ ~Sending(work[t])
  BY <1>1 DEF EmployedAs, Made, Attaching, AtWork, Dooms, Sending
<1>3. /\ \A p \in Provider : remote'[p] = remote[p] \ {work[t].copy[p]}
      /\ \A f \in File : row'[f].copy = row[f].copy
      /\ Rows' = Rows
  BY UndoesIs
<1>4. PICK w \in {work[t], Idle} : Becomes(t, w)
  BY <1>1, UndoesIs DEF Becomes, Ends, FilesInv, TypeOK
<1>5. w \in Work /\ ~Dooms(w) /\ FitsWith(w, row', remote')
  <2>1. FitsWith(Idle, row', remote') /\ ~Dooms(Idle) /\ Idle \in Work
    BY IdleIs DEF FitsWith, Dooms, Idle, Sending, Attaching, AtWork
  <2>2. FitsWith(work[t], row', remote')
    BY <1>1, <1>2 DEF FitsWith
  <2> QED BY <1>1, <1>2, <1>4, <2>1, <2>2
<1>6. \A p \in Provider, f \in File :
         row[f].copy[p] \in remote[p] => row[f].copy[p] # work[t].copy[p]
  BY <1>1, <1>2, NotNone DEF FilesInv, Apart, OwnCopies
<1>7. \A u \in Task \ {t}, p \in Provider :
         work[u].copy[p] \in remote[p] => work[u].copy[p] # work[t].copy[p]
  BY <1>1, <1>2, NotNone DEF FilesInv, Apart, OwnCopies
<1>8. Rows \subseteq File
  BY DEF Rows
<1> QED BY <1>1, <1>2, <1>3, <1>4, <1>5, <1>6, <1>7, <1>8, CopiesLeave

LEMMA CopiesGoFollowed ==
    ASSUME FilesInv, Apart, Followed, "delete" \notin Faults, NEW t \in Task, CopiesGo(t)
    PROVE  Followed'
<1>1. /\ work[t] \in Work /\ work[t].at = "deleting" /\ FitsWith(work[t], row, remote)
      /\ Lawful(work[t]) /\ Holding(work[t])
  BY DEF FilesInv, TypeOK, CopiesGo, Followed, Fits, Holding
<1>2. /\ \A p \in Provider : remote'[p] = remote[p] \ {work[t].copy[p]}
      /\ Becomes(t, [work[t] EXCEPT !.at = "deleted", !.failed = {}])
      /\ UNCHANGED row /\ Rows' = Rows
  BY DEF CopiesGo, MayFail, Rows, Present
<1> DEFINE w == [work[t] EXCEPT !.at = "deleted", !.failed = {}]
<1>3. /\ w \in Work /\ w.at = "deleted" /\ w.failed = {} /\ w.kind = work[t].kind
      /\ w.file = work[t].file
  BY <1>1 DEF Work
<1>4. Becomes(t, w)
  BY <1>2
<1> HIDE DEF w
<1>5. work[t].file \in Rows /\ work[t].kind \in {"remove", "discard", "retry"}
  BY <1>1 DEF Lawful
<1>6. \A p \in Provider : work[t].copy[p] = row[work[t].file].copy[p]
  BY <1>1 DEF FitsWith
<1>7. FitsWith(w, row', remote')
  BY <1>2, <1>3, <1>5, <1>6 DEF FitsWith, Dooms, Sending, Attaching
<1>8. ASSUME NEW u \in Task \ {t}, Sending(work[u]) \/ Made(work[u]), NEW p \in Provider,
             work[u].copy[p] \in remote[p]
      PROVE  work[u].copy[p] # work[t].copy[p]
  <2>1. CASE Sending(work[u])
    <3>1. u \in Request
      BY <2>1 DEF Apart, EmployedAs, Sending, Task
    <3> QED BY <1>1, <2>1, <3>1, NobodySends
  <2>2. CASE Made(work[u])
    <3>1. work[u].copy[p] # 0
      BY <1>8, NotNone DEF FilesInv
    <3>2. work[t].file \in File
      BY <1>5 DEF Rows
    <3> QED BY <1>6, <2>2, <3>1, <3>2 DEF Apart, OwnCopies
  <2> QED BY <1>8, <2>1, <2>2
<1>9. \A f \in Rows : Dooms(w) /\ w.file = f
  BY <1>3, <1>5 DEF FilesInv, OneRow, Dooms
<1>10. ~Dooms(work[t])
  BY <1>1 DEF Dooms
<1> QED BY <1>2, <1>3, <1>4, <1>7, <1>8, <1>9, <1>10, CopiesLeave

LEMMA AttachResumesFollowed ==
    ASSUME FilesInv, Apart, Followed, NEW t \in Request, AttachResumes(t)
    PROVE  Followed'
<1> DEFINE f == work[t].file
           h == work[t].holder
<1>1. /\ t \in Task /\ work[t].at = "uploaded" /\ Attaching(work[t]) /\ Made(work[t])
      /\ work[t] \in Work /\ FitsWith(work[t], row, remote) /\ ~Dooms(work[t])
  BY DEF AttachResumes, Task, Attaching, AtWork, Made, FilesInv, TypeOK, Followed, Fits, Dooms
<1>2. f \in File /\ f \notin Rows /\ h \in Holder
  BY <1>1, WorkNames DEF Apart, NewRows, Attaching
<1>3. CASE Freezes
  BY <1>3, FreezesFollowed
<1>4. CASE /\ work[t].failed = {} /\ Rows = {}
           /\ row' = [row EXCEPT ![f] = [state |-> "active", copy |-> work[t].copy,
                                         stale |-> {}]]
           /\ Ends(t) /\ UNCHANGED remote
  <2>1. /\ row'[f].copy = work[t].copy /\ row'[f].state = "active"
        /\ \A g \in File \ {f} : row'[g] = row[g]
    BY <1>2, <1>4 DEF FilesInv, TypeOK
  <2>2. Rows' = {f}
    BY <1>2, <1>4, <2>1 DEF Rows, Present
  <2>3. \A p \in Provider : work[t].copy[p] \in remote[p]
    BY <1>1, <1>4 DEF FitsWith
  <2>4. work'[t] = Idle /\ \A u \in Task \ {t} : work'[u] = work[u]
    BY <1>1, <1>4 DEF FilesInv, TypeOK, Ends, Becomes
  <2>5. \A u \in Task : ~Holding(work[u])
    BY <1>4 DEF FilesInv, Lawful
  <2>6. ASSUME NEW u \in Task \ {t} PROVE FitsWith(work'[u], row', remote')
    <3> DEFINE v == work[u]
    <3>1. v \in Work /\ FitsWith(v, row, remote) /\ Placed(v) /\ ~Holding(v) /\ v.file # f
      BY <1>1, <2>5 DEF FilesInv, TypeOK, Followed, Fits, Apart, NewRows
    <3> HIDE DEF v, f
    <3>2. v.at = "sweeping" => row'[v.file].state = "none"
      BY <2>2, <3>1 DEF Placed, Rows, Present
    <3>3. v.at = "sweeping" => \A p \in v.failed : v.copy[p] \notin remote[p]
      BY <3>1 DEF FitsWith
    <3>4. FitsWith(v, row', remote')
      BY <1>4, <3>1, <3>2, <3>3, FitsAgain DEF Holding, Dooms
    <3>5. v = work'[u]
      BY <2>4 DEF v
    <3> QED BY <3>4, <3>5
  <2>7. \A u \in Task : Fits(work[u])'
    <3>1. FitsWith(Idle, row', remote')
      BY IdleIs DEF FitsWith, Dooms, Idle, Sending, Attaching, AtWork
    <3> QED BY <2>4, <2>6, <3>1 DEF Fits
  <2>8. Complete'
    <3> HIDE DEF f
    <3> QED BY <1>4, <2>1, <2>2, <2>3 DEF Complete
  <2>9. Owned'
    <3> SUFFICES ASSUME NEW p \in Provider, NEW n \in remote[p]
                 PROVE  \/ \E g \in File : row'[g].copy[p] = n
                        \/ \E u \in Task : Made(work'[u]) /\ work'[u].copy[p] = n
      BY <1>4 DEF Owned, Made, Attaching, AtWork
    <3>1. CASE \E g \in File : row[g].copy[p] = n
      <4>1. PICK g \in File : row[g].copy[p] = n
        BY <3>1
      <4>2. row[f].copy[p] = 0 /\ n # 0
        BY <1>2, NotNone DEF Apart, AbsentHasNone, FilesInv
      <4>3. g # f
        BY <4>1, <4>2
      <4> QED BY <2>1, <4>1, <4>3
    <3>2. CASE \E u \in Task : Made(work[u]) /\ work[u].copy[p] = n
      <4>1. PICK u \in Task : Made(work[u]) /\ work[u].copy[p] = n
        BY <3>2
      <4> QED BY <1>2, <2>1, <2>4, <4>1
    <3> QED BY <3>1, <3>2 DEF Followed, Owned
  <2> QED BY <2>7, <2>8, <2>9 DEF Followed
<1>5. CASE /\ UndoesCopies(t, work[t].failed = {} /\ Rows # {})
           /\ UNCHANGED <<row, holds, remote, frozen>>
  <2>1. PICK v \in {"keep", "none"} : Becomes(t, [work[t] EXCEPT !.at = "undoing", !.verdict = v])
    BY <1>5 DEF UndoesCopies
  <2> DEFINE w == [work[t] EXCEPT !.at = "undoing", !.verdict = v]
  <2>2. /\ w \in Work /\ w.at = "undoing" /\ w.kind = work[t].kind /\ w.holder = h
        /\ w.file = f /\ w.copy = work[t].copy
    BY <1>1 DEF Work
  <2>3. Becomes(t, w) /\ Rows' = Rows
    BY <1>5, <2>1 DEF Rows, Present
  <2> HIDE DEF w
  <2>4. Fits(w) /\ Placed(w) /\ Made(w)
    BY <1>1, <1>2, <2>2
       DEF Fits, FitsWith, Placed, Made, Sending, Attaching, AtWork, Dooms
  <2> QED BY <1>1, <1>5, <2>2, <2>3, <2>4, FollowedStill
<1> QED BY <1>3, <1>4, <1>5 DEF AttachResumes

\* Whatever reconciliation forgets was not there.
LEMMA SweepCommitsFollowed ==
    ASSUME FilesInv, Apart, Followed, SweepCommits
    PROVE  Followed'
<1> DEFINE f == work[House].file
<1>1. /\ House \in Task /\ Ends(House) /\ UNCHANGED <<holds, remote>> /\ Rows' = Rows
      /\ \A g \in File, p \in Provider : row'[g].copy[p] =
            IF g = f /\ g \in Rows /\ p \in work[House].failed THEN 0 ELSE row[g].copy[p]
  BY SweepCommitsIs
<1>2. work[House] \in Work /\ FitsWith(work[House], row, remote) /\ work[House].at = "sweeping"
  BY <1>1 DEF FilesInv, TypeOK, Followed, Fits, SweepCommits, SweepEnds
<1>3. f \in Rows => \A p \in work[House].failed : row[f].copy[p] \notin remote[p]
  BY <1>2 DEF FitsWith, Rows, Present
<1> HIDE DEF f
<1>4. \A g \in File, p \in Provider : row[g].copy[p] \in remote[p] => row'[g].copy[p] = row[g].copy[p]
  BY <1>1, <1>3
<1>5. work'[House] = Idle /\ \A u \in Task \ {House} : work'[u] = work[u]
  BY <1>1 DEF FilesInv, TypeOK, Ends, Becomes
<1>6. \A g \in File, p \in Provider : row[g].copy[p] \notin remote[p] => row'[g].copy[p] \notin remote'[p]
  BY <1>1, NotNone DEF FilesInv
<1>7. ASSUME NEW u \in Task \ {House} PROVE FitsWith(work'[u], row', remote')
  <2> DEFINE v == work[u]
  <2>1. v \in Work /\ FitsWith(v, row, remote) /\ Placed(v) /\ v.at # "sweeping"
    <3>1. v \in Work /\ FitsWith(v, row, remote) /\ Placed(v)
      BY DEF FilesInv, TypeOK, Followed, Fits
    <3>2. v.at # "sweeping"
      BY DEF Apart, EmployedAs
    <3> QED BY <3>1, <3>2
  <2>2. v.at = "deleting" => v.file \in Rows /\ \A w \in Task : ~Dooms(work[w])
    BY DEF FilesInv, Lawful, Holding, Dooms
  <2>3. v.at = "deleting" => \A p \in Provider : row[v.file].copy[p] \in remote[p]
    BY <2>2 DEF Followed, Complete
  <2> HIDE DEF v
  <2>4. v.at # "idle" => v.file \in File
    BY <2>1 DEF Placed
  <2>5. v.at = "deleting" => \A p \in Provider : row'[v.file].copy[p] = row[v.file].copy[p]
    BY <1>4, <2>3, <2>4
  <2>6. Dooms(v) => \A p \in Provider : row'[v.file].copy[p] \notin remote'[p]
    BY <1>6, <2>1, <2>4 DEF FitsWith, Dooms
  <2>7. FitsWith(v, row', remote')
    BY <1>1, <2>1, <2>5, <2>6, FitsAgain
  <2>8. v = work'[u]
    BY <1>5 DEF v
  <2> QED BY <2>7, <2>8
<1>8. \A u \in Task : Fits(work[u])'
  <2>1. FitsWith(Idle, row', remote')
    BY IdleIs DEF FitsWith, Dooms, Idle, Sending, Attaching, AtWork
  <2> QED BY <1>5, <1>7, <2>1 DEF Fits
<1>9. Complete'
  <2> SUFFICES ASSUME NEW g \in Rows, \A u \in Task : Dooms(work'[u]) => work'[u].file # g
               PROVE  \A p \in Provider : row'[g].copy[p] \in remote'[p]
    BY <1>1 DEF Complete, Dooms
  <2>1. \A u \in Task : Dooms(work[u]) => work[u].file # g
    BY <1>2, <1>5 DEF Dooms
  <2>2. \A p \in Provider : row[g].copy[p] \in remote[p]
    BY <2>1 DEF Followed, Complete
  <2>3. g \in File
    BY DEF Rows
  <2> QED BY <1>1, <1>4, <2>2, <2>3
<1>10. Owned'
  <2> SUFFICES ASSUME NEW p \in Provider, NEW n \in remote[p]
               PROVE  \/ \E g \in File : row'[g].copy[p] = n
                      \/ \E u \in Task : Made(work'[u]) /\ work'[u].copy[p] = n
    BY <1>1 DEF Owned, Made, Attaching, AtWork
  <2>1. CASE \E g \in File : row[g].copy[p] = n
    BY <1>4, <2>1
  <2>2. CASE \E u \in Task : Made(work[u]) /\ work[u].copy[p] = n
    <3>1. PICK u \in Task : Made(work[u]) /\ work[u].copy[p] = n
      BY <2>2
    <3>2. u # House
      BY <1>2, <3>1 DEF Made
    <3> QED BY <1>5, <3>1, <3>2
  <2> QED BY <2>1, <2>2 DEF Followed, Owned
<1> QED BY <1>8, <1>9, <1>10 DEF Followed

LEMMA InitFollowed == Init => Followed
<1> SUFFICES ASSUME Init PROVE Followed
  OBVIOUS
<1>1. \A t \in Task : Fits(work[t])
  BY IdleFits DEF Init
<1>2. Rows = {} /\ \A p \in Provider : remote[p] = {}
  BY DEF Init, Rows, Present, NoRow
<1> QED BY <1>1, <1>2 DEF Followed, Complete, Owned

LEMMA InitFounded == Init => Founded
<1> SUFFICES ASSUME Init PROVE Founded
  OBVIOUS
<1>1. House \in Task /\ Request \subseteq Task /\ \A t \in Task : work[t] = Idle
  BY DEF Init, Task
<1> QED BY <1>1, IdleFounds DEF Founded

LEMMA FollowedInductive ==
    ASSUME OnlyUploadsFail, FilesInv, Apart, Founded, Followed, [Next]_vars
    PROVE  Followed'
<1> USE DEF OnlyUploadsFail
<1>1. House \in Task /\ Request \subseteq Task
  BY DEF Task
<1>2. ASSUME NEW t \in Request, RequestNext(t) PROVE Followed'
  <2>1. ~TimesOut(t)
    BY <1>1 DEF TimesOut, Apart, EmployedAs
  <2>2. CASE \E h \in Holder :
               \/ AttachKnown(t, h) \/ AttachNew(t, h) \/ RemoveStarts(t, h)
               \/ \E p \in Provider : SendStarts(t, h, p)
    BY <2>2, AttachKnownFollowed, AttachNewFollowed, RemoveStartsFollowed, SendStartsFollowed
  <2>3. CASE AttachResumes(t) \/ Undoes(t)
    BY <2>3, AttachResumesFollowed, UndoesFollowed
  <2>4. CASE SendReuploads(t) \/ SendFails(t) \/ SendUndoes(t) \/ Dispatches(t)
    BY <1>1, <2>4, SendMovesFollowed
  <2> QED BY <1>2, <2>1, <2>2, <2>3, <2>4 DEF RequestNext
<1>3. ASSUME NEW t \in Task, ProviderNext(t) PROVE Followed'
  BY <1>3, CopiesArriveFollowed, SendMovesFollowed, CopiesGoFollowed DEF ProviderNext
<1>4. ASSUME NEW t \in Task, CleanUpResumes(t) \/ CopiesBlock(t) PROVE Followed'
  BY <1>4, CleanUpResumesFollowed, FreezesFollowed DEF CopiesBlock
<1>5. CASE HouseNext
  BY <1>5, RetryStartsFollowed, SweepsFollowed, SweepCommitsFollowed DEF HouseNext, Founded
<1>6. ~World
  BY DEF World, Restarts, Vanishes, Ages, Expires
<1>7. CASE UNCHANGED vars
  BY <1>7, StaysFollowed DEF vars
<1> QED BY <1>2, <1>3, <1>4, <1>5, <1>6, <1>7 DEF Next

\* Whatever is requested and in whatever order, as long as no operation expires, no copy
\* vanishes by itself and none is purged, a turn is dispatched with copies the provider
\* has (service.py:172-309).
THEOREM DispatchesWhatIsThere ==
    ASSUME "timeout" \notin Faults, "vanish" \notin Faults, "purge" \notin Chores
    PROVE  Spec => [][DispatchIsFounded]_vars
<1>1. Init => FilesInv /\ Apart /\ Founded
  BY InitFilesInv, InitApart, InitFounded
<1>2. FilesInv /\ Apart /\ Founded /\ [Next]_vars => (FilesInv /\ Apart /\ Founded)'
  BY StepKeepsFilesInv, ApartInductive, FoundedInductive DEF Keeps
<1>3. Founded => DispatchIsFounded
  BY FoundedDispatches
<1> QED BY <1>1, <1>2, <1>3, PTL DEF Spec

\* As long as only uploads fail and nothing is purged, no copy is ever without a row that
\* names it or a coroutine that has yet to record or to delete it.
THEOREM CopiesStayTracked ==
    ASSUME OnlyUploadsFail
    PROVE  Spec => []CopiesAreTracked
<1>1. Init => FilesInv /\ Apart /\ Founded /\ Followed
  BY InitFilesInv, InitApart, InitFounded, InitFollowed
<1>2. FilesInv /\ Apart /\ Founded /\ Followed /\ [Next]_vars
        => (FilesInv /\ Apart /\ Founded /\ Followed)'
  BY StepKeepsFilesInv, ApartInductive, FoundedInductive, FollowedInductive
     DEF Keeps, OnlyUploadsFail
<1>3. Followed => CopiesAreTracked
  BY FollowedTracks
<1> QED BY <1>1, <1>2, <1>3, PTL DEF Spec

-----------------------------------------------------------------------------
(***************************************************************************)
(* What an operator's maintenance does beside the application, for any     *)
(* holders, providers, requests, chores, faults and commands.              *)
(*                                                                         *)
(* The tool takes no lock, so what it does to the copies must be harmless  *)
(* whatever the application does meanwhile: the invariant of the stored    *)
(* files holds with it too.  A reconciliation clears a reference only to a *)
(* dead copy because it reads the database before it lists the provider:   *)
(* an id it read and did not find listed stays away (ClearsTheDead).  And  *)
(* when nothing else runs, what it has read stays true until it has mended *)
(* it (Mends).                                                             *)
(***************************************************************************)

\* What a reconciliation is to clear of a provider that names the copies itself is not
\* there, from the moment the provider has been listed.
ClearsTheDead ==
    tool.command = "reconcile" => \A p \in Provider \ Keyed :
        /\ tool.at = "listing" /\ p \notin tool.providers =>
              (tool.refs[p] \ tool.listed[p]) \cap remote[p] = {}
        /\ tool.at = "clearing" => tool.clears[p] \cap remote[p] = {}

\* How far a reconciliation that nothing disturbs is with provider p.
Mended(p) ==
    /\ tool.at = "listing" =>
          /\ tool.refs[p] = Recorded(p)
          /\ p \notin tool.providers => tool.listed[p] = remote[p]
    /\ tool.at = "clearing" =>
          /\ tool.clears[p] = Recorded(p) \ remote[p]
          /\ tool.deletes[p] = remote[p] \ Recorded(p)
    /\ tool.at = "deleting" =>
          /\ Recorded(p) \subseteq remote[p]
          /\ tool.deletes[p] = remote[p] \ Recorded(p)
    /\ tool.at = "done" => remote[p] = Recorded(p)

Mends ==
    /\ tool.command = "reconcile" /\ tool.at = "reading" => tool.providers = tool.scope
    /\ tool.command = "reconcile" /\ alone /\ ~tool.errors => \A p \in tool.scope : Mended(p)

MaintenanceInv == FilesInv /\ MaintenanceTypeOK /\ ClearsTheDead /\ Mends

\* What every step does: it keeps the invariant, and is one of SharedFile or stutters.
Tolerates == MaintenanceInv' /\ [Shared!SharedNext]_(Shared!sharedVars)

-----------------------------------------------------------------------------
(* Types *)

LEMMA UnusedTyped == Unused \in Tool /\ NoIds \in Ids
BY DEF Unused, Tool, NoIds, Ids

\* The ids of the rows are ids of copies.
LEMMA RecordedTyped ==
    ASSUME FilesInv, NEW p \in Provider
    PROVE  Recorded(p) \in SUBSET (1 .. MaxCopy)
BY StoredFilesAssumption DEF FilesInv, TypeOK, StoredFile, Copies, Recorded

LEMMA ListingTyped ==
    ASSUME FilesInv, NEW p \in Provider
    PROVE  Listing(p) \in SUBSET (1 .. MaxCopy)
BY DEF FilesInv, TypeOK, Listing

\* The tool's command writes a record of its own, not a record of the application.
LEMMA ToolKeepsFiles ==
    ASSUME FilesInv, UNCHANGED <<holds, work, frozen>>,
           row' \in [File -> StoredFile], \A f \in File : row'[f].state = row[f].state,
           remote' \in [Provider -> SUBSET (1 .. MaxCopy)]
    PROVE  Keeps
BY StillKeeps DEF FilesInv, TypeOK

\* A step of the tool that only reads, and writes down what it has read.
LEMMA ReadingKeepsFiles ==
    ASSUME FilesInv, NEW w, ToolBecomes(w), UNCHANGED remote
    PROVE  Keeps
BY ToolKeepsFiles DEF ToolBecomes, FilesInv, TypeOK

\* A deletion at a provider.
LEMMA DeletingKeepsFiles ==
    ASSUME FilesInv, NEW w, ToolBecomes(w), NEW p \in Provider, NEW n,
           remote' = [remote EXCEPT ![p] = @ \ {n}]
    PROVE  Keeps
<1>1. remote' \in [Provider -> SUBSET (1 .. MaxCopy)]
  BY DEF FilesInv, TypeOK
<1> QED BY <1>1, ToolKeepsFiles DEF ToolBecomes, FilesInv, TypeOK

\* What a deletion at one provider leaves at each.
LEMMA RemoteAfterDeletion ==
    ASSUME FilesInv, NEW p \in Provider, NEW n, remote' = [remote EXCEPT ![p] = @ \ {n}]
    PROVE  /\ remote'[p] = remote[p] \ {n}
           /\ \A q \in Provider : q # p => remote'[q] = remote[q]
BY DEF FilesInv, TypeOK

\* The rows are not touched, so what they record is not either.
LEMMA RecordedStays ==
    ASSUME UNCHANGED row
    PROVE  \A p \in Provider : Recorded(p)' = Recorded(p)
BY DEF Recorded

\* Clearing takes just the ids it is given from just the provider it is given.
LEMMA RecordedAfterClearing ==
    ASSUME FilesInv, NEW p \in Provider, NEW ids, 0 \notin ids, row' = Cleared(p, ids)
    PROVE  /\ row' \in [File -> StoredFile] /\ \A f \in File : row'[f].state = row[f].state
           /\ Recorded(p)' = Recorded(p) \ ids
           /\ \A q \in Provider : q # p => Recorded(q)' = Recorded(q)
<1>1. \A f \in File : row[f] \in StoredFile /\ row[f].copy \in Copies
  BY DEF FilesInv, TypeOK, StoredFile
<1>2. \A f \in File :
         row'[f] = IF row[f].copy[p] \in ids
                     THEN [row[f] EXCEPT !.copy = Without(row[f].copy, {p})] ELSE row[f]
  BY DEF Cleared
<1>3. \A f \in File : Without(row[f].copy, {p}) \in Copies
  BY <1>1, WithoutTyped
<1>4. \A f \in File :
         row'[f] \in StoredFile /\ row'[f].state = row[f].state
  BY <1>1, <1>2, <1>3 DEF StoredFile
<1>5. \A f \in File :
         row'[f].copy = IF row[f].copy[p] \in ids THEN Without(row[f].copy, {p})
                        ELSE row[f].copy
  BY <1>1, <1>2 DEF StoredFile
<1>6. \A f \in File :
         /\ row'[f].copy[p] = IF row[f].copy[p] \in ids THEN 0 ELSE row[f].copy[p]
         /\ \A q \in Provider : q # p => row'[f].copy[q] = row[f].copy[q]
  BY <1>5 DEF Without
<1>7. row' \in [File -> StoredFile]
  <2>1. row' = [f \in File |-> row'[f]]
    BY DEF Cleared
  <2> QED BY <1>4, <2>1
<1>8. Recorded(p)' = Recorded(p) \ ids
  BY <1>6 DEF Recorded
<1>9. \A q \in Provider : q # p => Recorded(q)' = Recorded(q)
  BY <1>6 DEF Recorded
<1> QED BY <1>4, <1>7, <1>8, <1>9

-----------------------------------------------------------------------------
(* reconcile-consistency *)

LEMMA ReadsDatabaseTolerates ==
    ASSUME MaintenanceInv, ReadsDatabase
    PROVE  Tolerates
<1> DEFINE ids == IdsOf(tool.providers, [p \in Provider |-> Recorded(p)])
<1>1. tool \in Tool /\ FilesInv /\ alone \in BOOLEAN /\ tool.at = "reading"
  BY DEF MaintenanceInv, MaintenanceTypeOK, ReadsDatabase
<1>2. ids \in Ids
  BY <1>1, RecordedTyped DEF IdsOf, Ids
<1>3. \A p \in Provider : ids[p] = IF p \in tool.providers THEN Recorded(p) ELSE {}
  BY DEF IdsOf
<1>4. tool' = [tool EXCEPT !.at = "listing", !.refs = ids]
  BY DEF ReadsDatabase, ToolBecomes
<1> HIDE DEF ids
<1>5. /\ tool' \in Tool /\ tool'.at = "listing" /\ tool'.refs = ids
      /\ tool'.command = tool.command /\ tool'.scope = tool.scope
      /\ tool'.providers = tool.providers /\ tool'.errors = tool.errors
  BY <1>1, <1>2, <1>4 DEF Tool
<1>6. remote' = remote /\ alone' = alone /\ row' = row
  BY DEF ReadsDatabase, ToolBecomes
<1>7. \A p \in Provider : Recorded(p)' = Recorded(p)
  BY <1>6, RecordedStays
<1>8. Keeps
  BY <1>1, ReadingKeepsFiles DEF ReadsDatabase
<1>9. ClearsTheDead'
  BY <1>3, <1>5 DEF ClearsTheDead
<1>10. Mends'
  <2>1. tool.scope \subseteq Provider
    BY <1>1 DEF Tool
  <2>2. tool'.command = "reconcile" => \A p \in tool'.scope : Mended(p)'
    BY <1>1, <1>3, <1>5, <1>7, <2>1 DEF Mended, MaintenanceInv, Mends
  <2> QED BY <1>5, <2>2 DEF Mends
<1> QED BY <1>1, <1>5, <1>6, <1>8, <1>9, <1>10
        DEF Tolerates, MaintenanceInv, MaintenanceTypeOK, Keeps

LEMMA ListsProviderTolerates ==
    ASSUME MaintenanceInv, NEW p \in Provider, ListsProvider(p)
    PROVE  Tolerates
<1> DEFINE listed == [tool.listed EXCEPT ![p] = Listing(p)]
           rest == tool.providers \ {p}
           clears == IF rest = {} THEN Dangling(listed) ELSE tool.clears
           deletes == IF rest = {} THEN Unrecorded(listed) ELSE tool.deletes
           at == IF rest = {} THEN "clearing" ELSE "listing"
<1>1. /\ tool \in Tool /\ FilesInv /\ alone \in BOOLEAN /\ tool.at = "listing"
      /\ tool.command = "reconcile"
  BY DEF MaintenanceInv, MaintenanceTypeOK, ListsProvider
<1>2. listed \in Ids /\ rest \in SUBSET Provider
  BY <1>1, ListingTyped DEF Tool, Ids
<1>3. listed[p] = remote[p] /\ \A q \in Provider : q # p => listed[q] = tool.listed[q]
  BY <1>1 DEF Tool, Ids, Listing
<1>4. tool' = [tool EXCEPT !.at = at, !.providers = rest, !.listed = listed,
                           !.clears = clears, !.deletes = deletes]
  BY DEF ListsProvider, ToolBecomes
<1> HIDE DEF listed
<1>5. clears \in Ids /\ deletes \in Ids
  BY <1>1, <1>2 DEF Tool, Ids, Dangling, Unrecorded
<1>6. rest = {} => \A q \in Provider : /\ clears[q] = tool.refs[q] \ listed[q]
                                      /\ deletes[q] = listed[q] \ tool.refs[q]
  BY DEF Dangling, Unrecorded
<1>7. at \in {"clearing", "listing"} /\ (at = "clearing" <=> rest = {})
  OBVIOUS
<1> HIDE DEF clears, deletes, at
<1>8. /\ tool' \in Tool /\ tool'.at = at /\ tool'.refs = tool.refs
      /\ tool'.command = tool.command /\ tool'.scope = tool.scope
      /\ tool'.providers = rest /\ tool'.errors = tool.errors
      /\ tool'.listed = listed /\ tool'.clears = clears /\ tool'.deletes = deletes
  BY <1>1, <1>2, <1>4, <1>5, <1>7 DEF Tool
<1>9. remote' = remote /\ alone' = alone /\ row' = row
  BY DEF ListsProvider, ToolBecomes
<1>10. \A q \in Provider : Recorded(q)' = Recorded(q)
  BY <1>9, RecordedStays
<1>11. Keeps
  BY <1>1, ReadingKeepsFiles DEF ListsProvider
<1>12. ClearsTheDead'
  <2> SUFFICES ASSUME NEW q \in Provider \ Keyed
               PROVE  /\ at = "listing" /\ q \notin rest =>
                            (tool.refs[q] \ listed[q]) \cap remote[q] = {}
                      /\ at = "clearing" => clears[q] \cap remote[q] = {}
    BY <1>8, <1>9 DEF ClearsTheDead
  <2>1. q \notin rest => (tool.refs[q] \ listed[q]) \cap remote[q] = {}
    <3>1. CASE q = p
      BY <1>3, <3>1
    <3>2. CASE q # p
      BY <1>1, <1>3, <3>2 DEF MaintenanceInv, ClearsTheDead
    <3> QED BY <3>1, <3>2
  <2>2. at = "clearing" => q \notin rest /\ clears[q] = tool.refs[q] \ listed[q]
    BY <1>6, <1>7
  <2> QED BY <2>1, <2>2
<1>13. Mends'
  <2> SUFFICES ASSUME alone, ~tool.errors, NEW q \in tool.scope
               PROVE  Mended(q)'
    BY <1>1, <1>7, <1>8, <1>9 DEF Mends
  <2>1. q \in Provider
    BY <1>1 DEF Tool
  <2>2. Mended(q)
    BY <1>1 DEF MaintenanceInv, Mends
  <2>3. tool.refs[q] = Recorded(q) /\ (q \notin rest => listed[q] = remote[q])
    BY <1>1, <1>3, <2>1, <2>2 DEF Mended
  <2>4. at = "clearing" => /\ q \notin rest
                           /\ clears[q] = tool.refs[q] \ listed[q]
                           /\ deletes[q] = listed[q] \ tool.refs[q]
    BY <1>6, <1>7, <2>1
  <2> QED BY <1>7, <1>8, <1>9, <1>10, <2>1, <2>3, <2>4 DEF Mended
<1> QED BY <1>1, <1>8, <1>9, <1>11, <1>12, <1>13
        DEF Tolerates, MaintenanceInv, MaintenanceTypeOK, Keeps

LEMMA ClearsReferencesTolerates ==
    ASSUME MaintenanceInv, NEW p \in Provider, ClearsReferences(p)
    PROVE  Tolerates
<1> DEFINE at == IF tool.command = "reconcile" THEN tool.at ELSE NextProvider
           clears == [tool.clears EXCEPT ![p] = {}]
<1>1. tool \in Tool /\ FilesInv /\ alone \in BOOLEAN /\ tool.at = "clearing"
  BY DEF MaintenanceInv, MaintenanceTypeOK, ClearsReferences
<1>2. tool' = [tool EXCEPT !.clears = clears, !.at = at]
  BY <1>1 DEF ClearsReferences, Tool
<1>3. at \in {"clearing", "listing", "done"} /\ (tool.command = "reconcile" => at = "clearing")
  BY <1>1 DEF NextProvider
<1>4. clears \in Ids /\ clears[p] = {} /\ \A q \in Provider : q # p => clears[q] = tool.clears[q]
  BY <1>1 DEF Tool, Ids
<1> HIDE DEF at, clears
<1>5. /\ tool' \in Tool /\ tool'.at = at /\ tool'.clears = clears
      /\ tool'.command = tool.command /\ tool'.scope = tool.scope
      /\ tool'.deletes = tool.deletes /\ tool'.errors = tool.errors
  BY <1>1, <1>2, <1>3, <1>4 DEF Tool
<1>6. remote' = remote /\ alone' = alone /\ row' = Cleared(p, tool.clears[p])
  BY DEF ClearsReferences
<1>7. 0 \notin tool.clears[p]
  BY <1>1 DEF Tool, Ids
<1>8. /\ row' \in [File -> StoredFile] /\ \A f \in File : row'[f].state = row[f].state
      /\ Recorded(p)' = Recorded(p) \ tool.clears[p]
      /\ \A q \in Provider : q # p => Recorded(q)' = Recorded(q)
  BY <1>1, <1>6, <1>7, RecordedAfterClearing
<1>9. Keeps
  BY <1>1, <1>6, <1>8, ToolKeepsFiles DEF ClearsReferences, FilesInv, TypeOK
<1>10. ClearsTheDead'
  BY <1>1, <1>3, <1>4, <1>5, <1>6 DEF MaintenanceInv, ClearsTheDead
<1>11. Mends'
  <2> SUFFICES ASSUME tool.command = "reconcile", alone, ~tool.errors, NEW q \in tool.scope
               PROVE  Mended(q)'
    BY <1>3, <1>5, <1>6 DEF Mends
  <2>1. q \in Provider /\ at = "clearing"
    BY <1>1, <1>3 DEF Tool
  <2>2. /\ tool.clears[q] = Recorded(q) \ remote[q]
        /\ tool.deletes[q] = remote[q] \ Recorded(q)
    BY <1>1 DEF MaintenanceInv, Mends, Mended
  <2>3. CASE q = p
    BY <1>4, <1>5, <1>6, <1>8, <2>1, <2>2, <2>3 DEF Mended
  <2>4. CASE q # p
    BY <1>4, <1>5, <1>6, <1>8, <2>1, <2>2, <2>4 DEF Mended
  <2> QED BY <2>3, <2>4
<1> QED BY <1>1, <1>5, <1>6, <1>9, <1>10, <1>11
        DEF Tolerates, MaintenanceInv, MaintenanceTypeOK, Keeps

LEMMA NothingLeftTolerates ==
    ASSUME MaintenanceInv, NothingToClear \/ NothingToDelete
    PROVE  Tolerates
<1> DEFINE at == IF tool.at = "clearing" THEN "deleting" ELSE "done"
<1>1. /\ tool \in Tool /\ FilesInv /\ alone \in BOOLEAN
      /\ tool.at \in {"clearing", "deleting"}
  BY DEF MaintenanceInv, MaintenanceTypeOK, NothingToClear, NothingToDelete
<1>2. /\ tool.at = "clearing" => Pending(tool.clears) = {}
      /\ tool.at = "deleting" => Pending(tool.deletes) = {}
  BY DEF NothingToClear, NothingToDelete
<1>3. tool' = [tool EXCEPT !.at = at]
  BY DEF NothingToClear, NothingToDelete, ToolBecomes
<1>4. at \in {"deleting", "done"} /\ (at = "deleting" <=> tool.at = "clearing")
  BY <1>1
<1> HIDE DEF at
<1>5. /\ tool' \in Tool /\ tool'.at = at /\ tool'.command = tool.command
      /\ tool'.scope = tool.scope /\ tool'.deletes = tool.deletes
      /\ tool'.errors = tool.errors
  BY <1>1, <1>3, <1>4 DEF Tool
<1>6. remote' = remote /\ alone' = alone /\ row' = row
  BY DEF NothingToClear, NothingToDelete, ToolBecomes
<1>7. \A q \in Provider : Recorded(q)' = Recorded(q)
  BY <1>6, RecordedStays
<1>8. Keeps
  BY <1>1, ReadingKeepsFiles DEF NothingToClear, NothingToDelete
<1>9. ClearsTheDead'
  BY <1>4, <1>5 DEF ClearsTheDead
<1>10. Mends'
  <2> SUFFICES ASSUME tool.command = "reconcile", alone, ~tool.errors, NEW q \in tool.scope
               PROVE  Mended(q)'
    BY <1>4, <1>5, <1>6 DEF Mends
  <2>1. q \in Provider /\ Mended(q)
    BY <1>1 DEF Tool, MaintenanceInv, Mends
  <2>2. CASE tool.at = "clearing"
    <3>1. tool.clears[q] = {}
      BY <1>2, <2>1, <2>2 DEF Pending
    <3> QED BY <1>4, <1>5, <1>6, <1>7, <2>1, <2>2, <3>1 DEF Mended
  <2>3. CASE tool.at = "deleting"
    <3>1. tool.deletes[q] = {}
      BY <1>2, <2>1, <2>3 DEF Pending
    <3> QED BY <1>4, <1>5, <1>6, <1>7, <2>1, <2>3, <3>1 DEF Mended
  <2> QED BY <1>1, <2>2, <2>3
<1> QED BY <1>1, <1>5, <1>6, <1>8, <1>9, <1>10
        DEF Tolerates, MaintenanceInv, MaintenanceTypeOK, Keeps

LEMMA DeletesOrphanTolerates ==
    ASSUME MaintenanceInv, NEW p \in Provider, DeletesOrphan(p)
    PROVE  Tolerates
<1>1. /\ tool \in Tool /\ FilesInv /\ alone \in BOOLEAN /\ tool.at = "deleting"
      /\ tool.command = "reconcile"
  BY DEF MaintenanceInv, MaintenanceTypeOK, DeletesOrphan
<1>2. PICK n \in tool.deletes[p], errors \in BOOLEAN :
         /\ ToolBecomes([tool EXCEPT !.deletes = [tool.deletes EXCEPT ![p] = @ \ {n}],
                                     !.errors = errors])
         /\ \/ errors = tool.errors /\ remote' = [remote EXCEPT ![p] = @ \ {n}]
            \/ errors = TRUE /\ remote' = remote
  <2>1. PICK n \in tool.deletes[p] :
         \/ /\ remote' = [remote EXCEPT ![p] = @ \ {n}]
            /\ ToolBecomes([tool EXCEPT !.deletes[p] = @ \ {n}])
         \/ /\ ToolBecomes([tool EXCEPT !.deletes[p] = @ \ {n}, !.errors = TRUE])
            /\ UNCHANGED remote
    BY DEF DeletesOrphan
  <2>2. [tool EXCEPT !.deletes[p] = @ \ {n}] =
          [tool EXCEPT !.deletes = [tool.deletes EXCEPT ![p] = @ \ {n}], !.errors = tool.errors]
    BY <1>1 DEF Tool
  <2>3. [tool EXCEPT !.deletes[p] = @ \ {n}, !.errors = TRUE] =
          [tool EXCEPT !.deletes = [tool.deletes EXCEPT ![p] = @ \ {n}], !.errors = TRUE]
    BY <1>1 DEF Tool
  <2>4. tool.errors \in BOOLEAN
    BY <1>1 DEF Tool
  <2>5. CASE /\ remote' = [remote EXCEPT ![p] = @ \ {n}]
             /\ ToolBecomes([tool EXCEPT !.deletes[p] = @ \ {n}])
    BY <2>2, <2>4, <2>5
  <2>6. CASE /\ ToolBecomes([tool EXCEPT !.deletes[p] = @ \ {n}, !.errors = TRUE])
             /\ UNCHANGED remote
    BY <2>3, <2>6
  <2> QED BY <2>1, <2>5, <2>6
<1> DEFINE deletes == [tool.deletes EXCEPT ![p] = @ \ {n}]
           w == [tool EXCEPT !.deletes = deletes, !.errors = errors]
<1>3. /\ deletes \in Ids /\ deletes[p] = tool.deletes[p] \ {n}
      /\ \A q \in Provider : q # p => deletes[q] = tool.deletes[q]
  BY <1>1 DEF Tool, Ids
<1>4. tool' = w /\ row' = row /\ alone' = alone
  BY <1>2 DEF DeletesOrphan, ToolBecomes
<1> HIDE DEF deletes
<1>5. /\ w \in Tool /\ w.at = "deleting" /\ w.command = "reconcile"
      /\ w.scope = tool.scope /\ w.deletes = deletes /\ w.errors = errors
  BY <1>1, <1>3 DEF Tool
<1>6. \A q \in Provider : Recorded(q)' = Recorded(q)
  BY <1>4, RecordedStays
<1>7. Keeps
  BY <1>1, <1>2, ReadingKeepsFiles, DeletingKeepsFiles
<1> HIDE DEF w
<1>8. ClearsTheDead'
  BY <1>4, <1>5 DEF ClearsTheDead
<1>9. Mends'
  <2> SUFFICES ASSUME alone, ~errors, NEW q \in tool.scope
               PROVE  Mended(q)'
    BY <1>4, <1>5 DEF Mends
  <2>1. ~tool.errors /\ remote' = [remote EXCEPT ![p] = @ \ {n}]
    BY <1>2
  <2>2. q \in Provider /\ Mended(q)
    BY <1>1, <2>1 DEF Tool, MaintenanceInv, Mends
  <2>3. Recorded(q) \subseteq remote[q] /\ tool.deletes[q] = remote[q] \ Recorded(q)
    BY <1>1, <2>2 DEF Mended
  <2>4. CASE q = p
    <3>1. remote'[q] = remote[q] \ {n}
      BY <1>1, <2>1, <2>4, RemoteAfterDeletion
    <3>2. n \notin Recorded(q)
      BY <1>2, <2>3, <2>4
    <3> QED BY <1>3, <1>4, <1>5, <1>6, <2>2, <2>3, <2>4, <3>1, <3>2 DEF Mended
  <2>5. CASE q # p
    <3>1. remote'[q] = remote[q]
      BY <1>1, <2>1, <2>2, <2>5, RemoteAfterDeletion
    <3> QED BY <1>3, <1>4, <1>5, <1>6, <2>2, <2>3, <2>5, <3>1 DEF Mended
  <2> QED BY <2>4, <2>5
<1> QED BY <1>1, <1>4, <1>5, <1>7, <1>8, <1>9
        DEF Tolerates, MaintenanceInv, MaintenanceTypeOK, Keeps

-----------------------------------------------------------------------------
(* cleanup-filename and cleanup-file-id *)

\* Nothing is claimed of the other commands but that they harm no row.
LEMMA OtherCommandTolerates ==
    ASSUME tool' \in Tool, tool'.command # "reconcile", alone' \in BOOLEAN, Keeps
    PROVE  Tolerates
BY DEF Tolerates, Keeps, MaintenanceInv, MaintenanceTypeOK, ClearsTheDead, Mends

LEMMA ListsByNameTolerates ==
    ASSUME MaintenanceInv, NEW p \in Provider, ListsByName(p)
    PROVE  Tolerates
<1>1. /\ tool \in Tool /\ FilesInv /\ alone \in BOOLEAN /\ tool.command = "filename"
  BY DEF MaintenanceInv, MaintenanceTypeOK, ListsByName
<1>2. PICK named \in SUBSET Listing(p), at \in {"deleting", "done", "listing"} :
         ToolBecomes([tool EXCEPT
            !.providers = tool.providers \ {p},
            !.deletes = [tool.deletes EXCEPT ![p] = named],
            !.clears = [tool.clears EXCEPT ![p] = named], !.at = at])
  BY DEF ListsByName
<1> DEFINE w == [tool EXCEPT
            !.providers = tool.providers \ {p},
            !.deletes = [tool.deletes EXCEPT ![p] = named],
            !.clears = [tool.clears EXCEPT ![p] = named], !.at = at]
<1>3. named \in SUBSET (1 .. MaxCopy)
  BY <1>1, ListingTyped
<1>4. /\ [tool.deletes EXCEPT ![p] = named] \in Ids
      /\ [tool.clears EXCEPT ![p] = named] \in Ids
  BY <1>1, <1>3 DEF Tool, Ids
<1>5. w \in Tool /\ w.command = "filename"
  BY <1>1, <1>4 DEF Tool
<1>6. remote' = remote /\ alone' = alone
  BY DEF ListsByName
<1>7. Keeps
  BY <1>1, <1>2, <1>6, ReadingKeepsFiles
<1>8. tool' = w
  BY <1>2 DEF ToolBecomes
<1> HIDE DEF w
<1> QED BY <1>1, <1>5, <1>6, <1>7, <1>8, OtherCommandTolerates

LEMMA DeletesCopyTolerates ==
    ASSUME MaintenanceInv, NEW p \in Provider, DeletesCopy(p)
    PROVE  Tolerates
<1>1. /\ tool \in Tool /\ FilesInv /\ alone' \in BOOLEAN /\ tool.command # "reconcile"
  BY DEF MaintenanceInv, MaintenanceTypeOK, DeletesCopy
<1>2. \A n : /\ [tool.deletes EXCEPT ![p] = @ \ {n}] \in Ids
             /\ [tool.deletes EXCEPT ![p] = {}] \in Ids
             /\ [tool.clears EXCEPT ![p] = {}] \in Ids
  BY <1>1 DEF Tool, Ids
<1>3. PICK n \in tool.deletes[p] :
         \/ /\ remote' = [remote EXCEPT ![p] = @ \ {n}]
            /\ \/ ToolBecomes([tool EXCEPT !.deletes[p] = @ \ {n}])
               \/ ToolBecomes([tool EXCEPT !.deletes[p] = {}, !.at = "clearing"])
               \/ ToolBecomes([tool EXCEPT !.deletes[p] = {}, !.clears[p] = {},
                                           !.at = NextProvider])
         \/ /\ ToolBecomes([tool EXCEPT !.at = "done", !.errors = TRUE])
            /\ UNCHANGED remote
  BY DEF DeletesCopy
<1>4. CASE UNCHANGED remote /\ ToolBecomes([tool EXCEPT !.at = "done", !.errors = TRUE])
  <2>1. tool' \in Tool /\ tool'.command = tool.command
    BY <1>1, <1>4 DEF ToolBecomes, Tool
  <2> QED BY <1>1, <1>4, <2>1, ReadingKeepsFiles, OtherCommandTolerates
<1>5. CASE /\ remote' = [remote EXCEPT ![p] = @ \ {n}]
           /\ ToolBecomes([tool EXCEPT !.deletes[p] = @ \ {n}])
  <2>1. tool' = [tool EXCEPT !.deletes = [tool.deletes EXCEPT ![p] = @ \ {n}]]
    BY <1>1, <1>5 DEF ToolBecomes, Tool
  <2>2. tool' \in Tool /\ tool'.command = tool.command
    BY <1>1, <1>2, <2>1 DEF Tool
  <2> QED BY <1>1, <1>5, <2>2, DeletingKeepsFiles, OtherCommandTolerates
<1>6. CASE /\ remote' = [remote EXCEPT ![p] = @ \ {n}]
           /\ ToolBecomes([tool EXCEPT !.deletes[p] = {}, !.at = "clearing"])
  <2>1. tool' = [tool EXCEPT !.deletes = [tool.deletes EXCEPT ![p] = {}], !.at = "clearing"]
    BY <1>1, <1>6 DEF ToolBecomes, Tool
  <2>2. tool' \in Tool /\ tool'.command = tool.command
    BY <1>1, <1>2, <2>1 DEF Tool
  <2> QED BY <1>1, <1>6, <2>2, DeletingKeepsFiles, OtherCommandTolerates
<1>7. CASE /\ remote' = [remote EXCEPT ![p] = @ \ {n}]
           /\ ToolBecomes([tool EXCEPT !.deletes[p] = {}, !.clears[p] = {},
                                       !.at = NextProvider])
  <2>1. tool' = [tool EXCEPT !.deletes = [tool.deletes EXCEPT ![p] = {}],
                             !.clears = [tool.clears EXCEPT ![p] = {}], !.at = NextProvider]
    BY <1>1, <1>7 DEF ToolBecomes, Tool
  <2>2. NextProvider \in {"done", "listing"}
    BY DEF NextProvider
  <2>3. tool' \in Tool /\ tool'.command = tool.command
    BY <1>1, <1>2, <2>1, <2>2 DEF Tool
  <2> QED BY <1>1, <1>7, <2>3, DeletingKeepsFiles, OtherCommandTolerates
<1> QED BY <1>3, <1>4, <1>5, <1>6, <1>7

-----------------------------------------------------------------------------
(* A command starts and ends, and the application beside it *)

LEMMA StartsTolerates ==
    ASSUME MaintenanceInv, NEW w \in Tool, ToolBecomes(w), UNCHANGED remote,
           alone' \in BOOLEAN, w.command = "reconcile" => w.at = "reading" /\ w.providers = w.scope
    PROVE  Tolerates
<1>1. FilesInv /\ tool' = w
  BY DEF MaintenanceInv, ToolBecomes
<1>2. Keeps
  BY <1>1, ReadingKeepsFiles
<1>3. ClearsTheDead' /\ Mends'
  BY <1>1 DEF ClearsTheDead, Mends, Mended
<1> QED BY <1>1, <1>2, <1>3 DEF Tolerates, Keeps, MaintenanceInv, MaintenanceTypeOK

LEMMA CommandStartsTolerates ==
    ASSUME MaintenanceInv,
           RunsReconcile \/ RunsFilename \/ \E p \in Provider : RunsFileId(p)
    PROVE  Tolerates
<1>1. UNCHANGED remote /\ alone' \in BOOLEAN
  BY DEF RunsReconcile, RunsFilename, RunsFileId, Starting
<1>2. CASE RunsReconcile
  <2>1. PICK providers \in SUBSET Provider :
           ToolBecomes([Unused EXCEPT !.at = "reading", !.scope = providers,
                                      !.providers = providers])
    BY <1>2 DEF RunsReconcile
  <2> DEFINE w == [Unused EXCEPT !.at = "reading", !.scope = providers,
                                 !.providers = providers]
  <2>2. w \in Tool /\ w.at = "reading" /\ w.providers = w.scope
    BY UnusedTyped DEF Tool
  <2> QED BY <1>1, <2>1, <2>2, StartsTolerates
<1>3. CASE RunsFilename
  <2> DEFINE w == [Unused EXCEPT !.at = "listing", !.command = "filename",
                                 !.providers = Provider]
  <2>1. w \in Tool /\ w.command = "filename"
    BY UnusedTyped DEF Tool
  <2> QED BY <1>1, <1>3, <2>1, StartsTolerates DEF RunsFilename
<1>4. ASSUME NEW p \in Provider, RunsFileId(p) PROVE Tolerates
  <2>1. PICK n \in 1 .. MaxCopy :
           ToolBecomes([Unused EXCEPT !.at = "deleting", !.command = "file_id",
                           !.deletes = [@ EXCEPT ![p] = {n}],
                           !.clears = [@ EXCEPT ![p] = {n}]])
    BY <1>4 DEF RunsFileId
  <2> DEFINE ids == [NoIds EXCEPT ![p] = {n}]
             w == [Unused EXCEPT !.at = "deleting", !.command = "file_id",
                                 !.deletes = ids, !.clears = ids]
  <2>2. ids \in Ids
    BY DEF NoIds, Ids
  <2>3. Unused.deletes = NoIds /\ Unused.clears = NoIds
    BY DEF Unused
  <2>4. ToolBecomes(w)
    BY <2>1, <2>3
  <2> HIDE DEF ids
  <2>5. w \in Tool /\ w.command = "file_id"
    BY <2>2, UnusedTyped DEF Tool
  <2> QED BY <1>1, <2>4, <2>5, StartsTolerates
<1> QED BY <1>2, <1>3, <1>4

LEMMA LeavesTolerates ==
    ASSUME MaintenanceInv, Leaves
    PROVE  Tolerates
<1>1. Keeps
  BY StepKeepsFilesInv DEF MaintenanceInv, Leaves
<1>2. tool' = Unused /\ alone' = FALSE
  BY DEF Leaves
<1>3. ClearsTheDead' /\ Mends'
  BY <1>2 DEF Unused, ClearsTheDead, Mends
<1> QED BY <1>1, <1>2, <1>3, UnusedTyped
        DEF Tolerates, Keeps, MaintenanceInv, MaintenanceTypeOK

\* The application goes on while a command runs: no provider gives again an id that the
\* tool has read.
LEMMA AppTolerates ==
    ASSUME MaintenanceInv, AppNext
    PROVE  Tolerates
<1>1. Keeps
  BY StepKeepsFilesInv DEF MaintenanceInv, AppNext
<1>2. tool' = tool /\ alone' = FALSE
  BY DEF AppNext
<1>3. ASSUME NEW p \in Provider \ Keyed
      PROVE  (remote'[p] \ remote[p]) \cap (tool.refs[p] \cup tool.clears[p]) = {}
  BY DEF AppNext, Remembered
<1>4. ClearsTheDead'
  BY <1>2, <1>3 DEF MaintenanceInv, ClearsTheDead
<1>5. Mends'
  BY <1>2 DEF MaintenanceInv, Mends
<1> QED BY <1>1, <1>2, <1>4, <1>5 DEF Tolerates, Keeps, MaintenanceInv, MaintenanceTypeOK

LEMMA StutterTolerates ==
    ASSUME MaintenanceInv, UNCHANGED maintenanceVars
    PROVE  Tolerates
<1>1. UNCHANGED vars /\ tool' = tool /\ alone' = alone
  BY DEF maintenanceVars, vars
<1>2. Keeps
  BY <1>1, StepKeepsFilesInv DEF MaintenanceInv
<1>3. remote' = remote /\ \A p \in Provider : Recorded(p)' = Recorded(p)
  BY <1>1, RecordedStays DEF vars
<1>4. ClearsTheDead' /\ Mends'
  <2>1. tool.scope \subseteq Provider
    BY DEF MaintenanceInv, MaintenanceTypeOK, Tool
  <2>2. \A p \in tool.scope : Mended(p) => Mended(p)'
    BY <1>1, <1>3, <2>1 DEF Mended
  <2> QED BY <1>1, <1>3, <2>2 DEF MaintenanceInv, ClearsTheDead, Mends
<1> QED BY <1>1, <1>2, <1>4 DEF Tolerates, Keeps, MaintenanceInv, MaintenanceTypeOK

LEMMA MaintenanceStep == MaintenanceInv /\ [MaintenanceNext]_maintenanceVars => Tolerates
<1> SUFFICES ASSUME MaintenanceInv, [MaintenanceNext]_maintenanceVars PROVE Tolerates
  OBVIOUS
<1>1. CASE AppNext
  BY <1>1, AppTolerates
<1>2. CASE ToolNext
  BY <1>2, CommandStartsTolerates, ReadsDatabaseTolerates, NothingLeftTolerates,
     ListsProviderTolerates, ListsByNameTolerates, ClearsReferencesTolerates,
     DeletesOrphanTolerates, DeletesCopyTolerates, LeavesTolerates
     DEF ToolNext
<1> QED BY <1>1, <1>2, StutterTolerates DEF MaintenanceNext

LEMMA MaintenanceStarts == MaintenanceInit => MaintenanceInv /\ Shared!SharedInit
<1> SUFFICES ASSUME MaintenanceInit PROVE MaintenanceInv /\ Shared!SharedInit
  OBVIOUS
<1>1. FilesInv /\ Shared!SharedInit
  BY InitFilesInv DEF MaintenanceInit
<1>2. tool = Unused /\ tool.at = "idle" /\ alone = FALSE
  BY DEF MaintenanceInit, Unused
<1>3. ClearsTheDead /\ Mends
  BY <1>2 DEF ClearsTheDead, Mends
<1> QED BY <1>1, <1>2, <1>3, UnusedTyped DEF MaintenanceInv, MaintenanceTypeOK

\* The stored files keep their invariant, a reconciliation is to clear only dead copies,
\* and mends what it found, whichever commands an operator runs beside the application.
THEOREM MaintenanceInductive == MaintenanceSpec => []MaintenanceInv
<1>1. MaintenanceInv /\ [MaintenanceNext]_maintenanceVars => MaintenanceInv'
  BY MaintenanceStep DEF Tolerates
<1> QED BY <1>1, MaintenanceStarts, PTL DEF MaintenanceSpec

\* The rows keep what is attached, and are active only while something is, also while an
\* operator lists, clears and deletes without any lock.
THEOREM MaintenanceKeepsFiles ==
    MaintenanceSpec => []ActiveIffAttached /\ KeepsWhatIsAttached
<1>1. MaintenanceInv /\ [MaintenanceNext]_maintenanceVars =>
        [Shared!SharedNext]_(Shared!sharedVars)
  BY MaintenanceStep DEF Tolerates
<1>2. MaintenanceInv => ActiveIffAttached
  BY DEF MaintenanceInv, FilesInv
<1> QED BY <1>1, <1>2, MaintenanceStarts, MaintenanceInductive, PTL
        DEF MaintenanceSpec, KeepsWhatIsAttached, Shared!SharedSpec

\* A reconciliation that runs while nothing else does and meets no failure leaves the
\* database and each provider it covers with the same copies.
THEOREM ReconciliationMends == MaintenanceSpec => []ReconcilesFully
<1>1. MaintenanceInv => ReconcilesFully
  BY DEF MaintenanceInv, Mends, Mended, ReconcilesFully
<1> QED BY <1>1, MaintenanceInductive, PTL

\* A reconciliation never clears the record of a copy the provider still has, although
\* requests upload and record copies between its reading, its listing and its writing:
\* it reads the database first, and the provider gives no id twice.
THEOREM OnlyTheDeadAreCleared == MaintenanceSpec => ClearsOnlyTheDead
<1>1. MaintenanceInv /\ [MaintenanceNext]_maintenanceVars =>
        [\A p \in Provider \ Keyed : tool.command = "reconcile" /\ ClearsReferences(p) =>
           \A n \in Recorded(p) : n \in remote[p] => n \in Recorded(p)']_maintenanceVars
  <2> SUFFICES ASSUME MaintenanceInv, NEW p \in Provider \ Keyed,
                      tool.command = "reconcile", ClearsReferences(p),
                      NEW n \in Recorded(p), n \in remote[p]
               PROVE  n \in Recorded(p)'
    OBVIOUS
  <2>1. tool \in Tool /\ FilesInv /\ tool.at = "clearing"
    BY DEF MaintenanceInv, MaintenanceTypeOK, ClearsReferences
  <2>2. n \notin tool.clears[p]
    BY <2>1 DEF MaintenanceInv, ClearsTheDead
  <2>3. 0 \notin tool.clears[p] /\ row' = Cleared(p, tool.clears[p])
    BY <2>1 DEF Tool, Ids, ClearsReferences
  <2>4. Recorded(p)' = Recorded(p) \ tool.clears[p]
    BY <2>1, <2>3, RecordedAfterClearing
  <2> QED BY <2>2, <2>4
<1> QED BY <1>1, MaintenanceInductive, PTL DEF MaintenanceSpec, ClearsOnlyTheDead

=================================================================================
