--------------------------- MODULE ContextCompaction ---------------------------
(***************************************************************************)
(* Context compaction inside the chat turns of ChatTurn: a send whose      *)
(* context is over budget has everything visible summarised by a provider, *)
(* and stores the summary as the checkpoint of the history together with   *)
(* the sequence it covers (services/chat/completions/request_builder.py,   *)
(* context/pipeline.py, context/checkpoints.py).  From then on a context   *)
(* is the summary and the messages after that sequence.                    *)
(*                                                                         *)
(* A summary stands for the set of messages it was made from.  The two     *)
(* messages of a turn share one number.  What the summary costs is in      *)
(* UsageCaps.                                                              *)
(***************************************************************************)
EXTENDS ChatTurn, Integers, FiniteSetsExt

CONSTANT NoSource    \* no compaction is under way

ASSUME SendsFinite == IsFiniteSet(Sends)

VARIABLES
    number,      \* [Sends -> place of the turn in its history, 0 before it has one]
    checkpoint,  \* [History -> chat_context_checkpoints row: summary and coverage]
    source,      \* [Sends -> what is being summarised, and up to where]
    compacted    \* [Sends -> the request has been compacted]

memory == <<number, checkpoint, source, compacted>>
allVars == <<vars, memory>>

Checkpoint == [summary : SUBSET Messages, covers : 0..Cardinality(Sends)]

CompactionTypeOK ==
    /\ TypeOK
    /\ number \in [Sends -> 0..Cardinality(Sends)]
    /\ checkpoint \in [History -> Checkpoint]
    /\ source \in [Sends -> Checkpoint \cup {NoSource}]
    /\ compacted \in [Sends -> BOOLEAN]

\* A history without a checkpoint row is one whose checkpoint covers nothing.
CompactionInit ==
    /\ Init
    /\ number = [o \in Sends |-> 0]
    /\ checkpoint = [h \in History |-> [summary |-> {}, covers |-> 0]]
    /\ source = [o \in Sends |-> NoSource]
    /\ compacted = [o \in Sends |-> FALSE]

-----------------------------------------------------------------------------

\* _load_persisted_suffix_messages: the rows after the checkpoint, an assistant row
\* that is streaming and has no text included.
Suffix(h) ==
    {p \in Sends : scope[p] = h /\ msg[p] # "none" /\ ~excluded[p]
                     /\ number[p] > checkpoint[h].covers}

\* build_chat_context and build_compaction_source_text: the summary and the rows
\* of the suffix that have text.
Known(h) ==
    checkpoint[h].summary \cup {m \in VisibleMessages(h) : m[2] \in Suffix(h)}

\* Slip: the message about to be sent is counted as covered.
CoverageAhead(h) == Max({number[p] : p \in Sends} \cup {checkpoint[h].covers}) + 1

\* Slip: only the rows count, and there may be none.
CoverageOfRows(h) == Max({number[p] : p \in Suffix(h)} \cup {0})

\* _resolve_covered_through_sequence.
Coverage(h) == Max({number[p] : p \in Suffix(h)} \cup {checkpoint[h].covers})

\* build_prepared_request, with the checkpoint.
ReadContext(o) ==
    /\ pc[o] = "preparing" /\ LoopFree
    /\ context' = [context EXCEPT ![o] = Known(scope[o])]
    /\ Goes(o, "ready")
    /\ UNCHANGED <<rows, answered, TouchesMessages, sink, memory>>

\* needs_context_compaction: run_context_compaction reads its source and awaits the
\* compression.  With nothing to summarise the request fails.
StartCompaction(o) ==
    /\ pc[o] = "ready" /\ LoopFree
    /\ ~compacted[o] /\ source[o] = NoSource
    /\ Known(scope[o]) # {}
    /\ source' = [source EXCEPT ![o] =
           [summary |-> Known(scope[o]), covers |-> Coverage(scope[o])]]
    /\ UNCHANGED <<vars, number, checkpoint, compacted>>

\* The summary has come: under the fence, the checkpoint is written, and the
\* request is built anew.
EndCompaction(o) ==
    /\ pc[o] = "ready" /\ LoopFree
    /\ source[o] # NoSource
    /\ Current(o, FALSE)
    /\ checkpoint' = [checkpoint EXCEPT ![scope[o]] = source[o]]
    /\ source' = [source EXCEPT ![o] = NoSource]
    /\ compacted' = [compacted EXCEPT ![o] = TRUE]
    /\ UNCHANGED <<rows, pc, answered, TouchesMessages, sink, number>>
    /\ context' = [context EXCEPT ![o] = Known(scope[o])']

\* The turn takes the next sequence of its history.
NumberTurn(o) ==
    /\ PersistTurn(o)
    /\ number' = [number EXCEPT ![o] =
           1 + Max({0} \cup {number[p] : p \in {p \in Sends : scope[p] = scope[o]}})]
    /\ UNCHANGED <<checkpoint, source, compacted>>

\* The steps of ChatTurn compaction has no part in.  A request goes on to its turn
\* only when its compaction is over; it may fail at any time.
OtherStep(o) ==
    \/ \E h \in History : BeginSend(o, h)
    \/ \E outcome \in {"failed", "timed_out"} : PrestartFails(o, outcome)
    \/ source[o] = NoSource /\ (Transition(o) \/ StartRefused(o))
    \/ ProviderEvent(o)
    \/ ProviderTimesOut(o)
    \/ \E expected \in BOOLEAN : ProviderFails(o, expected)
    \/ ProviderEnds(o)
    \/ PersistSuccess(o)
    \/ SuccessRefused(o)
    \/ TimePasses(o)

CompactionNext ==
    \/ \E o \in Sends :
          \/ ReadContext(o)
          \/ StartCompaction(o)
          \/ EndCompaction(o)
          \/ NumberTurn(o)
          \/ OtherStep(o) /\ UNCHANGED memory
    \/ (Housekeeping \/ Crash) /\ UNCHANGED memory

CompactionSpec == CompactionInit /\ [][CompactionNext]_allVars

-----------------------------------------------------------------------------
(* Properties *)

\* No answer is lost between a summary and the messages after it: whatever was
\* stored, and whenever, is in every context read from now on, although a summary
\* is stored long after its source was read and covers rows that had no text then
\* (pipeline.py:74-159, request_builder.py:81-137).
AnswersAreRemembered ==
    \A p \in Sends : msg[p] = "done" => <<"answer", p>> \in Known(scope[p])

\* The checkpoint of a history never covers less than before, whoever compacts and
\* also when a request over budget finds nothing new to cover
\* (pipeline.py:150-159, request_builder.py:112-123).
CheckpointNeverFallsBack ==
    [][\A h \in History : checkpoint'[h].covers >= checkpoint[h].covers]_allVars

=============================================================================
