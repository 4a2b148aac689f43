------------------------------ MODULE TurnStream ------------------------------
(***************************************************************************)
(* run_chat_completion_turn (services/chat/completions/                    *)
(* provider_execution.py): the loop that takes the events a provider's     *)
(* mapper makes of a raw chunk, shows them to the client, merges the       *)
(* blocks, stores those that end, and closes the turn.  OpenAIStream,      *)
(* AnthropicStream and VertexStream add a provider and its mapper, and     *)
(* ProviderStreams chooses between them and states the properties.         *)
(*                                                                         *)
(* Text is counted in the fragments it arrives in; so are a tool block's   *)
(* raw events.  The deadlines themselves are in ProviderHeartbeat.         *)
(***************************************************************************)
EXTENDS Naturals, Sequences

CONSTANTS
    Block,      \* block ids
    NoBlock,
    MaxParts    \* bound on the fragments of the answer; a block has at most 3 * MaxParts

ASSUME TurnStreamAssumption == NoBlock \notin Block /\ MaxParts \in Nat \ {0}

VARIABLES
    pending,    \* events of the last raw chunk that are still to be handled
    text,       \* accumulated_text
    shown,      \* [Block -> fragments the client was sent]
    accumulated, \* [Block -> fragments in the accumulator, 0 for no entry]
    rows,       \* chat_message_blocks of the message, by sequence
    completion, \* finish_reason of completion_event
    final_answer_completed,
    lease,      \* the operation: "held", "expired", "lost" to housekeeping
    message,    \* the assistant's row
    client,     \* the last terminal event on the sink
    sent        \* what the provider has really said

turnVars == <<pending, text, shown, accumulated, rows, completion, final_answer_completed,
              lease, message, client, sent>>

\* "complete": the reasons is_strong_final_answer_event takes for a whole answer.
Finish == {"none", "complete", "cut"}

Event ==
    [kind : {"block", "answer", "completion", "metadata", "status"},
     block : Block \cup {NoBlock}, parts : {0, 1}, ends : BOOLEAN, finish : Finish]
Status == [kind |-> "status", block |-> NoBlock, parts |-> 0, ends |-> FALSE, finish |-> "none"]
Answer == [Status EXCEPT !.kind = "answer", !.parts = 1]
Completion(finish) == [Status EXCEPT !.kind = "completion", !.finish = finish]
BlockEvent(b, parts, ends) ==
    [Status EXCEPT !.kind = "block", !.block = b, !.parts = parts, !.ends = ends]

Message ==
    [status : {"streaming", "done", "error"}, text : 0 .. MaxParts, finish : Finish,
     kept : BOOLEAN, code : {"none", "success", "chat_failed", "provider", "timeout", "recovered"}]
Streaming ==
    [status |-> "streaming", text |-> 0, finish |-> "none", kept |-> TRUE, code |-> "none"]

TurnTypeOK ==
    /\ pending \in Seq(Event)
    /\ text \in 0 .. MaxParts
    /\ shown \in [Block -> 0 .. 3 * MaxParts]
    /\ accumulated \in [Block -> 0 .. 3 * MaxParts]
    /\ rows \in Seq([block : Block, parts : 0 .. 3 * MaxParts])
    /\ completion \in Finish
    /\ final_answer_completed \in BOOLEAN
    /\ lease \in {"held", "expired", "lost"}
    /\ message \in Message
    /\ client \in {"streaming", "done", "error"}
    /\ sent \in [text : 0 .. MaxParts, answered : BOOLEAN, finish : Finish]

TurnInit ==
    /\ pending = <<>>
    /\ text = 0
    /\ shown = [b \in Block |-> 0]
    /\ accumulated = [b \in Block |-> 0]
    /\ rows = <<>>
    /\ completion = "none"
    /\ final_answer_completed = FALSE
    /\ lease = "held"
    /\ message = Streaming
    /\ client = "streaming"
    /\ sent = [text |-> 0, answered |-> FALSE, finish |-> "none"]

-----------------------------------------------------------------------------
(* Ends of a turn *)

Running == client = "streaming"
Waiting == Running /\ pending = <<>>

\* should_include_error_turn.
KeepsError == final_answer_completed /\ text > 0

\* persist_turn_failure and persist_provider_timeout: the client hears of the failure
\* even when the row is housekeeping's already.
Fails(code, keeps) ==
    /\ message' = IF lease = "lost"
                    THEN message
                    ELSE [status |-> "error", text |-> text, finish |-> "none",
                          kept |-> keeps, code |-> code]
    /\ client' = "error"
    /\ pending' = <<>>

TimesOut == Fails("timeout", KeepsError)

\* persist_chat_turn_success, whose fence may refuse.
Succeeds ==
    IF lease = "held"
      THEN /\ message' = [status |-> "done", text |-> text, finish |-> completion,
                          kept |-> TRUE, code |-> "success"]
           /\ client' = "done"
           /\ UNCHANGED pending
      ELSE TimesOut

KeepsTurn == UNCHANGED <<text, shown, accumulated, rows, completion, final_answer_completed, lease>>

-----------------------------------------------------------------------------
(* The loop *)

\* mark_turn_provider_event, then the mapper: an event of a lost operation is not mapped.
Takes(events) ==
    /\ Waiting
    /\ IF lease = "held" THEN pending' = events /\ UNCHANGED <<message, client>> ELSE TimesOut
    /\ KeepsTurn

\* emit_provider_event: answer text.
EmitsAnswer ==
    /\ pending # <<>> /\ Head(pending).kind = "answer"
    /\ text' = text + 1
    /\ pending' = Tail(pending)
    /\ UNCHANGED <<shown, accumulated, rows, completion, final_answer_completed, lease, message, client, sent>>

\* ProviderBlockAccumulator.ingest.
Merged(e) == accumulated[e.block] + e.parts

\* A fragment of a block goes to the client and into the accumulator.
EmitsFragment ==
    /\ pending # <<>> /\ Head(pending).kind = "block"
    /\ LET e == Head(pending) IN
           /\ ~e.ends
           /\ shown' = [shown EXCEPT ![e.block] = @ + e.parts]
           /\ accumulated' = [accumulated EXCEPT ![e.block] = Merged(e)]
    /\ pending' = Tail(pending)
    /\ UNCHANGED <<text, rows, completion, final_answer_completed, lease, message, client, sent>>

\* The last fragment: the client has it before the row is written, and the row may be
\* refused by the fence, or by uq_chat_message_blocks_message_provider_block.
EmitsEnd ==
    /\ pending # <<>> /\ Head(pending).kind = "block"
    /\ LET e == Head(pending)
           row == [block |-> e.block, parts |-> Merged(e)] IN
           /\ e.ends
           /\ shown' = [shown EXCEPT ![e.block] = @ + e.parts]
           /\ accumulated' = [accumulated EXCEPT ![e.block] = 0]
           /\ \/ /\ lease # "held"
                 /\ TimesOut
                 /\ UNCHANGED rows
              \/ /\ lease = "held"
                 /\ \E i \in DOMAIN rows : rows[i].block = e.block
                 /\ Fails("chat_failed", FALSE)
                 /\ UNCHANGED rows
              \/ /\ lease = "held"
                 /\ \A i \in DOMAIN rows : rows[i].block # e.block
                 /\ rows' = Append(rows, row)
                 /\ pending' = Tail(pending)
                 /\ UNCHANGED <<message, client>>
    /\ UNCHANGED <<text, completion, final_answer_completed, lease, sent>>

\* completion_event: the last one that arrived.
LastCompletion(e) == IF e.kind = "completion" THEN e.finish ELSE completion

\* is_strong_final_answer_event; a metadata event carries a message item's status.
Strong(e) == e.kind \in {"completion", "metadata"} /\ e.finish = "complete"

EmitsNote ==
    /\ pending # <<>> /\ Head(pending).kind \notin {"block", "answer"}
    /\ completion' = LastCompletion(Head(pending))
    /\ final_answer_completed' = (final_answer_completed \/ Strong(Head(pending)))
    /\ pending' = Tail(pending)
    /\ UNCHANGED <<text, shown, accumulated, rows, lease, message, client, sent>>

\* The iterator stops; finalize decides what that means.
StreamEnds(valid) ==
    /\ Waiting
    /\ IF valid THEN Succeeds ELSE Fails("provider", KeepsError)
    /\ KeepsTurn
    /\ UNCHANGED sent

\* The provider's SDK raises, or an event reports the failure.
StreamBreaks ==
    /\ Waiting
    /\ Fails("provider", KeepsError)
    /\ KeepsTurn
    /\ UNCHANGED sent

\* No event within the idle time or the maximal run time.
Idles ==
    /\ Waiting
    /\ TimesOut
    /\ KeepsTurn
    /\ UNCHANGED sent

\* deadline_at passes; housekeeping on the same event loop then recovers the turn.
Expires ==
    /\ Running /\ lease = "held"
    /\ lease' = "expired"
    /\ UNCHANGED <<pending, text, shown, accumulated, rows, completion, final_answer_completed,
                   message, client, sent>>

Recovers ==
    /\ Waiting /\ lease = "expired"
    /\ lease' = "lost"
    /\ message' = [Streaming EXCEPT !.status = "error", !.kept = FALSE, !.code = "recovered"]
    /\ UNCHANGED <<pending, text, shown, accumulated, rows, completion, final_answer_completed,
                   client, sent>>

\* Steps that leave the provider and its mapper alone.
TurnStep ==
    \/ EmitsAnswer \/ EmitsFragment \/ EmitsEnd \/ EmitsNote
    \/ StreamBreaks \/ Idles
    \/ Expires \/ Recovers
=============================================================================
