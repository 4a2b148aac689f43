---------------------------- MODULE ProviderStreams ----------------------------
(***************************************************************************)
(* A turn on whichever provider its request was prepared for:              *)
(* ProviderStreamMapper (providers/dispatcher.py) hands every raw chunk to *)
(* one mapper, with a state that only this one understands.  The loop of   *)
(* TurnStream is the same for all three, and so are the properties.        *)
(***************************************************************************)
EXTENDS TurnStream

CONSTANTS
    Reasoning, Tool, Preamble, FinalAnswer, Summary,    \* of OpenAIStream
    MaxIndex, Use,                                      \* of AnthropicStream
    MaxChunks, MaxChunkParts                            \* of VertexStream

VARIABLES
    provider,   \* prepared_request.provider
    mapper,     \* ProviderStreamMapper.state
    stream      \* how far the provider is

vars == <<provider, turnVars, mapper, stream>>

OpenAIBlock == (Reasoning \X Summary) \cup (Tool \X {"tool"})
AnthropicBlock == ({"thinking"} \X (0 .. MaxIndex)) \cup ({"tool"} \X Use)
VertexBlock ==
    ({"thought"} \X (0 .. MaxChunks - 1) \X (1 .. MaxChunkParts)) \cup {<<"tool", 0, 0>>}

\* Block ids are ids, an OpenAI item is of one kind, and a response has one final answer.
ASSUME StreamsAssumption ==
    /\ NoBlock \notin OpenAIBlock \cup AnthropicBlock \cup VertexBlock
    /\ NoBlock \notin Reasoning \cup Tool \cup Preamble \cup FinalAnswer
    /\ Reasoning \cap Tool = {}
    /\ (Reasoning \cup Tool) \cap (Preamble \cup FinalAnswer) = {}
    /\ Preamble \cap FinalAnswer = {}
    /\ \A i, j \in FinalAnswer : i = j
    /\ MaxIndex \in Nat /\ MaxChunks \in Nat /\ MaxChunkParts \in Nat

OpenAI == INSTANCE OpenAIStream WITH Block <- OpenAIBlock
Anthropic == INSTANCE AnthropicStream WITH Block <- AnthropicBlock
Vertex == INSTANCE VertexStream WITH Block <- VertexBlock

Init ==
    \/ provider = "openai" /\ OpenAI!Init
    \/ provider = "anthropic" /\ Anthropic!Init
    \/ provider = "vertex" /\ Vertex!Init

Next ==
    /\ \/ provider = "openai" /\ OpenAI!Next
       \/ provider = "anthropic" /\ Anthropic!Next
       \/ provider = "vertex" /\ Vertex!Next
    /\ UNCHANGED provider

Spec == Init /\ [][Next]_vars

-----------------------------------------------------------------------------
(* Properties *)

Stored(b) == \E i \in DOMAIN rows : rows[i].block = b

\* What each provider may show and never end: a tool that Anthropic leaves without a
\* result, and Vertex' tool block when the last chunk has no tool fields.
MayStayOpen ==
    CASE provider = "anthropic" -> Anthropic!Unanswered
      [] provider = "vertex" -> {Vertex!ToolBlock}
      [] OTHER -> {}

\* A stored block holds everything the client was shown of it, and nothing else, and a
\* finished turn has a row for every block the client saw begin: the rows are merged in
\* memory from events that were streamed one at a time (blocks.py:35-102,
\* docs/API.md:180, the mappers).
RowsAreWhatWasShown ==
    /\ \A i \in DOMAIN rows : rows[i].parts = shown[rows[i].block]
    /\ message.status = "done" =>
          \A b \in DOMAIN shown : shown[b] > 0 => Stored(b) \/ b \in MayStayOpen

\* No provider's stream ends a block twice, or lets two blocks share an id: the second
\* row would break the unique index and the whole turn with it (provider_execution.py:181).
NothingBreaks == message.code # "chat_failed"

\* is_strong_final_answer_event takes the end of any message item of OpenAI's for the
\* final answer, a commentary item's too.
AnnouncedFirst == provider = "openai" /\ stream.past \cap Preamble # {}

\* A finished turn has an answer, all that the provider said in it, under the finish
\* reason the provider gave last; and a failed turn stays in the context of later turns
\* only with a whole answer, or after an OpenAI commentary (finalize_*_stream,
\* provider_execution.py:197-216, 359-388).
OutcomeIsWhatWasSaid ==
    /\ message.status = "done" =>
          /\ message.text > 0 /\ message.text = sent.text
          /\ message.finish # "none" /\ message.finish = sent.finish
    /\ message.status = "error" /\ message.kept =>
          \/ sent.answered /\ message.text = sent.text
          \/ AnnouncedFirst
=============================================================================
