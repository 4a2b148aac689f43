--------------------------- MODULE MCProviderStreams ---------------------------
(* Instances of ProviderStreams for TLC. *)
EXTENDS ProviderStreams

AllBlocks == OpenAIBlock \cup AnthropicBlock \cup VertexBlock
=============================================================================
