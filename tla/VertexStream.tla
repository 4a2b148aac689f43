----------------------------- MODULE VertexStream -----------------------------
(***************************************************************************)
(* A turn on Vertex AI: TurnStream under the mapper of                     *)
(* providers/vertex/mapper.py, fed by a generateContent stream.  The       *)
(* stream is external: chunks of one candidate, the last of which gives    *)
(* the reason it finished; any of them may carry tool fields or usage.     *)
(***************************************************************************)
EXTENDS TurnStream, SequencesExt

CONSTANTS
    MaxChunks,      \* bound on the chunks of a response
    MaxChunkParts   \* bound on the parts of a chunk

\* A Block is <<"thought", an Ordinal, a part of the chunk>>, or the one of all tools.
Ordinal == 0 .. MaxChunks - 1
ToolBlock == <<"tool", 0, 0>>

VARIABLES
    mapper,     \* VertexStreamState
    stream      \* chunks so far, and whether there may be more

vars == <<turnVars, mapper, stream>>

Mapper == [chunk_ordinal : 0 .. MaxChunks, saw_visible : BOOLEAN, saw_terminal : BOOLEAN]
Stream == [chunks : 0 .. MaxChunks, over : BOOLEAN]

TypeOK == TurnTypeOK /\ mapper \in Mapper /\ stream \in Stream

Init ==
    /\ TurnInit
    /\ mapper = [chunk_ordinal |-> 0, saw_visible |-> FALSE, saw_terminal |-> FALSE]
    /\ stream = [chunks |-> 0, over |-> FALSE]

-----------------------------------------------------------------------------
(* The mapper *)

Part == {"thought", "text", "empty"}
Chunk ==
    [parts : UNION {[1 .. n -> Part] : n \in 0 .. MaxChunkParts}, tool : BOOLEAN,
     finish : Finish, usage : BOOLEAN]

ThoughtId(n) == <<"thought", mapper.chunk_ordinal, n>>

\* A thought starts and ends with its part.
Thought(n) == <<BlockEvent(ThoughtId(n), 1, FALSE), BlockEvent(ThoughtId(n), 0, TRUE)>>

MappedPart(c, n) ==
    CASE c.parts[n] = "thought" -> Thought(n)
      [] c.parts[n] = "text" -> <<Answer>>
      [] OTHER -> <<>>

\* _vertex_tool_operation: one block for all chunks, which only a finishing chunk ends.
EndsTool(c) == c.finish # "none"

MappedTool(c) == IF c.tool THEN <<BlockEvent(ToolBlock, 1, EndsTool(c))>> ELSE <<>>

CompletesWith(c) == c.finish # "none" \/ c.usage

Mapped(c) ==
    FlattenSeq([n \in DOMAIN c.parts |-> MappedPart(c, n)])
    \o MappedTool(c) \o <<Status>>
    \o (IF CompletesWith(c) THEN <<Completion(c.finish)>> ELSE <<>>)

\* Slip: thoughts count as visible text.
SeesAnyText(c) == \E n \in DOMAIN c.parts : c.parts[n] # "empty"

SeesText(c) == \E n \in DOMAIN c.parts : c.parts[n] = "text"

Learnt(c) ==
    [chunk_ordinal |-> mapper.chunk_ordinal + 1,
     saw_visible |-> mapper.saw_visible \/ SeesText(c),
     saw_terminal |-> mapper.saw_terminal \/ c.finish # "none"]

\* finalize_vertex_stream.
Valid == mapper.saw_terminal /\ mapper.saw_visible

-----------------------------------------------------------------------------
(* The provider *)

TextOf(c) == Cardinality({n \in DOMAIN c.parts : c.parts[n] = "text"})

Generates(c) ==
    /\ Waiting /\ ~stream.over /\ stream.chunks < MaxChunks
    /\ sent.text + TextOf(c) <= MaxParts
    /\ stream' = [chunks |-> stream.chunks + 1, over |-> c.finish # "none"]
    /\ sent' = [text |-> sent.text + TextOf(c), answered |-> c.finish = "complete",
                finish |-> c.finish]
    /\ Takes(Mapped(c))
    /\ mapper' = IF lease = "held" THEN Learnt(c) ELSE mapper

Ends == StreamEnds(Valid)

Next ==
    \/ \E c \in Chunk : Generates(c)
    \/ (TurnStep \/ Ends) /\ UNCHANGED <<mapper, stream>>

Spec == Init /\ [][Next]_vars
=============================================================================
