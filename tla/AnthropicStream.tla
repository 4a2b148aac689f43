---------------------------- MODULE AnthropicStream ----------------------------
(***************************************************************************)
(* A turn on Anthropic: TurnStream under the mapper of                     *)
(* providers/anthropic/mapper.py, fed by a Messages stream.  The stream is *)
(* external: content blocks come one after the other, by index; a tool's   *)
(* result is a block of its own that names the use it answers.             *)
(***************************************************************************)
EXTENDS TurnStream

CONSTANTS
    MaxIndex,   \* bound on the index of a content block
    Use         \* tool_use_ids

\* A Block is <<"thinking", an Index>> or <<"tool", a Use>>.
Index == 0 .. MaxIndex

VARIABLES
    mapper,     \* AnthropicStreamState
    stream      \* how far the provider is

vars == <<turnVars, mapper, stream>>

ContentType == {"thinking", "text", "server_tool_use", "tool_result"}
ContentBlock == [type : ContentType, use : Use \cup {NoBlock}, started : BOOLEAN]

\* blocks: the content blocks that are open, by index.
Mapper ==
    [blocks : UNION {[s -> ContentBlock] : s \in {{}} \cup {{i} : i \in Index}},
     saw_visible : BOOLEAN, saw_terminal : BOOLEAN]

Stream ==
    [stage : {"new", "between", "block", "over"}, index : 0 .. MaxIndex + 1,
     type : ContentType, use : Use \cup {NoBlock}, said : 0 .. MaxParts,
     used : SUBSET Use, answered : SUBSET Use]

TypeOK == TurnTypeOK /\ mapper \in Mapper /\ stream \in Stream

Init ==
    /\ TurnInit
    /\ mapper = [blocks |-> <<>>, saw_visible |-> FALSE, saw_terminal |-> FALSE]
    /\ stream = [stage |-> "new", index |-> 0, type |-> "text", use |-> NoBlock, said |-> 0,
                 used |-> {}, answered |-> {}]

-----------------------------------------------------------------------------
(* The mapper *)

\* An event: its type, its block's index, the block's own fields, its text, its reason.
About(type, index) ==
    [type |-> type, index |-> index, content |-> "text", use |-> NoBlock, parts |-> 0,
     finish |-> "none", usage |-> FALSE]

IsTool(type) == type \in {"server_tool_use", "tool_result"}

\* A tool's block ends with its result, not with its use.
EndsOnStop(b) == b.type = "tool_result"

StopsThinking(b) == b.type = "thinking" /\ b.started

\* _anthropic_tool_block_id: a use and its result share their id.
ToolId(i, b) == <<"tool", b.use>>

StartOf(e) == [type |-> e.content, use |-> e.use, started |-> FALSE]

MappedStart(e) ==
    IF IsTool(e.content) THEN <<BlockEvent(ToolId(e.index, StartOf(e)), 1, FALSE)>>
    ELSE IF e.content = "text" /\ e.parts = 1 THEN <<Answer>>
    ELSE IF e.content = "thinking" THEN <<Status>> ELSE <<>>

MappedDelta(e, b) ==
    IF IsTool(b.type) THEN <<BlockEvent(ToolId(e.index, b), 1, FALSE)>>
    ELSE IF e.parts = 0 THEN <<>>
    ELSE IF b.type = "thinking" THEN <<BlockEvent(<<"thinking", e.index>>, 1, FALSE)>>
    ELSE <<Answer>>

MappedStop(e, b) ==
    IF IsTool(b.type) THEN <<BlockEvent(ToolId(e.index, b), 1, EndsOnStop(b))>>
    ELSE IF StopsThinking(b) THEN <<BlockEvent(<<"thinking", e.index>>, 0, TRUE)>> ELSE <<>>

Mapped(e) ==
    CASE e.type = "content_block_start" -> MappedStart(e)
      [] e.type = "content_block_delta" -> MappedDelta(e, mapper.blocks[e.index])
      [] e.type = "content_block_stop" -> MappedStop(e, mapper.blocks[e.index])
      [] e.type = "message_delta" /\ (e.finish # "none" \/ e.usage) -> <<Completion(e.finish)>>
      [] OTHER -> <<Status>>

Without(blocks, i) == [j \in DOMAIN blocks \ {i} |-> blocks[j]]

Learnt(e) ==
    CASE e.type = "content_block_start" ->
             [mapper EXCEPT
                !.blocks = [i \in DOMAIN mapper.blocks \cup {e.index} |->
                               IF i = e.index THEN StartOf(e) ELSE mapper.blocks[i]],
                !.saw_visible = @ \/ (e.content = "text" /\ e.parts = 1)]
      [] e.type = "content_block_delta" ->
             [mapper EXCEPT
                !.blocks[e.index].started = @ \/ (mapper.blocks[e.index].type = "thinking" /\ e.parts = 1),
                !.saw_visible = @ \/ (mapper.blocks[e.index].type = "text" /\ e.parts = 1)]
      [] e.type = "content_block_stop" -> [mapper EXCEPT !.blocks = Without(@, e.index)]
      [] e.type = "message_delta" -> [mapper EXCEPT !.saw_terminal = @ \/ e.finish # "none"]
      [] OTHER -> mapper

\* finalize_anthropic_stream.
Valid == mapper.saw_terminal /\ mapper.saw_visible

Receives(e) ==
    /\ Takes(Mapped(e))
    /\ mapper' = IF lease = "held" THEN Learnt(e) ELSE mapper

-----------------------------------------------------------------------------
(* The provider *)

Said(n) == sent' = [sent EXCEPT !.text = @ + n]

MessageStart ==
    /\ Waiting /\ stream.stage = "new"
    /\ stream' = [stream EXCEPT !.stage = "between"]
    /\ Receives(About("message_start", 0))
    /\ UNCHANGED sent

\* A result answers a use whose block is closed; other blocks may come in between.
BlockStart(type, use, n) ==
    /\ Waiting /\ stream.stage = "between" /\ stream.index \in Index
    /\ IF IsTool(type)
         THEN /\ use \in (IF type = "tool_result" THEN stream.used \ stream.answered
                                                  ELSE Use \ stream.used)
              /\ n = 0
         ELSE use = NoBlock /\ (n = 1 => type = "text" /\ sent.text < MaxParts)
    /\ stream' = [stream EXCEPT !.stage = "block", !.type = type, !.use = use, !.said = 0]
    /\ Said(n)
    /\ Receives([About("content_block_start", stream.index) EXCEPT
                    !.content = type, !.use = use, !.parts = n])

\* n = 0: a signature, or a citation.
BlockDelta(n) ==
    /\ Waiting /\ stream.stage = "block"
    /\ stream.said < (IF IsTool(stream.type) THEN 1 ELSE MaxParts)
    /\ stream.type = "text" /\ n = 1 => sent.text < MaxParts
    /\ stream' = [stream EXCEPT !.said = @ + 1]
    /\ Said(IF stream.type = "text" THEN n ELSE 0)
    /\ Receives([About("content_block_delta", stream.index) EXCEPT !.parts = n])

BlockStop ==
    /\ Waiting /\ stream.stage = "block"
    /\ stream' = [stream EXCEPT
           !.stage = "between", !.index = @ + 1,
           !.used = @ \cup (IF stream.type = "server_tool_use" THEN {stream.use} ELSE {}),
           !.answered = @ \cup (IF stream.type = "tool_result" THEN {stream.use} ELSE {})]
    /\ Receives(About("content_block_stop", stream.index))
    /\ UNCHANGED sent

\* A whole answer leaves no use without its result; a pause or a cut may.
MessageDelta(finish, usage) ==
    /\ Waiting /\ stream.stage = "between"
    /\ finish = "complete" => stream.used = stream.answered
    /\ stream' = [stream EXCEPT !.stage = IF finish = "none" THEN @ ELSE "over"]
    /\ sent' = [sent EXCEPT !.finish = finish, !.answered = finish = "complete"]
    /\ Receives([About("message_delta", stream.index) EXCEPT !.finish = finish, !.usage = usage])

\* ping and message_stop.
Ping ==
    /\ Waiting /\ stream.stage \in {"block", "over"}
    /\ Receives(About("ping", 0))
    /\ UNCHANGED <<sent, stream>>

Ends == StreamEnds(Valid)

Provider ==
    \/ MessageStart
    \/ \E type \in ContentType, use \in Use \cup {NoBlock}, n \in {0, 1} : BlockStart(type, use, n)
    \/ \E n \in {0, 1} : BlockDelta(n)
    \/ BlockStop
    \/ \E finish \in Finish, usage \in BOOLEAN : MessageDelta(finish, usage)
    \/ Ping

Next == Provider \/ ((TurnStep \/ Ends) /\ UNCHANGED <<mapper, stream>>)

Spec == Init /\ [][Next]_vars

\* The tools that are left without a result: the use alone never ends a block.
Unanswered == {"tool"} \X (stream.used \ stream.answered)
=============================================================================
