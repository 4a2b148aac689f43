----------------------------- MODULE OpenAIStream -----------------------------
(***************************************************************************)
(* A turn on OpenAI: TurnStream under the mapper of                        *)
(* providers/openai/mapper.py, fed by a Responses stream.  The stream is   *)
(* external: output items come one after the other, a reasoning item's     *)
(* summary in parts, and it may break, stop or fall silent anywhere.       *)
(***************************************************************************)
EXTENDS TurnStream

CONSTANTS
    Reasoning, Tool, Preamble, FinalAnswer,     \* output items by what they are
    Summary                                     \* indexes of a reasoning item's parts

Item == Reasoning \cup Tool \cup Preamble \cup FinalAnswer
\* Block is the set of these, and of <<a Tool, "tool">>.
Thought == Reasoning \X Summary

VARIABLES
    mapper,     \* OpenAIStreamState
    stream      \* how far the provider is

vars == <<turnVars, mapper, stream>>

\* thinking: the keys of thinking_blocks, "started" or not; final: the items whose
\* message_phases entry is final_answer.
Mapper ==
    [thinking : [Thought -> {"absent", "known", "started"}], tools : SUBSET Tool,
     final : SUBSET FinalAnswer, saw_visible : BOOLEAN, saw_terminal : BOOLEAN]

\* item, part: what is open now; said: fragments of it; part_at: how far the part is.
Stream ==
    [stage : {"new", "open", "cut", "over"}, past : SUBSET Item, item : Item \cup {NoBlock},
     parts : SUBSET Thought, part : Thought \cup {NoBlock},
     part_at : {"added", "text_done"}, said : 0 .. MaxParts]

TypeOK == TurnTypeOK /\ mapper \in Mapper /\ stream \in Stream

Init ==
    /\ TurnInit
    /\ mapper = [thinking |-> [k \in Thought |-> "absent"], tools |-> {}, final |-> {},
                 saw_visible |-> FALSE, saw_terminal |-> FALSE]
    /\ stream = [stage |-> "new", past |-> {}, item |-> NoBlock, parts |-> {},
                 part |-> NoBlock, part_at |-> "added", said |-> 0]

-----------------------------------------------------------------------------
(* The mapper: what an event becomes, and what is learnt from it *)

\* An event of the stream: its type, and the item or reasoning part it is about.
About(type, what) == [type |-> type, what |-> what, finish |-> "none"]

ThinkingId(k) == k
ToolId(i) == <<i, "tool">>

\* Slip: only the end of the part counts, but either end takes the entry away.
EndsWithPart(e) ==
    e.type = "reasoning_summary_part.done" /\ mapper.thinking[e.what] = "started"

\* _map_reasoning_done finds the entry; a part that was never started has none to end.
EndsThought(e) == mapper.thinking[e.what] = "started"

Mapped(e) ==
    CASE e.type = "reasoning_summary_text.delta" -> <<BlockEvent(ThinkingId(e.what), 1, FALSE)>>
      [] e.type \in {"reasoning_summary_text.done", "reasoning_summary_part.done"} ->
             IF EndsThought(e) THEN <<BlockEvent(ThinkingId(e.what), 0, TRUE)>> ELSE <<>>
      [] e.type = "output_item.added" /\ e.what \in Tool ->
             <<BlockEvent(ToolId(e.what), 1, FALSE)>>
      [] e.type = "output_item.done" /\ e.what \in Tool ->
             <<BlockEvent(ToolId(e.what), 1, TRUE)>>
      [] e.type = "output_item.done" /\ e.what \in Preamble \cup FinalAnswer ->
             <<[Status EXCEPT !.kind = "metadata", !.finish = e.finish]>>
      [] e.type = "tool progress" ->
             IF e.what \in mapper.tools THEN <<BlockEvent(ToolId(e.what), 1, FALSE)>> ELSE <<>>
      [] e.type = "output_text.delta" -> IF e.what \in mapper.final THEN <<Answer>> ELSE <<>>
      [] e.type = "completion" -> <<Completion(e.finish)>>
      [] e.type = "created" -> <<Status>>
      [] OTHER -> <<>>

\* Slip: the entry stays after the block has ended.
DoneKeepsEntry(e) == "started"

\* thinking_blocks.pop.
AfterDone(e) == "absent"

Learnt(e) ==
    CASE e.type = "reasoning_summary_part.added" ->
             [mapper EXCEPT !.thinking[e.what] = IF @ = "absent" THEN "known" ELSE @]
      [] e.type = "reasoning_summary_text.delta" ->
             [mapper EXCEPT !.thinking[e.what] = "started"]
      [] e.type \in {"reasoning_summary_text.done", "reasoning_summary_part.done"} ->
             [mapper EXCEPT !.thinking[e.what] = AfterDone(e)]
      [] e.type \in {"output_item.added", "output_item.done"} ->
             [mapper EXCEPT !.tools = @ \cup ({e.what} \cap Tool),
                            !.final = @ \cup ({e.what} \cap FinalAnswer)]
      [] e.type = "output_text.delta" /\ e.what \in mapper.final ->
             [mapper EXCEPT !.saw_visible = TRUE]
      [] e.type = "completion" -> [mapper EXCEPT !.saw_terminal = TRUE]
      [] OTHER -> mapper

\* finalize_openai_stream.
Valid == mapper.saw_terminal /\ mapper.saw_visible

Receives(e) ==
    /\ Takes(Mapped(e))
    /\ mapper' = IF lease = "held" THEN Learnt(e) ELSE mapper

-----------------------------------------------------------------------------
(* The provider *)

Open == Waiting /\ stream.stage = "open"
Between == Open /\ stream.item = NoBlock

Created ==
    /\ Waiting /\ stream.stage = "new"
    /\ stream' = [stream EXCEPT !.stage = "open"]
    /\ Receives(About("created", NoBlock))
    /\ UNCHANGED sent

ItemAdded(i) ==
    /\ Between /\ i \notin stream.past
    /\ stream' = [stream EXCEPT !.item = i, !.said = 0]
    /\ Receives(About("output_item.added", i))
    /\ UNCHANGED sent

PartAdded(k) ==
    /\ Open /\ k[1] = stream.item /\ stream.part = NoBlock /\ k \notin stream.parts
    /\ stream' = [stream EXCEPT !.part = k, !.part_at = "added", !.said = 0]
    /\ Receives(About("reasoning_summary_part.added", k))
    /\ UNCHANGED sent

SummaryDelta ==
    /\ Open /\ stream.part # NoBlock /\ stream.part_at = "added" /\ stream.said < MaxParts
    /\ stream' = [stream EXCEPT !.said = @ + 1]
    /\ Receives(About("reasoning_summary_text.delta", stream.part))
    /\ UNCHANGED sent

SummaryTextDone ==
    /\ Open /\ stream.part # NoBlock /\ stream.part_at = "added"
    /\ stream' = [stream EXCEPT !.part_at = "text_done"]
    /\ Receives(About("reasoning_summary_text.done", stream.part))
    /\ UNCHANGED sent

PartDone ==
    /\ Open /\ stream.part # NoBlock /\ stream.part_at = "text_done"
    /\ stream' = [stream EXCEPT !.part = NoBlock, !.parts = @ \cup {stream.part}]
    /\ Receives(About("reasoning_summary_part.done", stream.part))
    /\ UNCHANGED sent

ToolProgress ==
    /\ Open /\ stream.item \in Tool /\ stream.said < MaxParts
    /\ stream' = [stream EXCEPT !.said = @ + 1]
    /\ Receives(About("tool progress", stream.item))
    /\ UNCHANGED sent

TextDelta ==
    /\ Open /\ stream.item \in Preamble \cup FinalAnswer /\ stream.said < MaxParts
    /\ stream' = [stream EXCEPT !.said = @ + 1]
    /\ sent' = [sent EXCEPT !.text = IF stream.item \in FinalAnswer THEN @ + 1 ELSE @]
    /\ Receives(About("output_text.delta", stream.item))

\* A cut message item is the last of its response.
ItemDone(finish) ==
    /\ Open /\ stream.item # NoBlock /\ stream.part = NoBlock
    /\ finish = "cut" => stream.item \in Preamble \cup FinalAnswer
    /\ stream' = [stream EXCEPT !.item = NoBlock, !.past = @ \cup {stream.item},
                                !.stage = IF finish = "cut" THEN "cut" ELSE @]
    /\ sent' = [sent EXCEPT !.answered = @ \/ (finish = "complete" /\ stream.item \in FinalAnswer)]
    /\ Receives([About("output_item.done", stream.item) EXCEPT !.finish = finish])

\* response.completed or response.incomplete.
Completes(finish) ==
    /\ Between \/ (Waiting /\ stream.stage = "cut" /\ finish = "cut")
    /\ stream' = [stream EXCEPT !.stage = "over"]
    /\ sent' = [sent EXCEPT !.finish = finish]
    /\ Receives([About("completion", NoBlock) EXCEPT !.finish = finish])

Ends == StreamEnds(Valid)

Provider ==
    \/ Created
    \/ \E i \in Item : ItemAdded(i)
    \/ \E k \in Thought : PartAdded(k)
    \/ SummaryDelta \/ SummaryTextDone \/ PartDone
    \/ ToolProgress \/ TextDelta
    \/ \E finish \in {"complete", "cut"} : ItemDone(finish) \/ Completes(finish)

Next == Provider \/ ((TurnStep \/ Ends) /\ UNCHANGED <<mapper, stream>>)

Spec == Init /\ [][Next]_vars
=============================================================================
