------------------------ MODULE ProviderStreams_proofs ------------------------
(***************************************************************************)
(* The properties of ProviderStreams, for any blocks, items, indexes,      *)
(* chunks and lengths.  The first part is about the loop of TurnStream,    *)
(* which all providers share: while the turn runs, what is still to be     *)
(* handled continues what has been shown, merged and stored.  Then follow  *)
(* the three providers with their mappers: which chunks may come, and that *)
(* what the mapper makes of one fits what the loop has.                    *)
(***************************************************************************)
EXTENDS ProviderStreams, FiniteSetTheorems, SequenceTheorems, WellFoundedInduction, TLAPS

\* The blocks of the turn's provider.
Blocks ==
    CASE provider = "openai" -> OpenAIBlock
      [] provider = "anthropic" -> AnthropicBlock
      [] provider = "vertex" -> VertexBlock

Events ==
    [kind : {"block", "answer", "completion", "metadata", "status"},
     block : Blocks \cup {NoBlock}, parts : {0, 1}, ends : BOOLEAN, finish : Finish]

Messages ==
    [status : {"streaming", "done", "error"}, text : Nat, finish : Finish, kept : BOOLEAN,
     code : {"none", "success", "chat_failed", "provider", "timeout", "recovered"}]

Shape ==
    /\ provider \in {"openai", "anthropic", "vertex"}
    /\ pending \in Seq(Events)
    /\ text \in Nat
    /\ shown \in [Blocks -> Nat] /\ accumulated \in [Blocks -> Nat]
    /\ rows \in Seq([block : Blocks, parts : Nat])
    /\ completion \in Finish /\ final_answer_completed \in BOOLEAN
    /\ lease \in {"held", "expired", "lost"}
    /\ message \in Messages
    /\ client \in {"streaming", "done", "error"}
    /\ sent \in [text : Nat, answered : BOOLEAN, finish : Finish]

-----------------------------------------------------------------------------
(* Events *)

IsOf(e, b) == e.kind = "block" /\ e.block = b

\* Some event of s is about block b, or ends it.
Tells(s, b) == \E i \in DOMAIN s : IsOf(s[i], b)
Closes(s, b) == \E i \in DOMAIN s : IsOf(s[i], b) /\ s[i].ends

AnswersOf(s) == {i \in DOMAIN s : s[i].kind = "answer"}
Answers(s) == Cardinality(AnswersOf(s))

\* Nothing follows the end of a block, and no text the completion of an answer.
Orderly(s) ==
    /\ \A i \in DOMAIN s : s[i].kind = "block" => s[i].block \in Blocks
    /\ \A i, j \in DOMAIN s : i < j =>
          /\ s[i].kind = "block" /\ s[i].ends => ~IsOf(s[j], s[i].block)
          /\ Strong(s[i]) => s[j].kind # "answer"

\* What the completions of s say is what the provider has said.
Concludes(s, finish) == \A i \in DOMAIN s : s[i].kind = "completion" => s[i].finish = finish
Completed(s) == \E i \in DOMAIN s : s[i].kind = "completion"

Claims(s) == final_answer_completed \/ \E i \in DOMAIN s : Strong(s[i])

-----------------------------------------------------------------------------
(* What the loop knows, and what it expects of the provider *)

\* The blocks that a later chunk may still end.
Unended ==
    CASE provider = "openai" ->
             {k \in OpenAI!Thought : mapper.thinking[k] = "started"}
             \cup {<<i, "tool">> : i \in {i \in Tool : i = stream.item}}
      [] provider = "anthropic" ->
             {<<"thinking", i>> : i \in {i \in 0 .. MaxIndex :
                  /\ stream.stage = "block" /\ i = stream.index
                  /\ mapper.blocks[i].type = "thinking" /\ mapper.blocks[i].started}}
             \cup {<<"tool", u>> : u \in stream.used \ stream.answered}
             \cup {<<"tool", u>> : u \in {u \in Use :
                  stream.stage = "block" /\ Anthropic!IsTool(stream.type) /\ u = stream.use}}
      [] provider = "vertex" -> {Vertex!ToolBlock}

\* The provider has no text of the answer left.
SaidAll ==
    CASE provider = "openai" -> FinalAnswer \subseteq stream.past \/ stream.stage = "over"
      [] provider = "anthropic" -> stream.stage = "over"
      [] provider = "vertex" -> stream.over

Answered == (SaidAll /\ (sent.answered \/ sent.text = 0)) \/ AnnouncedFirst

\* What pending may hold, and what is known of the text, the blocks and the outcome.
Follows(s) ==
    /\ Orderly(s)
    /\ \A i \in DOMAIN s : s[i].kind = "block" => ~Stored(s[i].block)
    /\ \A b \in Blocks : shown[b] > 0 \/ Tells(s, b) =>
          Stored(b) \/ Closes(s, b) \/ b \in Unended
    /\ sent.text = text + Answers(s)
    /\ Concludes(s, sent.finish)
    /\ Completed(s) \/ completion = sent.finish
    /\ Claims(s) => Answered
    /\ final_answer_completed => AnswersOf(s) = {} \/ AnnouncedFirst

AtWork ==
    /\ \A b \in Blocks : ~Stored(b) => accumulated[b] = shown[b]
    /\ Follows(pending)
    /\ mapper.saw_visible => sent.text > 0
    /\ mapper.saw_terminal => sent.finish # "none" /\ Unended \subseteq MayStayOpen
    /\ message.status # "done" /\ ~(message.status = "error" /\ message.kept)

TurnInv ==
    /\ Shape
    /\ Running => AtWork
    /\ ~Running => pending = <<>>
    /\ RowsAreWhatWasShown /\ NothingBreaks /\ OutcomeIsWhatWasSaid

-----------------------------------------------------------------------------
(* The providers *)

\* The end of block b is stored or under way.
Closed(b) == Stored(b) \/ Closes(pending, b)

OpenAIAt ==
    /\ stream.item # NoBlock => stream.stage = "open" /\ stream.item \notin stream.past
    /\ stream.part # NoBlock => stream.part[1] = stream.item /\ stream.part \notin stream.parts
    /\ \A k \in OpenAI!Thought :
          /\ mapper.thinking[k] # "absent" => stream.part = k
          /\ mapper.thinking[k] = "started" => stream.part_at = "added"
          /\ Closed(k) => \/ k \in stream.parts
                          \/ stream.part = k /\ stream.part_at = "text_done"
    /\ \A i \in Tool : Closed(<<i, "tool">>) => i \in stream.past
    /\ stream.item \in FinalAnswer => stream.item \in mapper.final
    /\ mapper.saw_terminal => stream.stage = "over"
    /\ sent.answered => FinalAnswer \subseteq stream.past
    /\ sent.text > 0 /\ stream.stage \in {"new", "open"} =>
          sent.answered \/ stream.item \in FinalAnswer

OpenAIInv ==
    /\ mapper \in OpenAI!Mapper /\ stream \in OpenAI!Stream
    /\ Running => OpenAIAt

AnthropicAt ==
    /\ stream.answered \subseteq stream.used
    /\ stream.stage = "block" =>
          /\ stream.index \in Anthropic!Index \cap DOMAIN mapper.blocks
          /\ mapper.blocks[stream.index].type = stream.type
          /\ mapper.blocks[stream.index].use = stream.use
          /\ stream.type = "server_tool_use" => stream.use \in Use \ stream.used
          /\ stream.type = "tool_result" => stream.use \in stream.used \ stream.answered
    /\ \A i \in Anthropic!Index : Closed(<<"thinking", i>>) => i < stream.index
    /\ \A u \in Use : Closed(<<"tool", u>>) => u \in stream.answered
    /\ stream.stage # "over" => sent.finish = "none" /\ ~sent.answered
    /\ mapper.saw_terminal => stream.stage = "over"

IsAnthropicMapper(m) ==
    /\ m \in [blocks : {m.blocks}, saw_visible : BOOLEAN, saw_terminal : BOOLEAN]
    /\ m.blocks \in [DOMAIN m.blocks -> Anthropic!ContentBlock]

AnthropicInv ==
    /\ IsAnthropicMapper(mapper)
    /\ stream \in Anthropic!Stream
    /\ Running => AnthropicAt

VertexAt ==
    /\ mapper.chunk_ordinal = stream.chunks
    /\ \A o \in Vertex!Ordinal, n \in 1 .. MaxChunkParts :
          Closed(<<"thought", o, n>>) => o < stream.chunks
    /\ Closed(Vertex!ToolBlock) => stream.over
    /\ ~stream.over => sent.finish = "none" /\ ~sent.answered
    /\ mapper.saw_terminal => stream.over

VertexInv ==
    /\ mapper \in Vertex!Mapper /\ stream \in Vertex!Stream
    /\ Running => VertexAt

StreamsInv ==
    /\ TurnInv
    /\ provider = "openai" => OpenAIInv
    /\ provider = "anthropic" => AnthropicInv
    /\ provider = "vertex" => VertexInv

-----------------------------------------------------------------------------
(* Sequences of events *)

\* What is left after the first.
LEMMA TailIs ==
    ASSUME NEW S, NEW s \in Seq(S), s # <<>>
    PROVE  /\ Tail(s) \in Seq(S) /\ Head(s) = s[1] /\ s[1] \in S /\ 1 \in DOMAIN s
           /\ \A i \in DOMAIN Tail(s) :
                 /\ i \in Nat /\ i + 1 \in DOMAIN s /\ Tail(s)[i] = s[i + 1] /\ 1 < i + 1
           /\ \A i \in DOMAIN s : i \in Nat /\ (i # 1 => i - 1 \in DOMAIN Tail(s) /\ Tail(s)[i - 1] = s[i])
<1>1. Len(s) \in Nat /\ DOMAIN s = 1 .. Len(s) /\ Len(s) # 0
  OBVIOUS
<1>2. Tail(s) \in Seq(S) /\ Len(Tail(s)) = Len(s) - 1
  OBVIOUS
<1>3. DOMAIN Tail(s) = 1 .. Len(s) - 1
  BY <1>2
<1>4. \A i \in 1 .. Len(s) - 1 : Tail(s)[i] = s[i + 1]
  BY <1>1
<1> QED BY <1>1, <1>2, <1>3, <1>4

\* There are as many answers as that.
LEMMA AnswersAreFinite ==
    ASSUME NEW S, NEW s \in Seq(S)
    PROVE  IsFiniteSet(AnswersOf(s)) /\ Answers(s) \in Nat
<1>1. IsFiniteSet(1 .. Len(s)) /\ AnswersOf(s) \in SUBSET (1 .. Len(s))
  BY FS_Interval DEF AnswersOf
<1>2. IsFiniteSet(AnswersOf(s))
  BY <1>1, FS_Subset
<1> QED BY <1>2, FS_CardinalityType DEF Answers

LEMMA AnswersOfTail ==
    ASSUME NEW S, NEW s \in Seq(S), s # <<>>
    PROVE  Answers(s) = Answers(Tail(s)) + (IF Head(s).kind = "answer" THEN 1 ELSE 0)
<1> DEFINE f == [i \in AnswersOf(Tail(s)) |-> i + 1]
           Later == AnswersOf(s) \ {1}
<1>1. f \in Bijection(AnswersOf(Tail(s)), Later)
  <2>1. \A i \in AnswersOf(Tail(s)) : i \in Nat /\ i + 1 \in Later
    BY TailIs DEF AnswersOf
  <2>2. \A j \in Later : j - 1 \in AnswersOf(Tail(s)) /\ j \in Nat
    BY TailIs DEF AnswersOf
  <2>3. f \in Injection(AnswersOf(Tail(s)), Later)
    BY <2>1 DEF Injection, IsInjective
  <2>4. f \in Surjection(AnswersOf(Tail(s)), Later)
    <3>1. \A j \in Later : \E i \in AnswersOf(Tail(s)) : f[i] = j
      <4> SUFFICES ASSUME NEW j \in Later PROVE \E i \in AnswersOf(Tail(s)) : f[i] = j
        OBVIOUS
      <4>1. f[j - 1] = j
        BY <2>2
      <4> QED BY <4>1, <2>2
    <3> QED BY <2>1, <3>1 DEF Surjection
  <2> QED BY <2>3, <2>4 DEF Bijection
<1>2. Cardinality(Later) = Answers(Tail(s))
  <2>1. IsFiniteSet(AnswersOf(Tail(s)))
    BY TailIs, AnswersAreFinite
  <2>2. ExistsBijection(AnswersOf(Tail(s)), Later)
    BY <1>1 DEF ExistsBijection
  <2> QED BY <2>1, <2>2, FS_Bijection DEF Answers
<1>3. Cardinality(Later) = IF 1 \in AnswersOf(s) THEN Answers(s) - 1 ELSE Answers(s)
  BY AnswersAreFinite, FS_RemoveElement DEF Answers
<1>4. 1 \in AnswersOf(s) <=> Head(s).kind = "answer"
  BY TailIs DEF AnswersOf
<1> QED BY <1>2, <1>3, <1>4, AnswersAreFinite

\* No event, and one.
LEMMA NoEvent ==
    /\ <<>> \in Seq(Events) /\ AnswersOf(<<>>) = {} /\ Answers(<<>>) = 0
    /\ Orderly(<<>>) /\ ~Completed(<<>>)
    /\ \A b : ~Tells(<<>>, b) /\ ~Closes(<<>>, b)
    /\ \A finish : Concludes(<<>>, finish)
    /\ Claims(<<>>) => final_answer_completed
<1>1. AnswersOf(<<>>) = {}
  BY DEF AnswersOf
<1> QED BY <1>1, FS_EmptySet DEF Answers, Orderly, Completed, Tells, Closes, Concludes, Claims

LEMMA OneEvent ==
    ASSUME NEW e \in Events, e.kind = "block" => e.block \in Blocks
    PROVE  /\ <<e>> \in Seq(Events)
           /\ Answers(<<e>>) = IF e.kind = "answer" THEN 1 ELSE 0
           /\ e.kind # "answer" => AnswersOf(<<e>>) = {}
           /\ Orderly(<<e>>)
           /\ \A b : (Tells(<<e>>, b) <=> IsOf(e, b)) /\ (Closes(<<e>>, b) <=> IsOf(e, b) /\ e.ends)
           /\ \A finish : Concludes(<<e>>, finish) <=> (e.kind = "completion" => e.finish = finish)
           /\ Completed(<<e>>) <=> e.kind = "completion"
           /\ Claims(<<e>>) <=> final_answer_completed \/ Strong(e)
<1>1. <<e>> \in Seq(Events) /\ DOMAIN <<e>> = {1} /\ <<e>>[1] = e
  OBVIOUS
<1>2. AnswersOf(<<e>>) = IF e.kind = "answer" THEN {1} ELSE {}
  BY <1>1 DEF AnswersOf
<1>3. Answers(<<e>>) = IF e.kind = "answer" THEN 1 ELSE 0
  BY <1>2, FS_EmptySet, FS_Singleton DEF Answers
<1>4. Orderly(<<e>>)
  BY <1>1 DEF Orderly
<1> QED BY <1>1, <1>2, <1>3, <1>4 DEF Completed, Tells, Closes, Concludes, Claims

-----------------------------------------------------------------------------
(* The loop *)

Provider == <<provider, mapper, stream>>

\* A step that is not the provider's leaves what is expected of it.
LEMMA StillExpected ==
    ASSUME UNCHANGED Provider
    PROVE  /\ Blocks' = Blocks /\ Events' = Events /\ Unended' = Unended /\ SaidAll' = SaidAll
           /\ AnnouncedFirst' = AnnouncedFirst /\ MayStayOpen' = MayStayOpen
           /\ UNCHANGED sent => Answered' = Answered
<1>1. Blocks' = Blocks /\ SaidAll' = SaidAll /\ AnnouncedFirst' = AnnouncedFirst
  BY DEF Provider, Blocks, SaidAll, AnnouncedFirst
<1>2. Unended' = Unended /\ MayStayOpen' = MayStayOpen
  BY DEF Provider, Unended, MayStayOpen, Anthropic!Unanswered
<1> QED BY <1>1, <1>2 DEF Events, Answered

LEMMA RowsAreRows ==
    ASSUME Shape
    PROVE  \A i \in DOMAIN rows : rows[i].block \in Blocks /\ rows[i].parts \in Nat /\ i \in Nat
<1>1. rows \in [1 .. Len(rows) -> [block : Blocks, parts : Nat]] /\ Len(rows) \in Nat
  BY LenProperties DEF Shape
<1> QED BY <1>1

LEMMA PendingAreEvents ==
    ASSUME Shape
    PROVE  \A i \in DOMAIN pending : pending[i] \in Events /\ i \in Nat
<1>1. pending \in [1 .. Len(pending) -> Events] /\ Len(pending) \in Nat
  BY LenProperties DEF Shape
<1> QED BY <1>1

\* The end of a turn stands.
LEMMA OverIsOver ==
    ASSUME TurnInv, ~Running, UNCHANGED <<Provider, turnVars>>
    PROVE  TurnInv'
<1>1. Blocks' = Blocks /\ Events' = Events /\ MayStayOpen' = MayStayOpen
      /\ AnnouncedFirst' = AnnouncedFirst
  BY StillExpected DEF Provider
<1> QED BY <1>1 DEF TurnInv, Shape, Running, turnVars, RowsAreWhatWasShown, NothingBreaks,
                    OutcomeIsWhatWasSaid, Stored, Provider

\* What fails leaves the rows and what was shown of their blocks.
LEMMA FailureIsSound ==
    ASSUME TurnInv, Running, UNCHANGED <<provider, rows, text>>, NEW keeps \in BOOLEAN,
           NEW code \in {"provider", "timeout"}, Fails(code, keeps),
           shown' \in [Blocks -> Nat], accumulated' \in [Blocks -> Nat],
           \A b \in Blocks : Stored(b) => shown'[b] = shown[b],
           UNCHANGED <<completion, final_answer_completed, lease>>,
           sent' \in [text : Nat, answered : BOOLEAN, finish : Finish],
           keeps => text > 0 /\ \/ sent'.answered /\ text = sent'.text
                                \/ AnnouncedFirst'
    PROVE  TurnInv'
<1>1. Blocks' = Blocks /\ Events' = Events
  BY DEF Blocks, Events
<1>2. message' \in Messages /\ client' = "error" /\ pending' = <<>>
  BY DEF Fails, Messages, TurnInv, Shape, Finish
<1>3. message'.status # "done" /\ message'.code # "chat_failed"
  BY DEF Fails, TurnInv, AtWork, NothingBreaks
<1>4. message'.status = "error" /\ message'.kept => keeps /\ message'.text = text
  BY DEF Fails, TurnInv, AtWork
<1>5. Shape'
  BY <1>1, <1>2 DEF TurnInv, Shape
<1>6. \A i \in DOMAIN rows' : rows'[i].parts = shown'[rows'[i].block]
  <2>1. \A i \in DOMAIN rows : rows[i].block \in Blocks /\ rows[i].parts = shown[rows[i].block]
    BY RowsAreRows DEF TurnInv, RowsAreWhatWasShown
  <2> QED BY <2>1 DEF Stored
<1> QED BY <1>2, <1>3, <1>4, <1>5, <1>6
        DEF TurnInv, Running, RowsAreWhatWasShown, NothingBreaks, OutcomeIsWhatWasSaid

\* What is kept of a turn that has to end now is a whole answer.
LEMMA KeptIsAnswered ==
    ASSUME TurnInv, Running, KeepsError, AnswersOf(pending) = {} \/ AnnouncedFirst
    PROVE  text > 0 /\ ((sent.answered /\ SaidAll /\ text = sent.text) \/ AnnouncedFirst)
<1>1. Answered /\ sent.text = text + Answers(pending) /\ text \in Nat /\ text > 0
  BY DEF TurnInv, AtWork, Follows, Claims, KeepsError, Shape
<1>2. CASE AnnouncedFirst
  BY <1>1, <1>2
<1>3. CASE AnswersOf(pending) = {}
  <2>1. Answers(pending) = 0
    BY <1>3, FS_EmptySet DEF Answers
  <2> QED BY <1>1, <2>1 DEF Answered
<1> QED BY <1>2, <1>3

\* What was to follow still follows, once its first is handled.
LEMMA FollowsTail ==
    ASSUME TurnInv, Running, pending # <<>>
    PROVE  /\ Tail(pending) \in Seq(Events)
           /\ Head(pending) \in Events /\ (Head(pending).kind = "block" => Head(pending).block \in Blocks)
           /\ Orderly(Tail(pending))
           /\ \A i \in DOMAIN Tail(pending) :
                 /\ Tail(pending)[i].kind = "block" => ~Stored(Tail(pending)[i].block)
                 /\ IsOf(Head(pending), Tail(pending)[i].block) /\ Tail(pending)[i].kind = "block" =>
                       ~Head(pending).ends
                 /\ Strong(Head(pending)) => Tail(pending)[i].kind # "answer"
           /\ \A b : /\ Tells(pending, b) <=> Tells(Tail(pending), b) \/ IsOf(Head(pending), b)
                     /\ Closes(pending, b) <=>
                           Closes(Tail(pending), b) \/ (IsOf(Head(pending), b) /\ Head(pending).ends)
           /\ sent.text = text + Answers(Tail(pending))
                               + (IF Head(pending).kind = "answer" THEN 1 ELSE 0)
           /\ Answers(Tail(pending)) \in Nat
           /\ Concludes(Tail(pending), sent.finish)
           /\ Head(pending).kind = "completion" => Head(pending).finish = sent.finish
           /\ Completed(pending) <=> Completed(Tail(pending)) \/ Head(pending).kind = "completion"
           /\ Claims(pending) <=> Claims(Tail(pending)) \/ Strong(Head(pending))
           /\ AnswersOf(pending) = {} => AnswersOf(Tail(pending)) = {}
<1> DEFINE s == pending  t == Tail(pending)
<1>1. s \in Seq(Events) /\ s # <<>> /\ Follows(s)
  BY DEF TurnInv, Shape, AtWork
<1>2. /\ t \in Seq(Events) /\ Head(s) = s[1] /\ s[1] \in Events /\ 1 \in DOMAIN s
      /\ \A i \in DOMAIN t : i \in Nat /\ i + 1 \in DOMAIN s /\ t[i] = s[i + 1] /\ 1 < i + 1
      /\ \A i \in DOMAIN s : i \in Nat /\ (i # 1 => i - 1 \in DOMAIN t /\ t[i - 1] = s[i])
  BY <1>1, TailIs
<1> DEFINE h == Head(s)
<1>h. /\ s[1] = h
      /\ \A i \in DOMAIN s : s[i] = h \/ \E j \in DOMAIN t : s[i] = t[j]
      /\ \A j \in DOMAIN t : \E i \in DOMAIN s : s[i] = t[j]
  BY <1>2
<1>3. Orderly(t)
  <2>1. \A i, j \in DOMAIN t : i < j => i + 1 < j + 1
    BY <1>2
  <2> QED BY <1>1, <1>2, <2>1 DEF Follows, Orderly
<1>4. \A i \in DOMAIN t :
         /\ t[i].kind = "block" => ~Stored(t[i].block)
         /\ IsOf(Head(s), t[i].block) /\ t[i].kind = "block" => ~Head(s).ends
         /\ Strong(Head(s)) => t[i].kind # "answer"
  BY <1>1, <1>2 DEF Follows, Orderly, IsOf
<1>5. \A b : /\ Tells(s, b) <=> Tells(t, b) \/ IsOf(Head(s), b)
             /\ Closes(s, b) <=> Closes(t, b) \/ (IsOf(Head(s), b) /\ Head(s).ends)
  <2> HIDE DEF s, t, h
  <2>1. ASSUME NEW b PROVE Tells(s, b) <=> Tells(t, b) \/ IsOf(h, b)
    BY <1>2, <1>h DEF Tells
  <2>2. ASSUME NEW b PROVE Closes(s, b) <=> Closes(t, b) \/ (IsOf(h, b) /\ h.ends)
    BY <1>2, <1>h DEF Closes
  <2> QED BY <2>1, <2>2 DEF h
<1>6. Answers(s) = Answers(t) + (IF Head(s).kind = "answer" THEN 1 ELSE 0) /\ Answers(t) \in Nat
  BY <1>1, <1>2, AnswersOfTail, AnswersAreFinite
<1>7. sent.text = text + Answers(t) + (IF Head(s).kind = "answer" THEN 1 ELSE 0)
  <2>1. text \in Nat /\ sent.text = text + Answers(s)
    BY <1>1 DEF TurnInv, Shape, Follows
  <2> QED BY <1>6, <2>1
<1>8. Concludes(t, sent.finish) /\ (Head(s).kind = "completion" => Head(s).finish = sent.finish)
  BY <1>1, <1>2 DEF Follows, Concludes
<1>9. Completed(s) <=> Completed(t) \/ Head(s).kind = "completion"
  <2> HIDE DEF s, t, h
  <2>1. Completed(s) <=> Completed(t) \/ h.kind = "completion"
    BY <1>2, <1>h DEF Completed
  <2> QED BY <2>1 DEF h
<1>10. Claims(s) <=> Claims(t) \/ Strong(Head(s))
  <2> HIDE DEF s, t, h
  <2>1. Claims(s) <=> Claims(t) \/ Strong(h)
    BY <1>2, <1>h DEF Claims
  <2> QED BY <2>1 DEF h
<1>11. AnswersOf(s) = {} => AnswersOf(t) = {}
  <2> HIDE DEF s, t, h
  <2> QED BY <1>h DEF AnswersOf
<1>12. Head(s).kind = "block" => Head(s).block \in Blocks
  BY <1>1, <1>2 DEF Follows, Orderly
<1> HIDE DEF s, t
<1> QED BY <1>2, <1>3, <1>4, <1>5, <1>6, <1>7, <1>8, <1>9, <1>10, <1>11, <1>12 DEF s, t

\* The head is handled: what follows it is expected still.
LEMMA FollowsOn ==
    ASSUME TurnInv, Running, pending # <<>>, pending' = Tail(pending), UNCHANGED <<Provider, sent>>,
           \A b \in Blocks : /\ Stored(b)' <=> Stored(b) \/ (IsOf(Head(pending), b) /\ Head(pending).ends)
                             /\ shown'[b] > 0 => shown[b] > 0 \/ IsOf(Head(pending), b),
           text' = text + (IF Head(pending).kind = "answer" THEN 1 ELSE 0),
           completion' = LastCompletion(Head(pending)),
           final_answer_completed' <=> final_answer_completed \/ Strong(Head(pending))
    PROVE  Follows(pending)'
<1> DEFINE e == Head(pending)
<1>1. PICK t : t = Tail(pending)
  OBVIOUS
<1>2. Blocks' = Blocks /\ Unended' = Unended /\ Answered' = Answered /\ AnnouncedFirst' = AnnouncedFirst
  BY StillExpected DEF Provider
<1>3. Follows(pending) /\ text \in Nat
  BY DEF TurnInv, AtWork, Shape
<1>4. Orderly(t)' <=> Orderly(t)
  BY <1>2 DEF Orderly, IsOf, Strong
<1>5. Orderly(t) /\ \A i \in DOMAIN t :
           /\ t[i].kind = "block" => t[i].block \in Blocks /\ ~Stored(t[i].block)
           /\ IsOf(e, t[i].block) /\ t[i].kind = "block" => ~e.ends
           /\ Strong(e) => t[i].kind # "answer"
  BY <1>1, FollowsTail DEF Orderly
<1>6. \A i \in DOMAIN t : t[i].kind = "block" => ~Stored(t[i].block)'
  BY <1>5
<1>7. \A b \in Blocks : shown'[b] > 0 \/ Tells(t, b) => Stored(b)' \/ Closes(t, b) \/ b \in Unended'
  <2>1. \A b \in Blocks : shown'[b] > 0 \/ Tells(t, b) => Stored(b) \/ Closes(pending, b) \/ b \in Unended
    BY <1>1, <1>3, FollowsTail DEF Follows
  <2> QED BY <1>1, <1>2, <2>1, FollowsTail
<1>8. sent.text = text' + Answers(t) /\ Concludes(t, sent.finish)
  BY <1>1, <1>3, FollowsTail
<1>9. Completed(t) \/ completion' = sent.finish
  BY <1>1, <1>3, FollowsTail DEF Follows, LastCompletion
<1>10. Claims(t)' => Answered
  <2>1. Claims(t)' => Claims(pending)
    BY <1>1, FollowsTail DEF Claims, Strong
  <2> QED BY <2>1, <1>3 DEF Follows
<1>11. final_answer_completed' => AnswersOf(t) = {} \/ AnnouncedFirst
  <2>1. CASE Strong(e)
    BY <2>1, <1>5 DEF AnswersOf
  <2>2. CASE ~Strong(e)
    BY <1>1, <1>3, <2>2, FollowsTail DEF Follows
  <2> QED BY <2>1, <2>2
<1>12. /\ Answers(t)' = Answers(t) /\ Concludes(t, sent.finish)' = Concludes(t, sent.finish)
       /\ Completed(t)' = Completed(t) /\ AnswersOf(t)' = AnswersOf(t)
       /\ \A b : Tells(t, b)' = Tells(t, b) /\ Closes(t, b)' = Closes(t, b)
  BY DEF Answers, Concludes, Completed, AnswersOf, Tells, Closes, IsOf
<1>13. Follows(t)'
  BY <1>2, <1>4, <1>5, <1>6, <1>7, <1>8, <1>9, <1>10, <1>11, <1>12 DEF Follows
<1> QED BY <1>1, <1>13

\* A turn that goes on keeps what it has.
LEMMA GoesOn ==
    ASSUME TurnInv, Running, Shape', Follows(pending)', UNCHANGED <<Provider, sent, message, client>>,
           \A b \in Blocks : ~Stored(b)' => accumulated'[b] = shown'[b],
           \A i \in DOMAIN rows' : rows'[i].parts = shown'[rows'[i].block]
    PROVE  TurnInv'
<1>1. Blocks' = Blocks /\ Unended' = Unended /\ MayStayOpen' = MayStayOpen
  BY StillExpected DEF Provider
<1>2. AtWork /\ message.status # "done" /\ ~(message.status = "error" /\ message.kept)
  BY DEF TurnInv, AtWork
<1>3. AtWork' /\ Running'
  BY <1>1, <1>2 DEF AtWork, Running, Provider
<1> QED BY <1>2, <1>3
        DEF TurnInv, RowsAreWhatWasShown, NothingBreaks, OutcomeIsWhatWasSaid

LEMMA EmitsAnswerKeeps ==
    ASSUME TurnInv, EmitsAnswer, UNCHANGED Provider
    PROVE  TurnInv'
<1>1. Running /\ pending # <<>> /\ Head(pending).kind = "answer" /\ pending' = Tail(pending)
  BY DEF EmitsAnswer, TurnInv
<1>2. UNCHANGED <<shown, accumulated, rows, completion, final_answer_completed, lease, message,
                  client, sent>> /\ text' = text + 1
  BY DEF EmitsAnswer
<1>3. ~Strong(Head(pending)) /\ (\A b : ~IsOf(Head(pending), b))
      /\ LastCompletion(Head(pending)) = completion
  BY <1>1 DEF Strong, IsOf, LastCompletion
<1>4. Shape'
  BY <1>1, <1>2, FollowsTail, StillExpected DEF TurnInv, Shape, Provider
<1>5. \A b : Stored(b)' <=> Stored(b)
  BY <1>2 DEF Stored
<1>6. Follows(pending)'
  BY <1>1, <1>2, <1>3, <1>5, FollowsOn
<1>7. /\ \A b \in Blocks : ~Stored(b) => accumulated[b] = shown[b]
      /\ \A i \in DOMAIN rows : rows[i].parts = shown[rows[i].block]
  BY <1>1 DEF TurnInv, AtWork, RowsAreWhatWasShown
<1> QED BY <1>1, <1>2, <1>4, <1>5, <1>6, <1>7, GoesOn

LEMMA EmitsNoteKeeps ==
    ASSUME TurnInv, EmitsNote, UNCHANGED Provider
    PROVE  TurnInv'
<1>1. Running /\ pending # <<>> /\ Head(pending).kind \notin {"block", "answer"}
      /\ pending' = Tail(pending)
  BY DEF EmitsNote, TurnInv
<1>2. UNCHANGED <<text, shown, accumulated, rows, lease, message, client, sent>>
      /\ completion' = LastCompletion(Head(pending))
      /\ final_answer_completed' = (final_answer_completed \/ Strong(Head(pending)))
  BY DEF EmitsNote
<1>3. (\A b : ~IsOf(Head(pending), b)) /\ Head(pending) \in Events /\ text \in Nat
  BY <1>1, FollowsTail DEF IsOf, TurnInv, Shape
<1>4. Shape'
  BY <1>1, <1>2, <1>3, FollowsTail, StillExpected
     DEF TurnInv, Shape, Provider, LastCompletion, Events, Strong
<1>5. \A b : Stored(b)' <=> Stored(b)
  BY <1>2 DEF Stored
<1>6. text' = text + (IF Head(pending).kind = "answer" THEN 1 ELSE 0)
  BY <1>1, <1>2, <1>3
<1>7. Follows(pending)'
  BY <1>1, <1>2, <1>3, <1>5, <1>6, FollowsOn
<1>8. /\ \A b \in Blocks : ~Stored(b) => accumulated[b] = shown[b]
      /\ \A i \in DOMAIN rows : rows[i].parts = shown[rows[i].block]
  BY <1>1 DEF TurnInv, AtWork, RowsAreWhatWasShown
<1> QED BY <1>1, <1>2, <1>4, <1>5, <1>7, <1>8, GoesOn

\* What an event of a block adds to it.
LEMMA FragmentIs ==
    ASSUME TurnInv, Running, pending # <<>>, Head(pending).kind = "block",
           shown' = [shown EXCEPT ![Head(pending).block] = @ + Head(pending).parts]
    PROVE  /\ Head(pending).block \in Blocks /\ ~Stored(Head(pending).block)
           /\ Head(pending).parts \in Nat
           /\ accumulated[Head(pending).block] = shown[Head(pending).block]
           /\ Merged(Head(pending)) = shown'[Head(pending).block]
           /\ Merged(Head(pending)) \in Nat
           /\ shown' \in [Blocks -> Nat]
           /\ \A b \in Blocks : shown'[b] > 0 => shown[b] > 0 \/ IsOf(Head(pending), b)
           /\ \A b \in Blocks : b # Head(pending).block => shown'[b] = shown[b]
           /\ \A i \in DOMAIN rows : rows[i].parts = shown'[rows[i].block]
<1> DEFINE e == Head(pending)
<1>1. e \in Events /\ e.block \in Blocks
  BY FollowsTail
<1>2. ~Stored(e.block)
  BY TailIs DEF TurnInv, Shape, AtWork, Follows
<1>3. e.parts \in Nat /\ shown \in [Blocks -> Nat] /\ accumulated \in [Blocks -> Nat]
  BY <1>1 DEF Events, TurnInv, Shape
<1>4. accumulated[e.block] = shown[e.block]
  BY <1>1, <1>2 DEF TurnInv, AtWork
<1>5. shown' \in [Blocks -> Nat] /\ shown'[e.block] = shown[e.block] + e.parts
      /\ \A b \in Blocks : b # e.block => shown'[b] = shown[b]
  BY <1>1, <1>3
<1>6. \A i \in DOMAIN rows : rows[i].block \in Blocks /\ rows[i].parts = shown[rows[i].block]
                             /\ rows[i].block # e.block
  BY <1>2, RowsAreRows DEF TurnInv, RowsAreWhatWasShown, Stored
<1>7. \A b : IsOf(e, b) <=> b = e.block
  BY DEF IsOf
<1> QED BY <1>1, <1>2, <1>3, <1>4, <1>5, <1>6, <1>7 DEF Merged

LEMMA EmitsFragmentKeeps ==
    ASSUME TurnInv, EmitsFragment, UNCHANGED Provider
    PROVE  TurnInv'
<1> DEFINE e == Head(pending)
<1>1. Running /\ pending # <<>> /\ e.kind = "block" /\ ~e.ends /\ pending' = Tail(pending)
  BY DEF EmitsFragment, TurnInv
<1>2. UNCHANGED <<text, rows, completion, final_answer_completed, lease, message, client, sent>>
      /\ shown' = [shown EXCEPT ![e.block] = @ + e.parts]
      /\ accumulated' = [accumulated EXCEPT ![e.block] = Merged(e)]
  BY DEF EmitsFragment
<1>3. ~Strong(e) /\ LastCompletion(e) = completion /\ text \in Nat
      /\ accumulated \in [Blocks -> Nat]
  BY <1>1 DEF Strong, LastCompletion, TurnInv, Shape
<1>4. e.block \in Blocks /\ Merged(e) \in Nat /\ shown' \in [Blocks -> Nat]
  BY <1>1, <1>2, FragmentIs
<1>5. Shape'
  BY <1>1, <1>2, <1>3, <1>4, FollowsTail, StillExpected DEF TurnInv, Shape, Provider
<1>6. \A b : Stored(b)' <=> Stored(b)
  BY <1>2 DEF Stored
<1>7. text' = text + (IF e.kind = "answer" THEN 1 ELSE 0)
  BY <1>1, <1>2, <1>3
<1>8. Follows(pending)'
  BY <1>1, <1>2, <1>3, <1>6, <1>7, FragmentIs, FollowsOn
<1>9. \A b \in Blocks : ~Stored(b) => accumulated[b] = shown[b]
  BY <1>1 DEF TurnInv, AtWork
<1>10. \A b \in Blocks : ~Stored(b)' => accumulated'[b] = shown'[b]
  BY <1>1, <1>2, <1>3, <1>6, <1>9, FragmentIs
<1>11. \A i \in DOMAIN rows' : rows'[i].parts = shown'[rows'[i].block]
  BY <1>1, <1>2, FragmentIs
<1> QED BY <1>1, <1>2, <1>5, <1>8, <1>10, <1>11, GoesOn

LEMMA EmitsEndKeeps ==
    ASSUME TurnInv, EmitsEnd, UNCHANGED Provider
    PROVE  TurnInv'
<1> DEFINE e == Head(pending)
           row == [block |-> e.block, parts |-> Merged(e)]
<1>1. Running /\ pending # <<>> /\ e.kind = "block" /\ e.ends
  BY DEF EmitsEnd, TurnInv
<1>2. UNCHANGED <<text, completion, final_answer_completed, lease, sent>>
      /\ shown' = [shown EXCEPT ![e.block] = @ + e.parts]
      /\ accumulated' = [accumulated EXCEPT ![e.block] = 0]
  BY DEF EmitsEnd
<1>3. ~Strong(e) /\ LastCompletion(e) = completion /\ text \in Nat
      /\ accumulated \in [Blocks -> Nat]
  BY <1>1 DEF Strong, LastCompletion, TurnInv, Shape
<1>4. /\ e.block \in Blocks /\ ~Stored(e.block) /\ shown' \in [Blocks -> Nat]
      /\ \A b \in Blocks : b # e.block => shown'[b] = shown[b]
      /\ \A i \in DOMAIN rows : rows[i].parts = shown'[rows[i].block]
      /\ Merged(e) = shown'[e.block] /\ Merged(e) \in Nat
      /\ \A b \in Blocks : shown'[b] > 0 => shown[b] > 0 \/ IsOf(e, b)
  BY <1>1, <1>2, FragmentIs
<1>5. accumulated' \in [Blocks -> Nat]
  BY <1>2, <1>3
<1>6. CASE UNCHANGED rows /\ TimesOut
  <2>1. KeepsError => text > 0 /\ ((sent.answered /\ text = sent.text) \/ AnnouncedFirst)
    BY <1>1, KeptIsAnswered DEF TurnInv, AtWork, Follows, KeepsError
  <2>2. KeepsError \in BOOLEAN /\ sent' \in [text : Nat, answered : BOOLEAN, finish : Finish]
        /\ AnnouncedFirst' = AnnouncedFirst
    BY <1>2, StillExpected DEF KeepsError, TurnInv, Shape
  <2>3. Fails("timeout", KeepsError)
    BY <1>6 DEF TimesOut
  <2>4. \A b \in Blocks : Stored(b) => shown'[b] = shown[b]
    BY <1>4
  <2> HIDE DEF e, row
  <2> QED BY <1>1, <1>2, <1>4, <1>5, <1>6, <2>1, <2>2, <2>3, <2>4, FailureIsSound DEF Provider
<1>7. CASE /\ rows' = Append(rows, row) /\ pending' = Tail(pending)
           /\ UNCHANGED <<message, client>>
  <2>1. row \in [block : Blocks, parts : Nat] /\ rows \in Seq([block : Blocks, parts : Nat])
    BY <1>4 DEF TurnInv, Shape
  <2>2. /\ rows' \in Seq([block : Blocks, parts : Nat]) /\ Len(rows) \in Nat
        /\ DOMAIN rows = 1 .. Len(rows) /\ DOMAIN rows' = 1 .. Len(rows) + 1
        /\ rows'[Len(rows) + 1] = row
        /\ \A i \in DOMAIN rows : rows'[i] = rows[i]
    BY <1>7, <2>1, AppendProperties, LenProperties
  <2>3. \A b : Stored(b)' <=> Stored(b) \/ (IsOf(e, b) /\ e.ends)
    <3>1. \A i \in DOMAIN rows' : i \in DOMAIN rows \/ i = Len(rows) + 1
      BY <2>2
    <3>2. \A i \in DOMAIN rows : i \in DOMAIN rows'
      BY <2>2
    <3>3. Len(rows) + 1 \in DOMAIN rows'
      BY <2>2
    <3> QED BY <1>1, <2>2, <3>1, <3>2, <3>3 DEF Stored, IsOf
  <2>4. Shape'
    BY <1>1, <1>2, <1>3, <1>4, <1>5, <1>7, <2>2, FollowsTail, StillExpected
       DEF TurnInv, Shape, Provider
  <2>5. text' = text + (IF e.kind = "answer" THEN 1 ELSE 0)
    BY <1>1, <1>2, <1>3
  <2>6. Follows(pending)'
    BY <1>1, <1>2, <1>3, <1>4, <1>7, <2>3, <2>5, FollowsOn
  <2>7. \A b \in Blocks : ~Stored(b)' => accumulated'[b] = shown'[b]
    <3>1. \A b \in Blocks : ~Stored(b)' => b # e.block /\ ~Stored(b)
      BY <1>1, <2>3 DEF IsOf
    <3>2. \A b \in Blocks : b # e.block => accumulated'[b] = accumulated[b]
      BY <1>2, <1>3
    <3> QED BY <1>1, <1>4, <3>1, <3>2 DEF TurnInv, AtWork
  <2>8. \A i \in DOMAIN rows' : rows'[i].parts = shown'[rows'[i].block]
    BY <1>4, <2>2
  <2> QED BY <1>1, <1>2, <1>7, <2>4, <2>6, <2>7, <2>8, GoesOn
<1>8. ~ \E i \in DOMAIN rows : rows[i].block = e.block
  BY <1>4 DEF Stored
<1> QED BY <1>6, <1>7, <1>8 DEF EmitsEnd

\* Nothing is under way when a turn waits.
LEMMA WaitingIs ==
    ASSUME TurnInv, Waiting
    PROVE  /\ Running /\ pending = <<>> /\ AtWork /\ AnswersOf(pending) = {}
           /\ text = sent.text /\ completion = sent.finish
           /\ \A b \in Blocks : shown[b] > 0 => Stored(b) \/ b \in Unended
           /\ final_answer_completed => Answered
<1>1. Running /\ pending = <<>> /\ AtWork
  BY DEF TurnInv, Waiting
<1>2. AnswersOf(pending) = {} /\ Answers(pending) = 0 /\ ~Completed(pending)
      /\ \A b : ~Closes(pending, b)
  BY <1>1, NoEvent
<1>3. text \in Nat
  BY DEF TurnInv, Shape
<1> QED BY <1>1, <1>2, <1>3 DEF AtWork, Follows, Claims

\* A failure between two chunks.
LEMMA FailsKeeps ==
    ASSUME TurnInv, Waiting, UNCHANGED <<Provider, sent>>, KeepsTurn,
           NEW code \in {"provider", "timeout"}, Fails(code, KeepsError)
    PROVE  TurnInv'
<1>1. Running /\ AnswersOf(pending) = {}
  BY WaitingIs
<1>2. KeepsError => text > 0 /\ ((sent.answered /\ text = sent.text) \/ AnnouncedFirst)
  BY <1>1, KeptIsAnswered
<1>3. KeepsError \in BOOLEAN /\ sent' \in [text : Nat, answered : BOOLEAN, finish : Finish]
      /\ AnnouncedFirst' = AnnouncedFirst
      /\ shown' \in [Blocks -> Nat] /\ accumulated' \in [Blocks -> Nat]
  BY StillExpected DEF KeepsError, TurnInv, Shape, KeepsTurn
<1> QED BY <1>1, <1>2, <1>3, FailureIsSound DEF Provider, KeepsTurn

LEMMA StreamEndsKeeps ==
    ASSUME TurnInv, UNCHANGED Provider,
           StreamEnds(mapper.saw_terminal /\ mapper.saw_visible)
    PROVE  TurnInv'
<1>1. Waiting /\ KeepsTurn /\ UNCHANGED sent
  BY DEF StreamEnds
<1>2. CASE Fails("provider", KeepsError) \/ TimesOut
  BY <1>1, <1>2, FailsKeeps DEF TimesOut
<1>3. CASE /\ mapper.saw_terminal /\ mapper.saw_visible
           /\ message' = [status |-> "done", text |-> text, finish |-> completion,
                          kept |-> TRUE, code |-> "success"]
           /\ client' = "done" /\ UNCHANGED pending
  <2>1. /\ sent.text > 0 /\ sent.finish # "none" /\ text = sent.text /\ completion = sent.finish
        /\ Unended \subseteq MayStayOpen /\ pending = <<>>
        /\ \A b \in Blocks : shown[b] > 0 => Stored(b) \/ b \in Unended
    BY <1>1, <1>3, WaitingIs DEF AtWork
  <2>2. Blocks' = Blocks /\ Events' = Events /\ MayStayOpen' = MayStayOpen
    BY StillExpected
  <2>3. Shape'
    BY <1>1, <1>3, <2>2 DEF TurnInv, Shape, KeepsTurn, Provider, Messages
  <2>4. RowsAreWhatWasShown'
    BY <1>1, <2>1, <2>2 DEF TurnInv, RowsAreWhatWasShown, Shape, KeepsTurn, Stored
  <2>5. OutcomeIsWhatWasSaid' /\ NothingBreaks' /\ ~Running'
    BY <1>1, <1>3, <2>1 DEF OutcomeIsWhatWasSaid, NothingBreaks, Running
  <2> QED BY <1>3, <2>1, <2>3, <2>4, <2>5 DEF TurnInv
<1> QED BY <1>2, <1>3 DEF StreamEnds, Succeeds

\* The lease is lost beside the turn.
LEMMA LeaseGoes ==
    ASSUME TurnInv, Expires \/ Recovers, UNCHANGED Provider
    PROVE  TurnInv'
<1>1. /\ Running /\ UNCHANGED <<pending, text, shown, accumulated, rows, completion,
                               final_answer_completed, client, sent>>
      /\ lease' \in {"expired", "lost"}
  BY DEF Expires, Recovers, Waiting
<1>2. \/ UNCHANGED message
      \/ message' = [status |-> "error", text |-> 0, finish |-> "none", kept |-> FALSE,
                     code |-> "recovered"]
  BY DEF Expires, Recovers, Streaming
<1>3. Blocks' = Blocks /\ Events' = Events /\ Unended' = Unended /\ Answered' = Answered
      /\ AnnouncedFirst' = AnnouncedFirst /\ MayStayOpen' = MayStayOpen
  BY <1>1, StillExpected DEF Provider
<1>4. message' \in Messages /\ message'.status # "done" /\ message'.code # "chat_failed"
      /\ ~(message'.status = "error" /\ message'.kept)
  <2>1. /\ message \in Messages /\ message.status # "done" /\ message.code # "chat_failed"
        /\ ~(message.status = "error" /\ message.kept)
    BY <1>1 DEF TurnInv, AtWork, Shape, NothingBreaks
  <2>2. CASE UNCHANGED message
    BY <2>1, <2>2
  <2>3. CASE message' = [status |-> "error", text |-> 0, finish |-> "none", kept |-> FALSE,
                         code |-> "recovered"]
    BY <2>3 DEF Messages, Finish
  <2> QED BY <1>2, <2>2, <2>3
<1>5. Shape'
  BY <1>1, <1>3, <1>4 DEF TurnInv, Shape, Provider
<1>6. Follows(pending)'
  BY <1>1, <1>3 DEF TurnInv, AtWork, Follows, Orderly, Stored, Tells, Closes, Answers, AnswersOf,
                    Concludes, Completed, Claims, IsOf, Strong
<1>7. AtWork' /\ Running'
  BY <1>1, <1>3, <1>4, <1>6 DEF TurnInv, AtWork, Provider, Stored, Running
<1>8. RowsAreWhatWasShown' /\ NothingBreaks' /\ OutcomeIsWhatWasSaid'
  BY <1>1, <1>4 DEF TurnInv, RowsAreWhatWasShown, NothingBreaks, OutcomeIsWhatWasSaid
<1> QED BY <1>5, <1>7, <1>8 DEF TurnInv

\* Whatever the loop does.
LEMMA TurnStepKeeps ==
    ASSUME TurnInv, UNCHANGED Provider,
           TurnStep \/ StreamEnds(mapper.saw_terminal /\ mapper.saw_visible)
    PROVE  TurnInv'
<1>1. ASSUME StreamBreaks \/ Idles PROVE TurnInv'
  BY <1>1, FailsKeeps DEF StreamBreaks, Idles, TimesOut
<1> QED BY <1>1, EmitsAnswerKeeps, EmitsNoteKeeps, EmitsFragmentKeeps, EmitsEndKeeps, LeaseGoes,
           StreamEndsKeeps DEF TurnStep


-----------------------------------------------------------------------------
(* A chunk of the provider *)

\* What a mapper makes of a chunk fits what the loop has, while the lease is held.
Fits(evs) ==
    /\ evs \in Seq(Events)
    /\ Orderly(evs)
    /\ \A i \in DOMAIN evs : evs[i].kind = "block" => ~Stored(evs[i].block)
    /\ \A b \in Blocks : b \in Unended \/ Tells(evs, b) =>
          Stored(b) \/ Closes(evs, b) \/ b \in Unended'
    /\ sent'.text = sent.text + Answers(evs)
    /\ Concludes(evs, sent'.finish)
    /\ Completed(evs) \/ sent'.finish = sent.finish
    /\ Answered \/ (\E i \in DOMAIN evs : Strong(evs[i])) => Answered'
    /\ Answered => AnswersOf(evs) = {} \/ AnnouncedFirst'
    /\ mapper'.saw_visible => sent'.text > 0
    /\ mapper'.saw_terminal => sent'.finish # "none" /\ Unended' \subseteq MayStayOpen'

\* A whole answer stays whole.
StaysWhole ==
    Answered /\ sent.text > 0 => \/ sent'.answered /\ sent'.text = sent.text
                                 \/ AnnouncedFirst'

\* The loop takes what fits.
LEMMA TakesKeeps ==
    ASSUME TurnInv, UNCHANGED provider, NEW evs, Takes(evs), StaysWhole,
           sent' \in [text : Nat, answered : BOOLEAN, finish : Finish],
           lease = "held" => Fits(evs)
    PROVE  TurnInv'
<1>1. Waiting /\ KeepsTurn
  BY DEF Takes
<1>2. /\ Running /\ pending = <<>> /\ AtWork /\ text = sent.text /\ completion = sent.finish
      /\ \A b \in Blocks : shown[b] > 0 => Stored(b) \/ b \in Unended
      /\ final_answer_completed => Answered
  BY <1>1, WaitingIs
<1>3. Blocks' = Blocks /\ Events' = Events
  BY DEF Blocks, Events
<1>4. CASE lease # "held"
  <2>1. Fails("timeout", KeepsError)
    BY <1>4 DEF Takes, TimesOut
  <2>2. KeepsError => text > 0 /\ \/ sent'.answered /\ text = sent'.text
                                  \/ AnnouncedFirst'
    BY <1>2 DEF KeepsError, StaysWhole
  <2>3. KeepsError \in BOOLEAN /\ shown' \in [Blocks -> Nat] /\ accumulated' \in [Blocks -> Nat]
    BY <1>1 DEF KeepsError, TurnInv, Shape, KeepsTurn
  <2> QED BY <1>1, <1>2, <2>1, <2>2, <2>3, FailureIsSound DEF KeepsTurn
<1>5. CASE lease = "held"
  <2>1. Fits(evs) /\ pending' = evs /\ UNCHANGED <<message, client>>
    BY <1>5 DEF Takes
  <2>2. Shape'
    BY <1>1, <1>3, <2>1 DEF TurnInv, Shape, KeepsTurn, Fits
  <2>3. \A b : Stored(b)' <=> Stored(b)
    BY <1>1 DEF Stored, KeepsTurn
  <2>4. Orderly(evs)' /\ Answers(evs)' = Answers(evs) /\ AnswersOf(evs)' = AnswersOf(evs)
    BY <1>3, <2>1 DEF Fits, Orderly, Answers, AnswersOf, IsOf, Strong
  <2>5. /\ \A b : Tells(evs, b)' = Tells(evs, b) /\ Closes(evs, b)' = Closes(evs, b)
        /\ Concludes(evs, sent.finish)' = Concludes(evs, sent'.finish)
        /\ Completed(evs)' = Completed(evs)
        /\ Claims(evs)' = (final_answer_completed \/ \E i \in DOMAIN evs : Strong(evs[i]))
    BY <1>1 DEF Tells, Closes, Concludes, Completed, Claims, IsOf, Strong, KeepsTurn
  <2>6. \A b \in Blocks : shown[b] > 0 \/ Tells(evs, b) =>
           Stored(b) \/ Closes(evs, b) \/ b \in Unended'
    BY <1>2, <2>1 DEF Fits
  <2>7. Follows(evs)'
    BY <1>1, <1>2, <1>3, <2>1, <2>3, <2>4, <2>5, <2>6 DEF Follows, Fits, KeepsTurn
  <2>8. AtWork' /\ Running'
    BY <1>1, <1>2, <1>3, <2>1, <2>3, <2>7 DEF AtWork, Fits, KeepsTurn, Running
  <2>9. RowsAreWhatWasShown' /\ NothingBreaks' /\ OutcomeIsWhatWasSaid'
    BY <1>1, <1>2, <2>1 DEF TurnInv, AtWork, RowsAreWhatWasShown, NothingBreaks,
                           OutcomeIsWhatWasSaid, KeepsTurn
  <2> QED BY <2>2, <2>8, <2>9 DEF TurnInv
<1> QED BY <1>4, <1>5

\* The loop ends no block that was not to end.
LEMMA ClosedStands ==
    ASSUME TurnInv, UNCHANGED Provider, Running',
           TurnStep \/ StreamEnds(mapper.saw_terminal /\ mapper.saw_visible)
    PROVE  /\ Running /\ UNCHANGED sent
           /\ \A b : Closed(b)' => Closed(b)
<1>1. \A keeps, code : ~Fails(code, keeps)
  BY DEF Fails, Running
<1>2. Running
  BY <1>1 DEF Running, TurnStep, EmitsAnswer, EmitsFragment, EmitsEnd, EmitsNote, StreamBreaks,
              Idles, TimesOut, Expires, Recovers, Waiting, StreamEnds
<1>3. ~Succeeds
  BY <1>1 DEF Succeeds, TimesOut, Running
<1>4. ASSUME UNCHANGED <<rows, pending>> PROVE \A b : Closed(b)' => Closed(b)
  BY <1>4 DEF Closed, Stored, Closes, IsOf
<1>5. ASSUME UNCHANGED rows, pending # <<>>, pending' = Tail(pending)
      PROVE  \A b : Closed(b)' => Closed(b)
  <2>1. PICK t : t = Tail(pending)
    OBVIOUS
  <2>2. \A b : (Closes(t, b)' <=> Closes(t, b)) /\ (Stored(b)' <=> Stored(b))
    BY <1>5 DEF Closes, IsOf, Stored
  <2>3. \A b : Closes(t, b) => Closes(pending, b)
    BY <1>2, <1>5, <2>1, FollowsTail
  <2> QED BY <1>5, <2>1, <2>2, <2>3 DEF Closed
<1>6. CASE EmitsEnd
  <2> DEFINE e == Head(pending)
             row == [block |-> e.block, parts |-> Merged(e)]
  <2>1. /\ pending # <<>> /\ e.kind = "block" /\ e.ends
        /\ rows' = Append(rows, row) /\ pending' = Tail(pending) /\ UNCHANGED sent
    BY <1>1, <1>6 DEF EmitsEnd, TimesOut
  <2>2. e.block \in Blocks /\ Merged(e) \in Nat
    <3>1. shown' = [shown EXCEPT ![e.block] = @ + e.parts]
      BY <1>6 DEF EmitsEnd
    <3> QED BY <1>2, <2>1, <3>1, FragmentIs
  <2>3. /\ Len(rows) \in Nat /\ DOMAIN rows' = 1 .. Len(rows) + 1 /\ DOMAIN rows = 1 .. Len(rows)
        /\ rows'[Len(rows) + 1] = row
        /\ \A i \in DOMAIN rows : rows'[i] = rows[i]
    <3>1. row \in [block : Blocks, parts : Nat] /\ rows \in Seq([block : Blocks, parts : Nat])
      BY <2>2 DEF TurnInv, Shape
    <3> QED BY <2>1, <3>1, AppendProperties, LenProperties
  <2>4. \A b : Stored(b)' => Stored(b) \/ (IsOf(e, b) /\ e.ends)
    <3>1. \A i \in DOMAIN rows' : i \in DOMAIN rows \/ i = Len(rows) + 1
      BY <2>3
    <3> QED BY <2>1, <2>3, <3>1 DEF Stored, IsOf
  <2>5. PICK t : t = Tail(pending)
    OBVIOUS
  <2>6. \A b : Closes(t, b)' <=> Closes(t, b)
    BY DEF Closes, IsOf
  <2>7. \A b : Closes(t, b) \/ (IsOf(e, b) /\ e.ends) => Closes(pending, b)
    BY <1>2, <2>1, <2>5, FollowsTail
  <2> QED BY <1>2, <2>1, <2>4, <2>5, <2>6, <2>7 DEF Closed
<1>7. CASE TurnStep /\ ~EmitsEnd
  <2>1. UNCHANGED <<rows, sent>> /\ \/ UNCHANGED pending
                                    \/ pending # <<>> /\ pending' = Tail(pending)
    BY <1>1, <1>7 DEF TurnStep, EmitsAnswer, EmitsFragment, EmitsNote, StreamBreaks, Idles, TimesOut,
                      Expires, Recovers
  <2> QED BY <1>2, <1>4, <1>5, <2>1
<1> QED BY <1>1, <1>2, <1>3, <1>6, <1>7 DEF StreamEnds

\* A chunk that the turn goes on with ends no others than its own.
LEMMA ClosedByTakes ==
    ASSUME TurnInv, NEW evs, Takes(evs), Running'
    PROVE  /\ Running /\ lease = "held" /\ pending' = evs
           /\ \A b : /\ Closed(b)' => Closed(b) \/ Closes(evs, b)
                     /\ Stored(b) => Closed(b)
<1>1. Waiting /\ KeepsTurn /\ lease = "held" /\ pending' = evs
  BY DEF Takes, TimesOut, Fails, Running
<1>2. Running
  BY <1>1, WaitingIs
<1>3. \A b : (Stored(b)' <=> Stored(b)) /\ (Closes(evs, b)' <=> Closes(evs, b))
  BY <1>1 DEF Stored, KeepsTurn, Closes, IsOf
<1> QED BY <1>1, <1>2, <1>3 DEF Closed

\* What is known of the provider stands while the loop works.
LEMMA LoopKeepsProvider ==
    ASSUME TurnInv, UNCHANGED Provider,
           TurnStep \/ StreamEnds(mapper.saw_terminal /\ mapper.saw_visible)
    PROVE  (OpenAIInv => OpenAIInv') /\ (AnthropicInv => AnthropicInv') /\ (VertexInv => VertexInv')
<1>1. ASSUME Running' PROVE Running /\ sent' = sent /\ \A b : Closed(b)' => Closed(b)
  BY <1>1, ClosedStands
<1>2. mapper' = mapper /\ stream' = stream
  BY DEF Provider
<1>3. OpenAIInv => OpenAIInv'
  BY <1>1, <1>2 DEF OpenAIInv, OpenAIAt
<1>4. AnthropicInv => AnthropicInv'
  BY <1>1, <1>2 DEF AnthropicInv, AnthropicAt
<1>5. VertexInv => VertexInv'
  BY <1>1, <1>2 DEF VertexInv, VertexAt
<1> QED BY <1>3, <1>4, <1>5

-----------------------------------------------------------------------------
(* The providers run the loop of TurnStream *)

\* OpenAI's turn is a turn.
LEMMA OpenAIIsATurn ==
    /\ OpenAI!TurnStep => TurnStep
    /\ OpenAI!Ends => StreamEnds(mapper.saw_terminal /\ mapper.saw_visible)
    /\ OpenAI!Waiting <=> Waiting
    /\ \A evs : OpenAI!Takes(evs) => Takes(evs)
<1>1. \A code, keeps : OpenAI!Fails(code, keeps) <=> Fails(code, keeps)
  BY DEF OpenAI!Fails, Fails
<1>2. /\ OpenAI!TimesOut <=> TimesOut
      /\ OpenAI!Waiting <=> Waiting
      /\ OpenAI!Running <=> Running
      /\ OpenAI!KeepsError = KeepsError
      /\ OpenAI!KeepsTurn <=> KeepsTurn
      /\ \A e : OpenAI!Merged(e) = Merged(e) /\ (OpenAI!Strong(e) <=> Strong(e))
                /\ OpenAI!LastCompletion(e) = LastCompletion(e)
  BY <1>1 DEF OpenAI!TimesOut, TimesOut, OpenAI!Waiting, Waiting, OpenAI!Running, Running,
              OpenAI!KeepsError, KeepsError, OpenAI!KeepsTurn, KeepsTurn, OpenAI!Merged, Merged,
              OpenAI!Strong, Strong, OpenAI!LastCompletion, LastCompletion
<1>3. OpenAI!Succeeds <=> Succeeds
  BY <1>2 DEF OpenAI!Succeeds, Succeeds
<1>4. /\ OpenAI!EmitsAnswer => EmitsAnswer
      /\ OpenAI!EmitsFragment => EmitsFragment
      /\ OpenAI!EmitsNote => EmitsNote
  BY <1>2 DEF OpenAI!EmitsAnswer, EmitsAnswer, OpenAI!EmitsFragment, EmitsFragment,
              OpenAI!EmitsNote, EmitsNote
<1>5. OpenAI!EmitsEnd => EmitsEnd
  BY <1>2 DEF OpenAI!EmitsEnd, EmitsEnd, OpenAI!Merged, Merged, OpenAI!Fails, Fails
<1>6. /\ OpenAI!StreamBreaks => StreamBreaks
      /\ OpenAI!Idles => Idles
  BY <1>1, <1>2 DEF OpenAI!StreamBreaks, StreamBreaks, OpenAI!Idles, Idles
<1>7. /\ OpenAI!Expires => Expires
      /\ OpenAI!Recovers => Recovers
  BY <1>2 DEF OpenAI!Expires, Expires, OpenAI!Recovers, Recovers, OpenAI!Streaming, Streaming
<1>8. OpenAI!Ends => StreamEnds(mapper.saw_terminal /\ mapper.saw_visible)
  BY <1>1, <1>2, <1>3 DEF OpenAI!Ends, OpenAI!StreamEnds, StreamEnds, OpenAI!Valid
<1>9. \A evs : OpenAI!Takes(evs) => Takes(evs)
  BY <1>2 DEF OpenAI!Takes, Takes
<1> QED BY <1>2, <1>4, <1>5, <1>6, <1>7, <1>8, <1>9 DEF OpenAI!TurnStep, TurnStep

\* Anthropic's turn is a turn.
LEMMA AnthropicIsATurn ==
    /\ Anthropic!TurnStep => TurnStep
    /\ Anthropic!Ends => StreamEnds(mapper.saw_terminal /\ mapper.saw_visible)
    /\ Anthropic!Waiting <=> Waiting
    /\ \A evs : Anthropic!Takes(evs) => Takes(evs)
<1>1. \A code, keeps : Anthropic!Fails(code, keeps) <=> Fails(code, keeps)
  BY DEF Anthropic!Fails, Fails
<1>2. /\ Anthropic!TimesOut <=> TimesOut
      /\ Anthropic!Waiting <=> Waiting
      /\ Anthropic!Running <=> Running
      /\ Anthropic!KeepsError = KeepsError
      /\ Anthropic!KeepsTurn <=> KeepsTurn
      /\ \A e : Anthropic!Merged(e) = Merged(e) /\ (Anthropic!Strong(e) <=> Strong(e))
                /\ Anthropic!LastCompletion(e) = LastCompletion(e)
  BY <1>1 DEF Anthropic!TimesOut, TimesOut, Anthropic!Waiting, Waiting, Anthropic!Running, Running,
              Anthropic!KeepsError, KeepsError, Anthropic!KeepsTurn, KeepsTurn, Anthropic!Merged, Merged,
              Anthropic!Strong, Strong, Anthropic!LastCompletion, LastCompletion
<1>3. Anthropic!Succeeds <=> Succeeds
  BY <1>2 DEF Anthropic!Succeeds, Succeeds
<1>4. /\ Anthropic!EmitsAnswer => EmitsAnswer
      /\ Anthropic!EmitsFragment => EmitsFragment
      /\ Anthropic!EmitsNote => EmitsNote
  BY <1>2 DEF Anthropic!EmitsAnswer, EmitsAnswer, Anthropic!EmitsFragment, EmitsFragment,
              Anthropic!EmitsNote, EmitsNote
<1>5. Anthropic!EmitsEnd => EmitsEnd
  BY <1>2 DEF Anthropic!EmitsEnd, EmitsEnd, Anthropic!Merged, Merged, Anthropic!Fails, Fails
<1>6. /\ Anthropic!StreamBreaks => StreamBreaks
      /\ Anthropic!Idles => Idles
  BY <1>1, <1>2 DEF Anthropic!StreamBreaks, StreamBreaks, Anthropic!Idles, Idles
<1>7. /\ Anthropic!Expires => Expires
      /\ Anthropic!Recovers => Recovers
  BY <1>2 DEF Anthropic!Expires, Expires, Anthropic!Recovers, Recovers, Anthropic!Streaming, Streaming
<1>8. Anthropic!Ends => StreamEnds(mapper.saw_terminal /\ mapper.saw_visible)
  BY <1>1, <1>2, <1>3 DEF Anthropic!Ends, Anthropic!StreamEnds, StreamEnds, Anthropic!Valid
<1>9. \A evs : Anthropic!Takes(evs) => Takes(evs)
  BY <1>2 DEF Anthropic!Takes, Takes
<1> QED BY <1>2, <1>4, <1>5, <1>6, <1>7, <1>8, <1>9 DEF Anthropic!TurnStep, TurnStep

\* Vertex's turn is a turn.
LEMMA VertexIsATurn ==
    /\ Vertex!TurnStep => TurnStep
    /\ Vertex!Ends => StreamEnds(mapper.saw_terminal /\ mapper.saw_visible)
    /\ Vertex!Waiting <=> Waiting
    /\ \A evs : Vertex!Takes(evs) => Takes(evs)
<1>1. \A code, keeps : Vertex!Fails(code, keeps) <=> Fails(code, keeps)
  BY DEF Vertex!Fails, Fails
<1>2. /\ Vertex!TimesOut <=> TimesOut
      /\ Vertex!Waiting <=> Waiting
      /\ Vertex!Running <=> Running
      /\ Vertex!KeepsError = KeepsError
      /\ Vertex!KeepsTurn <=> KeepsTurn
      /\ \A e : Vertex!Merged(e) = Merged(e) /\ (Vertex!Strong(e) <=> Strong(e))
                /\ Vertex!LastCompletion(e) = LastCompletion(e)
  BY <1>1 DEF Vertex!TimesOut, TimesOut, Vertex!Waiting, Waiting, Vertex!Running, Running,
              Vertex!KeepsError, KeepsError, Vertex!KeepsTurn, KeepsTurn, Vertex!Merged, Merged,
              Vertex!Strong, Strong, Vertex!LastCompletion, LastCompletion
<1>3. Vertex!Succeeds <=> Succeeds
  BY <1>2 DEF Vertex!Succeeds, Succeeds
<1>4. /\ Vertex!EmitsAnswer => EmitsAnswer
      /\ Vertex!EmitsFragment => EmitsFragment
      /\ Vertex!EmitsNote => EmitsNote
  BY <1>2 DEF Vertex!EmitsAnswer, EmitsAnswer, Vertex!EmitsFragment, EmitsFragment,
              Vertex!EmitsNote, EmitsNote
<1>5. Vertex!EmitsEnd => EmitsEnd
  BY <1>2 DEF Vertex!EmitsEnd, EmitsEnd, Vertex!Merged, Merged, Vertex!Fails, Fails
<1>6. /\ Vertex!StreamBreaks => StreamBreaks
      /\ Vertex!Idles => Idles
  BY <1>1, <1>2 DEF Vertex!StreamBreaks, StreamBreaks, Vertex!Idles, Idles
<1>7. /\ Vertex!Expires => Expires
      /\ Vertex!Recovers => Recovers
  BY <1>2 DEF Vertex!Expires, Expires, Vertex!Recovers, Recovers, Vertex!Streaming, Streaming
<1>8. Vertex!Ends => StreamEnds(mapper.saw_terminal /\ mapper.saw_visible)
  BY <1>1, <1>2, <1>3 DEF Vertex!Ends, Vertex!StreamEnds, StreamEnds, Vertex!Valid
<1>9. \A evs : Vertex!Takes(evs) => Takes(evs)
  BY <1>2 DEF Vertex!Takes, Takes
<1> QED BY <1>2, <1>4, <1>5, <1>6, <1>7, <1>8, <1>9 DEF Vertex!TurnStep, TurnStep

-----------------------------------------------------------------------------
(* What a mapper may make of a chunk: nothing, or one event *)

\* An event about a block.
LEMMA BlockEventIs ==
    ASSUME NEW b \in Blocks, NEW n \in {0, 1}, NEW ends \in BOOLEAN
    PROVE  LET e == BlockEvent(b, n, ends)
           IN  /\ e \in Events /\ e.kind = "block" /\ e.block = b /\ e.ends = ends
               /\ \A c : IsOf(e, c) <=> c = b
<1> DEFINE e == BlockEvent(b, n, ends)
<1>1. e \in Events
  BY DEF BlockEvent, Status, Events, Finish
<1>2. e.kind = "block" /\ e.block = b /\ e.ends = ends
  BY DEF BlockEvent, Status
<1> HIDE DEF e
<1>3. \A c : IsOf(e, c) <=> c = b
  BY <1>2 DEF IsOf
<1> QED BY <1>1, <1>2, <1>3 DEF e

\* The events are what their names say.
LEMMA EventsAre ==
    /\ \A b \in Blocks, n \in {0, 1}, ends \in BOOLEAN :
          /\ BlockEvent(b, n, ends) \in Events
          /\ BlockEvent(b, n, ends).kind = "block" /\ BlockEvent(b, n, ends).block = b
          /\ BlockEvent(b, n, ends).ends = ends
          /\ \A c : IsOf(BlockEvent(b, n, ends), c) <=> c = b
    /\ Answer \in Events /\ Answer.kind = "answer"
    /\ Status \in Events /\ Status.kind = "status"
    /\ \A finish \in Finish :
          /\ Completion(finish) \in Events /\ Completion(finish).kind = "completion"
          /\ Completion(finish).finish = finish
          /\ [Status EXCEPT !.kind = "metadata", !.finish = finish] \in Events
<1>1. ASSUME NEW b \in Blocks, NEW n \in {0, 1}, NEW ends \in BOOLEAN
      PROVE  /\ BlockEvent(b, n, ends) \in Events
             /\ BlockEvent(b, n, ends).kind = "block" /\ BlockEvent(b, n, ends).block = b
             /\ BlockEvent(b, n, ends).ends = ends
             /\ \A c : IsOf(BlockEvent(b, n, ends), c) <=> c = b
  BY BlockEventIs
<1>2. Status \in Events /\ Status.kind = "status"
  BY DEF Status, Events, Finish
<1>3. Answer \in Events /\ Answer.kind = "answer"
  BY DEF Answer, Status, Events, Finish
<1>4. ASSUME NEW finish \in Finish
      PROVE  /\ Completion(finish) \in Events /\ Completion(finish).kind = "completion"
             /\ Completion(finish).finish = finish
             /\ [Status EXCEPT !.kind = "metadata", !.finish = finish] \in Events
  BY DEF Completion, Status, Events
<1> QED BY <1>1, <1>2, <1>3, <1>4

LEMMA ProvidersEvents ==
    /\ \A b, n, ends : /\ OpenAI!BlockEvent(b, n, ends) = BlockEvent(b, n, ends)
                       /\ Anthropic!BlockEvent(b, n, ends) = BlockEvent(b, n, ends)
                       /\ Vertex!BlockEvent(b, n, ends) = BlockEvent(b, n, ends)
    /\ OpenAI!Answer = Answer /\ Anthropic!Answer = Answer /\ Vertex!Answer = Answer
    /\ OpenAI!Status = Status /\ Anthropic!Status = Status /\ Vertex!Status = Status
    /\ \A finish : /\ OpenAI!Completion(finish) = Completion(finish)
                   /\ Anthropic!Completion(finish) = Completion(finish)
                   /\ Vertex!Completion(finish) = Completion(finish)
    /\ OpenAI!Finish = Finish /\ Anthropic!Finish = Finish /\ Vertex!Finish = Finish
BY DEF OpenAI!BlockEvent, Anthropic!BlockEvent, Vertex!BlockEvent, BlockEvent,
       OpenAI!Answer, Anthropic!Answer, Vertex!Answer, Answer,
       OpenAI!Status, Anthropic!Status, Vertex!Status, Status,
       OpenAI!Completion, Anthropic!Completion, Vertex!Completion, Completion,
       OpenAI!Finish, Anthropic!Finish, Vertex!Finish, Finish

\* What is known of the mapper and of the outcome after any chunk.
Settled ==
    /\ mapper'.saw_visible => sent'.text > 0
    /\ mapper'.saw_terminal => sent'.finish # "none" /\ Unended' \subseteq MayStayOpen'

LEMMA FitsNothing ==
    ASSUME Settled, sent' = sent, sent.text \in Nat, Answered => Answered',
           \A b \in Blocks : b \in Unended => Stored(b) \/ b \in Unended'
    PROVE  Fits(<<>>)
BY NoEvent DEF Fits, Settled

LEMMA FitsNote ==
    ASSUME Settled, NEW e \in Events, e.kind \in {"completion", "metadata", "status"},
           sent'.text = sent.text, sent.text \in Nat,
           Answered \/ Strong(e) => Answered',
           IF e.kind = "completion" THEN e.finish = sent'.finish ELSE sent'.finish = sent.finish,
           \A b \in Blocks : b \in Unended => Stored(b) \/ b \in Unended'
    PROVE  Fits(<<e>>)
<1>1. (\A b : ~IsOf(e, b)) /\ e.kind # "block" /\ e.kind # "answer"
  BY DEF IsOf
<1>2. <<e>>[1] = e /\ DOMAIN <<e>> = {1}
  OBVIOUS
<1> QED BY <1>1, <1>2, OneEvent DEF Fits, Settled

LEMMA FitsAnswer ==
    ASSUME Settled, sent'.text = sent.text + 1, sent.text \in Nat, sent'.finish = sent.finish,
           Answered => Answered' /\ AnnouncedFirst',
           \A b \in Blocks : b \in Unended => Stored(b) \/ b \in Unended'
    PROVE  Fits(<<Answer>>)
<1>1. Answer \in Events /\ Answer.kind = "answer" /\ ~Strong(Answer) /\ \A b : ~IsOf(Answer, b)
  BY EventsAre DEF Strong, IsOf
<1>2. <<Answer>>[1] = Answer /\ DOMAIN <<Answer>> = {1}
  OBVIOUS
<1> QED BY <1>1, <1>2, OneEvent DEF Fits, Settled

LEMMA FitsFragment ==
    ASSUME Settled, NEW b \in Blocks, NEW n \in {0, 1}, ~Stored(b),
           sent' = sent, sent.text \in Nat, Answered => Answered',
           \A c \in Blocks : c \in Unended \/ c = b => Stored(c) \/ c \in Unended'
    PROVE  Fits(<<BlockEvent(b, n, FALSE)>>)
<1> DEFINE e == BlockEvent(b, n, FALSE)
<1>1. /\ e \in Events /\ e.kind = "block" /\ e.block = b /\ ~Strong(e)
      /\ \A c : IsOf(e, c) <=> c = b
  BY DEF BlockEvent, Status, Events, IsOf, Strong, Finish
<1>2. <<e>>[1] = e /\ DOMAIN <<e>> = {1}
  OBVIOUS
<1> HIDE DEF e
<1>3. Fits(<<e>>)
  BY <1>1, <1>2, OneEvent DEF Fits, Settled
<1> QED BY <1>3 DEF e

LEMMA FitsEnd ==
    ASSUME Settled, NEW b \in Blocks, NEW n \in {0, 1}, ~Stored(b),
           sent' = sent, sent.text \in Nat, Answered => Answered',
           \A c \in Blocks : c \in Unended => Stored(c) \/ c = b \/ c \in Unended'
    PROVE  Fits(<<BlockEvent(b, n, TRUE)>>)
<1> DEFINE e == BlockEvent(b, n, TRUE)
<1>1. /\ e \in Events /\ e.kind = "block" /\ e.block = b /\ ~Strong(e) /\ e.ends
      /\ \A c : IsOf(e, c) <=> c = b
  BY DEF BlockEvent, Status, Events, IsOf, Strong, Finish
<1>2. <<e>>[1] = e /\ DOMAIN <<e>> = {1}
  OBVIOUS
<1> HIDE DEF e
<1>3. Fits(<<e>>)
  BY <1>1, <1>2, OneEvent DEF Fits, Settled
<1> QED BY <1>3 DEF e

\* What ends with such an event.
LEMMA EndsOf ==
    /\ \A c : ~Closes(<<>>, c)
    /\ \A e \in Events : e.kind # "block" => \A c : ~Closes(<<e>>, c)
    /\ \A b \in Blocks, n \in {0, 1}, ends \in BOOLEAN : \A c :
          Closes(<<BlockEvent(b, n, ends)>>, c) <=> c = b /\ ends
<1>1. \A c : ~Closes(<<>>, c)
  BY DEF Closes
<1>2. ASSUME NEW e, NEW c PROVE Closes(<<e>>, c) <=> IsOf(e, c) /\ e.ends
  <2>1. <<e>>[1] = e /\ DOMAIN <<e>> = {1}
    OBVIOUS
  <2> QED BY <2>1 DEF Closes
<1>3. \A e \in Events : e.kind # "block" => \A c : ~Closes(<<e>>, c)
  BY <1>2 DEF IsOf
<1>4. ASSUME NEW b \in Blocks, NEW n \in {0, 1}, NEW ends \in BOOLEAN, NEW c
      PROVE  Closes(<<BlockEvent(b, n, ends)>>, c) <=> c = b /\ ends
  <2>1. BlockEvent(b, n, ends).ends = ends /\ (IsOf(BlockEvent(b, n, ends), c) <=> c = b)
    BY DEF BlockEvent, Status, IsOf
  <2> QED BY <1>2, <2>1
<1> QED BY <1>1, <1>3, <1>4

-----------------------------------------------------------------------------
(* OpenAI *)

\* The blocks are of one kind, and NoBlock is none.
LEMMA OpenAIBlocks ==
    /\ \A k \in OpenAI!Thought : k \in OpenAIBlock /\ k # NoBlock /\ k[1] \in Reasoning
    /\ \A i \in Tool : <<i, "tool">> \in OpenAIBlock /\ <<i, "tool">> \notin OpenAI!Thought
                       /\ <<i, "tool">>[1] = i
    /\ \A i \in Tool, j \in Tool : <<i, "tool">> = <<j, "tool">> => i = j
    /\ NoBlock \notin OpenAI!Item
    /\ \A i : /\ i \in Reasoning => i \notin Tool \cup Preamble \cup FinalAnswer
              /\ i \in Tool => i \notin Reasoning \cup Preamble \cup FinalAnswer
              /\ i \in Preamble => i \notin Reasoning \cup Tool \cup FinalAnswer
              /\ i \in FinalAnswer => i \notin Reasoning \cup Tool \cup Preamble
BY StreamsAssumption DEF OpenAIBlock, OpenAI!Thought, OpenAI!Item

\* What a turn that waits for OpenAI knows.
LEMMA OpenAIKnows ==
    ASSUME TurnInv, OpenAIInv, provider = "openai", Waiting
    PROVE  /\ OpenAIAt /\ Blocks = OpenAIBlock /\ MayStayOpen = {}
           /\ sent \in [text : Nat, answered : BOOLEAN, finish : Finish]
           /\ mapper \in OpenAI!Mapper /\ stream \in OpenAI!Stream
           /\ stream.item = NoBlock => stream.part = NoBlock
           /\ stream.part = NoBlock => \A k \in OpenAI!Thought : mapper.thinking[k] = "absent"
           /\ \A b \in Unended : b \in OpenAIBlock
           /\ mapper.saw_visible => sent.text > 0
           /\ mapper.saw_terminal => sent.finish # "none"
<1>1. Running /\ AtWork
  BY WaitingIs
<1>2. OpenAIAt /\ mapper \in OpenAI!Mapper /\ stream \in OpenAI!Stream
  BY <1>1 DEF OpenAIInv
<1>3. stream.part # NoBlock => stream.part \in OpenAI!Thought /\ stream.part[1] \in Reasoning
  BY <1>2, OpenAIBlocks DEF OpenAI!Stream
<1>4. stream.item = NoBlock => stream.part = NoBlock
  BY <1>2, <1>3, OpenAIBlocks DEF OpenAIAt, OpenAI!Item
<1>5. stream.part = NoBlock => \A k \in OpenAI!Thought : mapper.thinking[k] = "absent"
  BY <1>2, OpenAIBlocks DEF OpenAIAt
<1>6. Blocks = OpenAIBlock /\ MayStayOpen = {}
  BY DEF Blocks, MayStayOpen
<1>7. \A b \in Unended : b \in OpenAIBlock
  BY OpenAIBlocks DEF Unended
<1> QED BY <1>1, <1>2, <1>4, <1>5, <1>6, <1>7 DEF AtWork, TurnInv, Shape

\* A chunk that fits leaves the turn sound; what is left is the provider's part.
LEMMA OpenAITakes ==
    ASSUME TurnInv, OpenAIInv, provider = "openai", UNCHANGED provider,
           NEW evs, Takes(evs), NEW learnt \in OpenAI!Mapper,
           mapper' = IF lease = "held" THEN learnt ELSE mapper, stream' \in OpenAI!Stream,
           sent' \in [text : Nat, answered : BOOLEAN, finish : Finish], StaysWhole,
           mapper' = learnt => Fits(evs),
           mapper' = learnt /\ Waiting /\ (\A b : Closed(b)' => Closed(b) \/ Closes(evs, b)) => OpenAIAt'
    PROVE  TurnInv' /\ OpenAIInv'
<1>1. TurnInv'
  BY TakesKeeps
<1>2. mapper' \in OpenAI!Mapper
  BY DEF OpenAIInv
<1>3. ASSUME Running' PROVE OpenAIAt'
  BY <1>3, ClosedByTakes DEF Takes
<1> QED BY <1>1, <1>2, <1>3 DEF OpenAIInv

LEMMA OpenAICreated ==
    ASSUME TurnInv, OpenAIInv, provider = "openai", UNCHANGED provider, OpenAI!Created
    PROVE  TurnInv' /\ OpenAIInv'
<1>1. /\ Waiting /\ stream.stage = "new" /\ sent' = sent
      /\ stream' = [stream EXCEPT !.stage = "open"]
      /\ Takes(<<Status>>) /\ mapper' = IF lease = "held" THEN mapper ELSE mapper
  BY OpenAIIsATurn, ProvidersEvents
     DEF OpenAI!Created, OpenAI!Receives, OpenAI!Mapped, OpenAI!Learnt, OpenAI!About
<1>2. /\ OpenAIAt /\ Blocks = OpenAIBlock /\ MayStayOpen = {}
      /\ sent \in [text : Nat, answered : BOOLEAN, finish : Finish]
      /\ mapper \in OpenAI!Mapper /\ stream \in OpenAI!Stream
      /\ mapper.saw_visible => sent.text > 0
  BY <1>1, OpenAIKnows
<1>3. stream' \in OpenAI!Stream /\ stream'.past = stream.past /\ stream'.item = stream.item
      /\ stream'.parts = stream.parts /\ stream'.part = stream.part
      /\ stream'.part_at = stream.part_at /\ stream'.stage = "open"
  BY <1>1, <1>2 DEF OpenAI!Stream
<1>4. Unended' = Unended /\ Answered' = Answered /\ AnnouncedFirst' = AnnouncedFirst
  BY <1>1, <1>3 DEF Unended, Answered, SaidAll, AnnouncedFirst
<1>5. Settled
  BY <1>1, <1>2 DEF Settled, OpenAIAt
<1>6. Fits(<<Status>>)
  <2>1. Status \in Events /\ Status.kind = "status" /\ ~Strong(Status)
    BY EventsAre DEF Strong
  <2> QED BY <1>1, <1>2, <1>4, <1>5, <2>1, FitsNote
<1>7. StaysWhole
  BY <1>1, <1>4 DEF StaysWhole, Answered
<1>8. ASSUME \A b : Closed(b)' => Closed(b) \/ Closes(<<Status>>, b) PROVE OpenAIAt'
  <2>1. \A b : Closed(b)' => Closed(b)
    BY <1>8, EndsOf, EventsAre
  <2> QED BY <1>1, <1>2, <1>3, <2>1 DEF OpenAIAt
<1> QED BY <1>1, <1>2, <1>3, <1>6, <1>7, <1>8, OpenAITakes

LEMMA OpenAIItemAdded ==
    ASSUME TurnInv, OpenAIInv, provider = "openai", UNCHANGED provider,
           NEW i \in OpenAI!Item, OpenAI!ItemAdded(i)
    PROVE  TurnInv' /\ OpenAIInv'
<1> DEFINE evs == IF i \in Tool THEN <<BlockEvent(<<i, "tool">>, 1, FALSE)>> ELSE <<>>
           learnt == [mapper EXCEPT !.tools = @ \cup ({i} \cap Tool),
                                    !.final = @ \cup ({i} \cap FinalAnswer)]
<1>1. /\ Waiting /\ stream.stage = "open" /\ stream.item = NoBlock /\ i \notin stream.past
      /\ sent' = sent /\ stream' = [stream EXCEPT !.item = i, !.said = 0]
      /\ Takes(evs) /\ mapper' = IF lease = "held" THEN learnt ELSE mapper
  <2>1. OpenAI!Mapped(OpenAI!About("output_item.added", i)) = evs
    BY ProvidersEvents DEF OpenAI!Mapped, OpenAI!About, OpenAI!ToolId
  <2>2. OpenAI!Learnt(OpenAI!About("output_item.added", i)) = learnt
    BY DEF OpenAI!Learnt, OpenAI!About
  <2> HIDE DEF evs, learnt
  <2> QED BY <2>1, <2>2, OpenAIIsATurn
          DEF OpenAI!ItemAdded, OpenAI!Between, OpenAI!Open, OpenAI!Receives
<1>2. /\ OpenAIAt /\ Blocks = OpenAIBlock /\ MayStayOpen = {}
      /\ sent \in [text : Nat, answered : BOOLEAN, finish : Finish]
      /\ mapper \in OpenAI!Mapper /\ stream \in OpenAI!Stream
      /\ stream.part = NoBlock /\ \A k \in OpenAI!Thought : mapper.thinking[k] = "absent"
      /\ mapper.saw_visible => sent.text > 0
  BY <1>1, OpenAIKnows
<1>3. /\ stream' \in OpenAI!Stream /\ stream'.past = stream.past /\ stream'.item = i
      /\ stream'.parts = stream.parts /\ stream'.part = NoBlock
      /\ stream'.part_at = stream.part_at /\ stream'.stage = "open"
  <2>1. 0 \in 0 .. MaxParts
    BY TurnStreamAssumption
  <2> QED BY <1>1, <1>2, <2>1 DEF OpenAI!Stream
<1>4. /\ learnt \in OpenAI!Mapper /\ learnt.thinking = mapper.thinking
      /\ learnt.saw_visible = mapper.saw_visible /\ learnt.saw_terminal = mapper.saw_terminal
      /\ \A j : j \in learnt.final <=> j \in mapper.final \/ (j = i /\ i \in FinalAnswer)
  BY <1>2 DEF OpenAI!Mapper
<1> HIDE DEF learnt
<1>5. Answered' = Answered /\ AnnouncedFirst' = AnnouncedFirst
  BY <1>1, <1>3 DEF Answered, SaidAll, AnnouncedFirst
<1>6. mapper' = learnt => Unended = {} /\ Unended' = IF i \in Tool THEN {<<i, "tool">>} ELSE {}
  BY <1>1, <1>2, <1>3, <1>4, OpenAIBlocks DEF Unended, OpenAI!Item
<1>7. mapper' = learnt => Settled
  BY <1>1, <1>2, <1>4 DEF Settled, OpenAIAt
<1>8. mapper' = learnt => Fits(evs)
  <2>1. CASE i \in Tool
    <3>1. <<i, "tool">> \in Blocks /\ ~Stored(<<i, "tool">>)
      BY <1>1, <1>2, <2>1, OpenAIBlocks DEF OpenAIAt, Closed
    <3> QED BY <1>1, <1>2, <1>5, <1>6, <1>7, <2>1, <3>1, FitsFragment
  <2>2. CASE i \notin Tool
    BY <1>1, <1>2, <1>5, <1>6, <1>7, <2>2, FitsNothing
  <2> QED BY <2>1, <2>2
<1>9. StaysWhole
  BY <1>1, <1>5 DEF StaysWhole, Answered
<1>10. ASSUME mapper' = learnt, \A b : Closed(b)' => Closed(b) \/ Closes(evs, b) PROVE OpenAIAt'
  <2>1. \A b : Closed(b)' => Closed(b)
    BY <1>2, <1>10, EndsOf, OpenAIBlocks
  <2>2. sent.text > 0 => sent.answered
    BY <1>1, <1>2, OpenAIBlocks DEF OpenAIAt, OpenAI!Item
  <2> QED BY <1>1, <1>2, <1>3, <1>4, <1>10, <2>1, <2>2 DEF OpenAIAt
<1> HIDE DEF evs
<1> QED BY <1>1, <1>2, <1>3, <1>4, <1>8, <1>9, <1>10, OpenAITakes

LEMMA OpenAIPartAdded ==
    ASSUME TurnInv, OpenAIInv, provider = "openai", UNCHANGED provider,
           NEW k \in OpenAI!Thought, OpenAI!PartAdded(k)
    PROVE  TurnInv' /\ OpenAIInv'
<1> DEFINE learnt == [mapper EXCEPT !.thinking[k] = IF @ = "absent" THEN "known" ELSE @]
<1>1. /\ Waiting /\ stream.stage = "open" /\ k[1] = stream.item /\ stream.part = NoBlock
      /\ k \notin stream.parts /\ sent' = sent
      /\ stream' = [stream EXCEPT !.part = k, !.part_at = "added", !.said = 0]
      /\ Takes(<<>>) /\ mapper' = IF lease = "held" THEN learnt ELSE mapper
  <2>1. OpenAI!Mapped(OpenAI!About("reasoning_summary_part.added", k)) = <<>>
    BY DEF OpenAI!Mapped, OpenAI!About
  <2>2. OpenAI!Learnt(OpenAI!About("reasoning_summary_part.added", k)) = learnt
    BY DEF OpenAI!Learnt, OpenAI!About
  <2> HIDE DEF learnt
  <2> QED BY <2>1, <2>2, OpenAIIsATurn DEF OpenAI!PartAdded, OpenAI!Open, OpenAI!Receives
<1>2. /\ OpenAIAt /\ Blocks = OpenAIBlock /\ MayStayOpen = {}
      /\ sent \in [text : Nat, answered : BOOLEAN, finish : Finish]
      /\ mapper \in OpenAI!Mapper /\ stream \in OpenAI!Stream
      /\ \A t \in OpenAI!Thought : mapper.thinking[t] = "absent"
      /\ mapper.saw_visible => sent.text > 0
  BY <1>1, OpenAIKnows
<1>3. /\ stream' \in OpenAI!Stream /\ stream'.past = stream.past /\ stream'.item = stream.item
      /\ stream'.parts = stream.parts /\ stream'.part = k
      /\ stream'.part_at = "added" /\ stream'.stage = "open"
  <2>1. 0 \in 0 .. MaxParts
    BY TurnStreamAssumption
  <2> QED BY <1>1, <1>2, <2>1 DEF OpenAI!Stream
<1>4. /\ learnt \in OpenAI!Mapper /\ learnt.final = mapper.final
      /\ learnt.saw_visible = mapper.saw_visible /\ learnt.saw_terminal = mapper.saw_terminal
      /\ \A t \in OpenAI!Thought : learnt.thinking[t] = IF t = k THEN "known" ELSE "absent"
  BY <1>2 DEF OpenAI!Mapper
<1> HIDE DEF learnt
<1>5. Answered' = Answered /\ AnnouncedFirst' = AnnouncedFirst
  BY <1>1, <1>3 DEF Answered, SaidAll, AnnouncedFirst
<1>6. mapper' = learnt => Unended' = Unended
  BY <1>1, <1>2, <1>3, <1>4 DEF Unended
<1>7. mapper' = learnt => Settled
  BY <1>1, <1>2, <1>4 DEF Settled, OpenAIAt
<1>8. mapper' = learnt => Fits(<<>>)
  BY <1>1, <1>2, <1>5, <1>6, <1>7, FitsNothing
<1>9. StaysWhole
  BY <1>1, <1>5 DEF StaysWhole, Answered
<1>10. ASSUME mapper' = learnt, \A b : Closed(b)' => Closed(b) \/ Closes(<<>>, b) PROVE OpenAIAt'
  <2>1. \A b : Closed(b)' => Closed(b)
    BY <1>10, EndsOf
  <2>2. k # NoBlock /\ \A t \in OpenAI!Thought : Closed(t) => t \in stream.parts
    BY <1>1, <1>2, OpenAIBlocks DEF OpenAIAt
  <2> QED BY <1>1, <1>2, <1>3, <1>4, <1>10, <2>1, <2>2 DEF OpenAIAt
<1> QED BY <1>1, <1>2, <1>3, <1>4, <1>8, <1>9, <1>10, OpenAITakes

LEMMA OpenAISummaryDelta ==
    ASSUME TurnInv, OpenAIInv, provider = "openai", UNCHANGED provider, OpenAI!SummaryDelta
    PROVE  TurnInv' /\ OpenAIInv'
<1> DEFINE k == stream.part
           evs == <<BlockEvent(k, 1, FALSE)>>
           learnt == [mapper EXCEPT !.thinking[k] = "started"]
<1>1. /\ Waiting /\ stream.stage = "open" /\ k # NoBlock /\ stream.part_at = "added"
      /\ stream.said < MaxParts /\ sent' = sent
      /\ stream' = [stream EXCEPT !.said = @ + 1]
      /\ Takes(evs) /\ mapper' = IF lease = "held" THEN learnt ELSE mapper
  <2>1. OpenAI!Mapped(OpenAI!About("reasoning_summary_text.delta", k)) = evs
    BY ProvidersEvents DEF OpenAI!Mapped, OpenAI!About, OpenAI!ThinkingId
  <2>2. OpenAI!Learnt(OpenAI!About("reasoning_summary_text.delta", k)) = learnt
    BY DEF OpenAI!Learnt, OpenAI!About
  <2> HIDE DEF evs, learnt
  <2> QED BY <2>1, <2>2, OpenAIIsATurn DEF OpenAI!SummaryDelta, OpenAI!Open, OpenAI!Receives
<1>2. /\ OpenAIAt /\ Blocks = OpenAIBlock /\ MayStayOpen = {}
      /\ sent \in [text : Nat, answered : BOOLEAN, finish : Finish]
      /\ mapper \in OpenAI!Mapper /\ stream \in OpenAI!Stream
      /\ mapper.saw_visible => sent.text > 0
  BY <1>1, OpenAIKnows
<1>3. k \in OpenAI!Thought /\ k \in Blocks /\ ~Stored(k)
  <2>1. k \in OpenAI!Thought
    BY <1>1, <1>2 DEF OpenAI!Stream
  <2> QED BY <1>1, <1>2, <2>1, OpenAIBlocks DEF OpenAIAt, Closed
<1>4. /\ stream' \in OpenAI!Stream /\ stream'.past = stream.past /\ stream'.item = stream.item
      /\ stream'.parts = stream.parts /\ stream'.part = k
      /\ stream'.part_at = "added" /\ stream'.stage = "open"
  <2>1. stream.said + 1 \in 0 .. MaxParts
    BY <1>1, <1>2, TurnStreamAssumption DEF OpenAI!Stream
  <2> QED BY <1>1, <1>2, <2>1 DEF OpenAI!Stream
<1>5. /\ learnt \in OpenAI!Mapper /\ learnt.final = mapper.final
      /\ learnt.saw_visible = mapper.saw_visible /\ learnt.saw_terminal = mapper.saw_terminal
      /\ \A t \in OpenAI!Thought :
            learnt.thinking[t] = IF t = k THEN "started" ELSE mapper.thinking[t]
  BY <1>2, <1>3 DEF OpenAI!Mapper
<1> HIDE DEF learnt
<1>6. Answered' = Answered /\ AnnouncedFirst' = AnnouncedFirst
  BY <1>1, <1>4 DEF Answered, SaidAll, AnnouncedFirst
<1>7. mapper' = learnt => \A b : b \in Unended' <=> b \in Unended \/ b = k
  BY <1>1, <1>3, <1>4, <1>5 DEF Unended
<1>8. mapper' = learnt => Settled
  BY <1>1, <1>2, <1>5 DEF Settled, OpenAIAt
<1>9. mapper' = learnt => Fits(evs)
  BY <1>1, <1>2, <1>3, <1>6, <1>7, <1>8, FitsFragment
<1>10. StaysWhole
  BY <1>1, <1>6 DEF StaysWhole, Answered
<1>11. ASSUME mapper' = learnt, \A b : Closed(b)' => Closed(b) \/ Closes(evs, b) PROVE OpenAIAt'
  <2>1. \A b : Closed(b)' => Closed(b)
    BY <1>3, <1>11, EndsOf
  <2> QED BY <1>1, <1>2, <1>4, <1>5, <1>11, <2>1 DEF OpenAIAt
<1> HIDE DEF evs, k
<1> QED BY <1>1, <1>2, <1>4, <1>5, <1>9, <1>10, <1>11, OpenAITakes

LEMMA OpenAISummaryTextDone ==
    ASSUME TurnInv, OpenAIInv, provider = "openai", UNCHANGED provider, OpenAI!SummaryTextDone
    PROVE  TurnInv' /\ OpenAIInv'
<1> DEFINE k == stream.part
           evs == IF mapper.thinking[k] = "started" THEN <<BlockEvent(k, 0, TRUE)>> ELSE <<>>
           learnt == [mapper EXCEPT !.thinking[k] = "absent"]
<1>1. /\ Waiting /\ stream.stage = "open" /\ k # NoBlock /\ stream.part_at = "added"
      /\ sent' = sent /\ stream' = [stream EXCEPT !.part_at = "text_done"]
      /\ Takes(evs) /\ mapper' = IF lease = "held" THEN learnt ELSE mapper
  <2>1. OpenAI!Mapped(OpenAI!About("reasoning_summary_text.done", k)) = evs
    BY ProvidersEvents DEF OpenAI!Mapped, OpenAI!About, OpenAI!ThinkingId, OpenAI!EndsThought
  <2>2. OpenAI!Learnt(OpenAI!About("reasoning_summary_text.done", k)) = learnt
    BY DEF OpenAI!Learnt, OpenAI!About, OpenAI!AfterDone
  <2> HIDE DEF evs, learnt
  <2> QED BY <2>1, <2>2, OpenAIIsATurn DEF OpenAI!SummaryTextDone, OpenAI!Open, OpenAI!Receives
<1>2. /\ OpenAIAt /\ Blocks = OpenAIBlock /\ MayStayOpen = {}
      /\ sent \in [text : Nat, answered : BOOLEAN, finish : Finish]
      /\ mapper \in OpenAI!Mapper /\ stream \in OpenAI!Stream
      /\ mapper.saw_visible => sent.text > 0
  BY <1>1, OpenAIKnows
<1>3. k \in OpenAI!Thought /\ k \in Blocks /\ ~Stored(k)
  <2>1. k \in OpenAI!Thought
    BY <1>1, <1>2 DEF OpenAI!Stream
  <2> QED BY <1>1, <1>2, <2>1, OpenAIBlocks DEF OpenAIAt, Closed
<1>4. /\ stream' \in OpenAI!Stream /\ stream'.past = stream.past /\ stream'.item = stream.item
      /\ stream'.parts = stream.parts /\ stream'.part = k
      /\ stream'.part_at = "text_done" /\ stream'.stage = "open"
  BY <1>1, <1>2 DEF OpenAI!Stream
<1>5. /\ learnt \in OpenAI!Mapper /\ learnt.final = mapper.final
      /\ learnt.saw_visible = mapper.saw_visible /\ learnt.saw_terminal = mapper.saw_terminal
      /\ \A t \in OpenAI!Thought : learnt.thinking[t] = "absent"
      /\ \A t \in OpenAI!Thought : mapper.thinking[t] = "started" => t = k
  BY <1>2, <1>3 DEF OpenAI!Mapper, OpenAIAt
<1> HIDE DEF learnt
<1>6. Answered' = Answered /\ AnnouncedFirst' = AnnouncedFirst
  BY <1>1, <1>4 DEF Answered, SaidAll, AnnouncedFirst
<1>7. mapper' = learnt =>
         \A b : b \in Unended => b \in Unended' \/ (b = k /\ mapper.thinking[k] = "started")
  BY <1>1, <1>3, <1>4, <1>5 DEF Unended
<1>8. mapper' = learnt => Settled
  BY <1>1, <1>2, <1>5 DEF Settled, OpenAIAt
<1>9. mapper' = learnt => Fits(evs)
  <2>1. CASE mapper.thinking[k] = "started"
    BY <1>1, <1>2, <1>3, <1>6, <1>7, <1>8, <2>1, FitsEnd
  <2>2. CASE mapper.thinking[k] # "started"
    BY <1>1, <1>2, <1>6, <1>7, <1>8, <2>2, FitsNothing
  <2> QED BY <2>1, <2>2
<1>10. StaysWhole
  BY <1>1, <1>6 DEF StaysWhole, Answered
<1>11. ASSUME mapper' = learnt, \A b : Closed(b)' => Closed(b) \/ Closes(evs, b) PROVE OpenAIAt'
  <2>1. \A b : Closed(b)' => Closed(b) \/ b = k
    BY <1>3, <1>11, EndsOf
  <2> QED BY <1>1, <1>2, <1>3, <1>4, <1>5, <1>11, <2>1, OpenAIBlocks DEF OpenAIAt
<1> HIDE DEF evs, k
<1> QED BY <1>1, <1>2, <1>4, <1>5, <1>9, <1>10, <1>11, OpenAITakes

LEMMA OpenAIPartDone ==
    ASSUME TurnInv, OpenAIInv, provider = "openai", UNCHANGED provider, OpenAI!PartDone
    PROVE  TurnInv' /\ OpenAIInv'
<1> DEFINE k == stream.part
           learnt == [mapper EXCEPT !.thinking[k] = "absent"]
<1>1. /\ Waiting /\ stream.stage = "open" /\ k # NoBlock /\ stream.part_at = "text_done"
      /\ sent' = sent /\ stream' = [stream EXCEPT !.part = NoBlock, !.parts = @ \cup {k}]
      /\ OpenAI!Receives(OpenAI!About("reasoning_summary_part.done", k))
  BY OpenAIIsATurn DEF OpenAI!PartDone, OpenAI!Open
<1>2. /\ OpenAIAt /\ Blocks = OpenAIBlock /\ MayStayOpen = {}
      /\ sent \in [text : Nat, answered : BOOLEAN, finish : Finish]
      /\ mapper \in OpenAI!Mapper /\ stream \in OpenAI!Stream
      /\ mapper.saw_visible => sent.text > 0
  BY <1>1, OpenAIKnows
<1>3. k \in OpenAI!Thought /\ \A t \in OpenAI!Thought : mapper.thinking[t] # "started"
  <2>1. k \in OpenAI!Thought
    BY <1>1, <1>2 DEF OpenAI!Stream
  <2> QED BY <1>1, <1>2, <2>1 DEF OpenAIAt
<1>4. Takes(<<>>) /\ mapper' = IF lease = "held" THEN learnt ELSE mapper
  <2>1. OpenAI!Mapped(OpenAI!About("reasoning_summary_part.done", k)) = <<>>
    BY <1>3 DEF OpenAI!Mapped, OpenAI!About, OpenAI!EndsThought
  <2>2. OpenAI!Learnt(OpenAI!About("reasoning_summary_part.done", k)) = learnt
    BY DEF OpenAI!Learnt, OpenAI!About, OpenAI!AfterDone
  <2> HIDE DEF learnt
  <2> QED BY <1>1, <2>1, <2>2, OpenAIIsATurn DEF OpenAI!Receives
<1>5. /\ stream' \in OpenAI!Stream /\ stream'.past = stream.past /\ stream'.item = stream.item
      /\ stream'.parts = stream.parts \cup {k} /\ stream'.part = NoBlock
      /\ stream'.part_at = "text_done" /\ stream'.stage = "open"
  BY <1>1, <1>2, <1>3 DEF OpenAI!Stream
<1>6. /\ learnt \in OpenAI!Mapper /\ learnt.final = mapper.final
      /\ learnt.saw_visible = mapper.saw_visible /\ learnt.saw_terminal = mapper.saw_terminal
      /\ \A t \in OpenAI!Thought : learnt.thinking[t] = "absent"
  BY <1>2, <1>3 DEF OpenAI!Mapper, OpenAIAt
<1> HIDE DEF learnt
<1>7. Answered' = Answered /\ AnnouncedFirst' = AnnouncedFirst
  BY <1>1, <1>5 DEF Answered, SaidAll, AnnouncedFirst
<1>8. mapper' = learnt => Unended' = Unended
  BY <1>1, <1>3, <1>5, <1>6 DEF Unended
<1>9. mapper' = learnt => Settled
  BY <1>1, <1>2, <1>6 DEF Settled, OpenAIAt
<1>10. mapper' = learnt => Fits(<<>>)
  BY <1>1, <1>2, <1>7, <1>8, <1>9, FitsNothing
<1>11. StaysWhole
  BY <1>1, <1>7 DEF StaysWhole, Answered
<1>12. ASSUME mapper' = learnt, \A b : Closed(b)' => Closed(b) \/ Closes(<<>>, b) PROVE OpenAIAt'
  <2>1. \A b : Closed(b)' => Closed(b)
    BY <1>12, EndsOf
  <2>2. \A t \in OpenAI!Thought : Closed(t) => t \in stream'.parts
    BY <1>1, <1>2, <1>5 DEF OpenAIAt
  <2> QED BY <1>1, <1>2, <1>3, <1>5, <1>6, <1>12, <2>1, <2>2, OpenAIBlocks DEF OpenAIAt
<1> HIDE DEF k
<1> QED BY <1>1, <1>2, <1>4, <1>5, <1>6, <1>10, <1>11, <1>12, OpenAITakes

LEMMA OpenAIToolProgress ==
    ASSUME TurnInv, OpenAIInv, provider = "openai", UNCHANGED provider, OpenAI!ToolProgress
    PROVE  TurnInv' /\ OpenAIInv'
<1> DEFINE i == stream.item
           evs == IF i \in mapper.tools THEN <<BlockEvent(<<i, "tool">>, 1, FALSE)>> ELSE <<>>
<1>1. /\ Waiting /\ stream.stage = "open" /\ i \in Tool /\ stream.said < MaxParts
      /\ sent' = sent /\ stream' = [stream EXCEPT !.said = @ + 1]
      /\ Takes(evs) /\ mapper' = IF lease = "held" THEN mapper ELSE mapper
  <2>1. OpenAI!Mapped(OpenAI!About("tool progress", i)) = evs
    BY ProvidersEvents DEF OpenAI!Mapped, OpenAI!About, OpenAI!ToolId
  <2>2. OpenAI!Learnt(OpenAI!About("tool progress", i)) = mapper
    BY DEF OpenAI!Learnt, OpenAI!About
  <2> HIDE DEF evs
  <2> QED BY <2>1, <2>2, OpenAIIsATurn DEF OpenAI!ToolProgress, OpenAI!Open, OpenAI!Receives
<1>2. /\ OpenAIAt /\ Blocks = OpenAIBlock /\ MayStayOpen = {}
      /\ sent \in [text : Nat, answered : BOOLEAN, finish : Finish]
      /\ mapper \in OpenAI!Mapper /\ stream \in OpenAI!Stream
      /\ mapper.saw_visible => sent.text > 0
  BY <1>1, OpenAIKnows
<1>3. /\ stream' \in OpenAI!Stream /\ stream'.past = stream.past /\ stream'.item = i
      /\ stream'.parts = stream.parts /\ stream'.part = stream.part
      /\ stream'.part_at = stream.part_at /\ stream'.stage = "open"
  <2>1. stream.said + 1 \in 0 .. MaxParts
    BY <1>1, <1>2, TurnStreamAssumption DEF OpenAI!Stream
  <2> QED BY <1>1, <1>2, <2>1 DEF OpenAI!Stream
<1>4. <<i, "tool">> \in Blocks /\ ~Stored(<<i, "tool">>) /\ <<i, "tool">> \in Unended'
  <2>1. i \notin stream.past /\ <<i, "tool">> \in Blocks
    BY <1>1, <1>2, OpenAIBlocks DEF OpenAIAt, OpenAI!Item
  <2>2. ~Stored(<<i, "tool">>)
    BY <1>1, <1>2, <2>1 DEF OpenAIAt, Closed
  <2>3. <<i, "tool">> \in Unended'
    BY <1>1, <1>3 DEF Unended
  <2> QED BY <2>1, <2>2, <2>3
<1>5. /\ Answered' = Answered /\ AnnouncedFirst' = AnnouncedFirst /\ Unended' = Unended
  BY <1>1, <1>3 DEF Answered, SaidAll, AnnouncedFirst, Unended
<1>6. Settled
  BY <1>1, <1>2 DEF Settled, OpenAIAt
<1>7. Fits(evs)
  <2>1. CASE i \in mapper.tools
    BY <1>1, <1>2, <1>4, <1>5, <1>6, <2>1, FitsFragment
  <2>2. CASE i \notin mapper.tools
    BY <1>1, <1>2, <1>5, <1>6, <2>2, FitsNothing
  <2> QED BY <2>1, <2>2
<1>8. StaysWhole
  BY <1>1, <1>5 DEF StaysWhole, Answered
<1>9. ASSUME \A b : Closed(b)' => Closed(b) \/ Closes(evs, b) PROVE OpenAIAt'
  <2>1. \A b : Closed(b)' => Closed(b)
    BY <1>4, <1>9, EndsOf
  <2> QED BY <1>1, <1>2, <1>3, <2>1 DEF OpenAIAt
<1> HIDE DEF evs, i
<1> QED BY <1>1, <1>2, <1>3, <1>7, <1>8, <1>9, OpenAITakes

LEMMA OpenAITextDelta ==
    ASSUME TurnInv, OpenAIInv, provider = "openai", UNCHANGED provider, OpenAI!TextDelta
    PROVE  TurnInv' /\ OpenAIInv'
<1> DEFINE i == stream.item
           evs == IF i \in FinalAnswer THEN <<Answer>> ELSE <<>>
           learnt == IF i \in FinalAnswer THEN [mapper EXCEPT !.saw_visible = TRUE] ELSE mapper
<1>1. /\ Waiting /\ stream.stage = "open" /\ i \in Preamble \cup FinalAnswer
      /\ stream.said < MaxParts /\ stream' = [stream EXCEPT !.said = @ + 1]
      /\ sent' = [sent EXCEPT !.text = IF i \in FinalAnswer THEN @ + 1 ELSE @]
      /\ OpenAI!Receives(OpenAI!About("output_text.delta", i))
  BY OpenAIIsATurn DEF OpenAI!TextDelta, OpenAI!Open
<1>2. /\ OpenAIAt /\ Blocks = OpenAIBlock /\ MayStayOpen = {}
      /\ sent \in [text : Nat, answered : BOOLEAN, finish : Finish]
      /\ mapper \in OpenAI!Mapper /\ stream \in OpenAI!Stream
      /\ mapper.saw_visible => sent.text > 0
  BY <1>1, OpenAIKnows
<1>3. i \in mapper.final <=> i \in FinalAnswer
  BY <1>1, <1>2, OpenAIBlocks DEF OpenAIAt, OpenAI!Mapper
<1>4. Takes(evs) /\ mapper' = IF lease = "held" THEN learnt ELSE mapper
  <2>1. OpenAI!Mapped(OpenAI!About("output_text.delta", i)) = evs
    BY <1>3, ProvidersEvents DEF OpenAI!Mapped, OpenAI!About
  <2>2. OpenAI!Learnt(OpenAI!About("output_text.delta", i)) = learnt
    BY <1>3 DEF OpenAI!Learnt, OpenAI!About
  <2> HIDE DEF evs, learnt
  <2> QED BY <1>1, <2>1, <2>2, OpenAIIsATurn DEF OpenAI!Receives
<1>5. /\ stream' \in OpenAI!Stream /\ stream'.past = stream.past /\ stream'.item = i
      /\ stream'.parts = stream.parts /\ stream'.part = stream.part
      /\ stream'.part_at = stream.part_at /\ stream'.stage = "open"
  <2>1. stream.said + 1 \in 0 .. MaxParts
    BY <1>1, <1>2, TurnStreamAssumption DEF OpenAI!Stream
  <2> QED BY <1>1, <1>2, <2>1 DEF OpenAI!Stream
<1>6. /\ sent' \in [text : Nat, answered : BOOLEAN, finish : Finish]
      /\ sent'.text = sent.text + (IF i \in FinalAnswer THEN 1 ELSE 0)
      /\ sent'.answered = sent.answered /\ sent'.finish = sent.finish
      /\ i \notin FinalAnswer => sent' = sent
  BY <1>1, <1>2
<1>7. /\ learnt \in OpenAI!Mapper /\ learnt.final = mapper.final
      /\ learnt.saw_visible = (mapper.saw_visible \/ i \in FinalAnswer)
      /\ learnt.saw_terminal = mapper.saw_terminal /\ learnt.thinking = mapper.thinking
  BY <1>2 DEF OpenAI!Mapper
<1> HIDE DEF learnt
<1>8. AnnouncedFirst' = AnnouncedFirst /\ (mapper' = learnt => Unended' = Unended)
  BY <1>1, <1>5, <1>7 DEF AnnouncedFirst, Unended
<1>9. i \in FinalAnswer => ~SaidAll
  BY <1>1, <1>2, OpenAIBlocks DEF SaidAll, OpenAIAt, OpenAI!Item
<1>10. Answered => Answered' /\ (i \in FinalAnswer => AnnouncedFirst')
  <2>1. i \notin FinalAnswer => SaidAll' = SaidAll
    BY <1>1, <1>5 DEF SaidAll
  <2> QED BY <1>6, <1>8, <1>9, <2>1 DEF Answered
<1>11. mapper' = learnt => Settled
  <2>1. sent.text \in Nat /\ ~mapper.saw_terminal
    BY <1>1, <1>2 DEF OpenAIAt
  <2>2. mapper.saw_visible \/ i \in FinalAnswer => sent'.text > 0
    BY <1>2, <1>6, <2>1
  <2> QED BY <1>7, <2>1, <2>2 DEF Settled
<1>12. mapper' = learnt => Fits(evs)
  <2>1. CASE i \in FinalAnswer
    BY <1>2, <1>6, <1>8, <1>10, <1>11, <2>1, FitsAnswer
  <2>2. CASE i \notin FinalAnswer
    BY <1>2, <1>6, <1>8, <1>10, <1>11, <2>2, FitsNothing
  <2> QED BY <2>1, <2>2
<1>13. StaysWhole
  BY <1>2, <1>6, <1>8, <1>9, <1>10 DEF StaysWhole, Answered
<1>14. ASSUME mapper' = learnt, \A b : Closed(b)' => Closed(b) \/ Closes(evs, b) PROVE OpenAIAt'
  <2>1. \A b : Closed(b)' => Closed(b)
    BY <1>14, EndsOf, EventsAre
  <2> QED BY <1>1, <1>2, <1>5, <1>6, <1>7, <1>14, <2>1 DEF OpenAIAt
<1> HIDE DEF evs, i
<1> QED BY <1>1, <1>4, <1>5, <1>6, <1>7, <1>12, <1>13, <1>14, OpenAITakes

LEMMA OpenAIItemDone ==
    ASSUME TurnInv, OpenAIInv, provider = "openai", UNCHANGED provider,
           NEW finish \in {"complete", "cut"}, OpenAI!ItemDone(finish)
    PROVE  TurnInv' /\ OpenAIInv'
<1> DEFINE i == stream.item
           note == [Status EXCEPT !.kind = "metadata", !.finish = finish]
           evs == IF i \in Tool THEN <<BlockEvent(<<i, "tool">>, 1, TRUE)>>
                  ELSE IF i \in Preamble \cup FinalAnswer THEN <<note>> ELSE <<>>
           learnt == [mapper EXCEPT !.tools = @ \cup ({i} \cap Tool),
                                    !.final = @ \cup ({i} \cap FinalAnswer)]
           whole == finish = "complete" /\ i \in FinalAnswer
<1>1. /\ Waiting /\ stream.stage = "open" /\ i # NoBlock /\ stream.part = NoBlock
      /\ finish = "cut" => i \in Preamble \cup FinalAnswer
      /\ stream' = [stream EXCEPT !.item = NoBlock, !.past = @ \cup {i},
                                  !.stage = IF finish = "cut" THEN "cut" ELSE @]
      /\ sent' = [sent EXCEPT !.answered = @ \/ whole]
      /\ Takes(evs) /\ mapper' = IF lease = "held" THEN learnt ELSE mapper
  <2> DEFINE e == [OpenAI!About("output_item.done", i) EXCEPT !.finish = finish]
  <2>1. OpenAI!Mapped(e) = evs
    <3>1. e.type = "output_item.done" /\ e.what = i /\ e.finish = finish
      BY DEF OpenAI!About
    <3>2. i \in Tool => i \notin Preamble \cup FinalAnswer
      BY OpenAIBlocks
    <3> HIDE DEF e, i
    <3> QED BY <3>1, <3>2, ProvidersEvents DEF OpenAI!Mapped, OpenAI!ToolId
  <2>2. OpenAI!Learnt(e) = learnt
    BY DEF OpenAI!Learnt, OpenAI!About
  <2>3. OpenAI!Receives(e) => Takes(evs) /\ mapper' = IF lease = "held" THEN learnt ELSE mapper
    <3> HIDE DEF evs, learnt, e
    <3> QED BY <2>1, <2>2, OpenAIIsATurn DEF OpenAI!Receives
  <2> HIDE DEF evs, learnt
  <2> QED BY <2>3, OpenAIIsATurn DEF OpenAI!ItemDone, OpenAI!Open
<1>2. /\ OpenAIAt /\ Blocks = OpenAIBlock /\ MayStayOpen = {}
      /\ sent \in [text : Nat, answered : BOOLEAN, finish : Finish]
      /\ mapper \in OpenAI!Mapper /\ stream \in OpenAI!Stream
      /\ \A k \in OpenAI!Thought : mapper.thinking[k] = "absent"
      /\ mapper.saw_visible => sent.text > 0
  BY <1>1, OpenAIKnows
<1>3. i \in OpenAI!Item /\ i \notin stream.past
  BY <1>1, <1>2 DEF OpenAI!Stream, OpenAIAt
<1>4. /\ stream' \in OpenAI!Stream /\ stream'.past = stream.past \cup {i}
      /\ stream'.item = NoBlock /\ stream'.parts = stream.parts /\ stream'.part = NoBlock
      /\ stream'.part_at = stream.part_at
      /\ stream'.stage = IF finish = "cut" THEN "cut" ELSE "open"
  BY <1>1, <1>2, <1>3 DEF OpenAI!Stream
<1>5. /\ sent' \in [text : Nat, answered : BOOLEAN, finish : Finish]
      /\ sent'.text = sent.text /\ sent'.finish = sent.finish
      /\ sent'.answered = (sent.answered \/ whole)
      /\ ~whole => sent' = sent
  BY <1>1, <1>2
<1>6. /\ learnt \in OpenAI!Mapper /\ mapper.final \subseteq learnt.final
      /\ learnt.saw_visible = mapper.saw_visible /\ learnt.saw_terminal = mapper.saw_terminal
      /\ learnt.thinking = mapper.thinking
  BY <1>2 DEF OpenAI!Mapper
<1> HIDE DEF learnt
<1>7. whole => FinalAnswer \subseteq stream'.past
  BY <1>4, StreamsAssumption
<1>8. (AnnouncedFirst => AnnouncedFirst') /\ (i \in Preamble => AnnouncedFirst')
  BY <1>1, <1>4 DEF AnnouncedFirst
<1>9. Answered => Answered'
  <2>1. SaidAll => SaidAll' /\ i \notin FinalAnswer
    BY <1>1, <1>3, <1>4 DEF SaidAll
  <2> QED BY <1>5, <1>8, <2>1 DEF Answered
<1>10. whole => Answered'
  BY <1>1, <1>5, <1>7 DEF Answered, SaidAll
<1>11. mapper' = learnt => \A b : b \in Unended => b \in Unended' \/ (i \in Tool /\ b = <<i, "tool">>)
  BY <1>1, <1>2 DEF Unended
<1>12. mapper' = learnt => Settled
  BY <1>1, <1>2, <1>5, <1>6 DEF Settled, OpenAIAt
<1>13. mapper' = learnt => Fits(evs)
  <2>1. CASE i \in Tool
    <3>1. <<i, "tool">> \in Blocks /\ ~Stored(<<i, "tool">>)
      BY <1>2, <1>3, <2>1, OpenAIBlocks DEF OpenAIAt, Closed
    <3>2. sent' = sent
      BY <1>5, <2>1, OpenAIBlocks
    <3> QED BY <1>2, <1>9, <1>11, <1>12, <2>1, <3>1, <3>2, FitsEnd
  <2>2. CASE i \in Preamble \cup FinalAnswer
    <3>1. note \in Events /\ note.kind = "metadata" /\ (Strong(note) => finish = "complete")
      <4>1. finish \in Finish
        BY DEF Finish
      <4> QED BY <4>1, EventsAre DEF Strong, Status
    <3>2. Strong(note) => Answered'
      BY <1>1, <1>8, <1>10, <2>2, <3>1 DEF Answered
    <3>3. i \notin Tool
      BY <2>2, OpenAIBlocks
    <3> HIDE DEF note
    <3> QED BY <1>2, <1>5, <1>9, <1>11, <1>12, <2>2, <3>1, <3>2, <3>3, FitsNote
  <2>3. CASE i \notin Tool \cup Preamble \cup FinalAnswer
    BY <1>2, <1>5, <1>9, <1>11, <1>12, <2>3, FitsNothing
  <2> QED BY <2>1, <2>2, <2>3
<1>14. StaysWhole
  <2>1. Answered => AnnouncedFirst \/ (sent.answered \/ sent.text = 0)
    BY DEF Answered
  <2>2. sent.text \in Nat
    BY <1>2
  <2> QED BY <1>5, <1>8, <2>1, <2>2 DEF StaysWhole
<1>15. ASSUME mapper' = learnt, \A b : Closed(b)' => Closed(b) \/ Closes(evs, b) PROVE OpenAIAt'
  <2>1. \A b : Closed(b)' => Closed(b) \/ (i \in Tool /\ b = <<i, "tool">>)
    <3>1. i \in Tool => <<i, "tool">> \in Blocks
      BY <1>2, OpenAIBlocks
    <3>2. note \in Events /\ note.kind # "block"
      BY DEF Events, Finish, Status
    <3> HIDE DEF note
    <3> QED BY <1>15, <3>1, <3>2, EndsOf
  <2>2. \A k \in OpenAI!Thought : /\ mapper'.thinking[k] = "absent"
                                  /\ Closed(k)' => k \in stream'.parts
    BY <1>1, <1>2, <1>4, <1>6, <1>15, <2>1, OpenAIBlocks DEF OpenAIAt
  <2>3. \A j \in Tool : Closed(<<j, "tool">>)' => j \in stream'.past
    BY <1>2, <1>4, <2>1, OpenAIBlocks DEF OpenAIAt
  <2>4. sent'.answered => FinalAnswer \subseteq stream'.past
    BY <1>2, <1>4, <1>5, <1>7 DEF OpenAIAt
  <2>5. sent'.text > 0 /\ stream'.stage \in {"new", "open"} => sent'.answered
    BY <1>1, <1>2, <1>4, <1>5 DEF OpenAIAt
  <2>6. ~mapper'.saw_terminal /\ NoBlock \notin FinalAnswer
    BY <1>1, <1>2, <1>6, <1>15, StreamsAssumption DEF OpenAIAt
  <2> QED BY <1>4, <2>2, <2>3, <2>4, <2>5, <2>6 DEF OpenAIAt
<1> HIDE DEF evs, i, whole
<1> QED BY <1>1, <1>4, <1>5, <1>6, <1>13, <1>14, <1>15, OpenAITakes

LEMMA OpenAICompletes ==
    ASSUME TurnInv, OpenAIInv, provider = "openai", UNCHANGED provider,
           NEW finish \in {"complete", "cut"}, OpenAI!Completes(finish)
    PROVE  TurnInv' /\ OpenAIInv'
<1> DEFINE evs == <<Completion(finish)>>
           learnt == [mapper EXCEPT !.saw_terminal = TRUE]
<1>1. /\ Waiting
      /\ \/ stream.stage = "open" /\ stream.item = NoBlock
         \/ stream.stage = "cut" /\ finish = "cut"
      /\ stream' = [stream EXCEPT !.stage = "over"]
      /\ sent' = [sent EXCEPT !.finish = finish]
      /\ Takes(evs) /\ mapper' = IF lease = "held" THEN learnt ELSE mapper
  <2> DEFINE e == [OpenAI!About("completion", NoBlock) EXCEPT !.finish = finish]
  <2>1. OpenAI!Mapped(e) = evs
    BY ProvidersEvents DEF OpenAI!Mapped, OpenAI!About
  <2>2. OpenAI!Learnt(e) = learnt
    BY DEF OpenAI!Learnt, OpenAI!About
  <2>3. OpenAI!Receives(e) => Takes(evs) /\ mapper' = IF lease = "held" THEN learnt ELSE mapper
    <3> HIDE DEF evs, learnt, e
    <3> QED BY <2>1, <2>2, OpenAIIsATurn DEF OpenAI!Receives
  <2> HIDE DEF evs, learnt
  <2> QED BY <2>3, OpenAIIsATurn DEF OpenAI!Completes, OpenAI!Between, OpenAI!Open
<1>2. /\ OpenAIAt /\ Blocks = OpenAIBlock /\ MayStayOpen = {}
      /\ sent \in [text : Nat, answered : BOOLEAN, finish : Finish]
      /\ mapper \in OpenAI!Mapper /\ stream \in OpenAI!Stream
      /\ stream.item = NoBlock => stream.part = NoBlock
      /\ stream.part = NoBlock => \A k \in OpenAI!Thought : mapper.thinking[k] = "absent"
      /\ mapper.saw_visible => sent.text > 0
  BY <1>1, OpenAIKnows
<1>3. stream.item = NoBlock /\ stream.part = NoBlock
  BY <1>1, <1>2 DEF OpenAIAt
<1>4. /\ stream' \in OpenAI!Stream /\ stream'.past = stream.past /\ stream'.item = NoBlock
      /\ stream'.parts = stream.parts /\ stream'.part = NoBlock
      /\ stream'.part_at = stream.part_at /\ stream'.stage = "over"
  BY <1>1, <1>2, <1>3 DEF OpenAI!Stream
<1>5. /\ sent' \in [text : Nat, answered : BOOLEAN, finish : Finish]
      /\ sent'.text = sent.text /\ sent'.answered = sent.answered /\ sent'.finish = finish
  BY <1>1, <1>2 DEF Finish
<1>6. /\ learnt \in OpenAI!Mapper /\ learnt.final = mapper.final
      /\ learnt.saw_visible = mapper.saw_visible /\ learnt.thinking = mapper.thinking
  BY <1>2 DEF OpenAI!Mapper
<1> HIDE DEF learnt
<1>7. SaidAll' /\ AnnouncedFirst' = AnnouncedFirst
  BY <1>1, <1>4 DEF SaidAll, AnnouncedFirst
<1>8. Answered => Answered'
  BY <1>5, <1>7 DEF Answered
<1>9. finish = "complete" => Answered'
  <2>1. finish = "complete" /\ sent.text > 0 => sent.answered
    BY <1>1, <1>2, <1>3, StreamsAssumption DEF OpenAIAt
  <2>2. sent.text \in Nat
    BY <1>2
  <2> QED BY <1>5, <1>7, <2>1, <2>2 DEF Answered
<1>10. /\ Unended = {}
       /\ mapper' = learnt => Unended' = {}
  BY <1>1, <1>2, <1>3, <1>4, <1>6, OpenAIBlocks DEF Unended, OpenAI!Item
<1>11. mapper' = learnt => Settled
  BY <1>2, <1>5, <1>6, <1>10 DEF Settled
<1>12. mapper' = learnt => Fits(evs)
  <2>1. /\ Completion(finish) \in Events /\ Completion(finish).kind = "completion"
        /\ Completion(finish).finish = finish
    BY EventsAre DEF Finish
  <2>2. Strong(Completion(finish)) => finish = "complete"
    BY <2>1 DEF Strong
  <2> QED BY <1>2, <1>5, <1>8, <1>9, <1>10, <1>11, <2>1, <2>2, FitsNote
<1>13. StaysWhole
  <2>1. Answered => AnnouncedFirst \/ (sent.answered \/ sent.text = 0)
    BY DEF Answered
  <2>2. sent.text \in Nat
    BY <1>2
  <2> QED BY <1>5, <1>7, <2>1, <2>2 DEF StaysWhole
<1>14. ASSUME mapper' = learnt, \A b : Closed(b)' => Closed(b) \/ Closes(evs, b) PROVE OpenAIAt'
  <2>1. \A b : Closed(b)' => Closed(b)
    <3>1. Completion(finish) \in Events /\ Completion(finish).kind # "block"
      BY EventsAre DEF Finish
    <3> QED BY <1>14, <3>1, EndsOf
  <2>2. NoBlock \notin FinalAnswer
    BY StreamsAssumption
  <2> QED BY <1>2, <1>3, <1>4, <1>5, <1>6, <1>14, <2>1, <2>2 DEF OpenAIAt
<1> HIDE DEF evs
<1> QED BY <1>1, <1>4, <1>5, <1>6, <1>12, <1>13, <1>14, OpenAITakes

\* Whatever OpenAI does.
LEMMA OpenAIKeeps ==
    ASSUME TurnInv, OpenAIInv, provider = "openai", UNCHANGED provider, OpenAI!Next
    PROVE  TurnInv' /\ OpenAIInv'
<1>1. CASE OpenAI!Provider
  BY <1>1, OpenAICreated, OpenAIItemAdded, OpenAIPartAdded, OpenAISummaryDelta,
     OpenAISummaryTextDone, OpenAIPartDone, OpenAIToolProgress, OpenAITextDelta, OpenAIItemDone,
     OpenAICompletes DEF OpenAI!Provider
<1>2. CASE (OpenAI!TurnStep \/ OpenAI!Ends) /\ UNCHANGED <<mapper, stream>>
  <2>1. /\ UNCHANGED Provider
        /\ TurnStep \/ StreamEnds(mapper.saw_terminal /\ mapper.saw_visible)
    BY <1>2, OpenAIIsATurn DEF Provider
  <2> QED BY <2>1, TurnStepKeeps, LoopKeepsProvider
<1> QED BY <1>1, <1>2 DEF OpenAI!Next

-----------------------------------------------------------------------------
(* Anthropic *)

LEMMA AnthropicBlocks ==
    /\ \A i \in Anthropic!Index : <<"thinking", i>> \in AnthropicBlock
    /\ \A u \in Use : <<"tool", u>> \in AnthropicBlock
    /\ \A i, u : <<"thinking", i>> # <<"tool", u>>
    /\ \A i, j : <<"thinking", i>> = <<"thinking", j>> => i = j
    /\ \A i, j : <<"tool", i>> = <<"tool", j>> => i = j
    /\ \A i \in Anthropic!Index : i \in Nat
BY StreamsAssumption DEF AnthropicBlock, Anthropic!Index

\* What a turn that waits for Anthropic knows; only the end of a message is an answer.
LEMMA AnthropicKnows ==
    ASSUME TurnInv, AnthropicInv, provider = "anthropic", Waiting
    PROVE  /\ AnthropicAt /\ Blocks = AnthropicBlock /\ IsAnthropicMapper(mapper)
           /\ sent \in [text : Nat, answered : BOOLEAN, finish : Finish]
           /\ sent.text \in Nat /\ stream \in Anthropic!Stream
           /\ mapper.saw_visible => sent.text > 0
           /\ mapper.saw_terminal => sent.finish # "none" /\ Unended \subseteq MayStayOpen
           /\ stream.stage # "over" => ~Answered
<1>1. Running /\ AtWork
  BY WaitingIs
<1>2. AnthropicAt /\ IsAnthropicMapper(mapper) /\ stream \in Anthropic!Stream
  BY <1>1 DEF AnthropicInv
<1>3. Blocks = AnthropicBlock /\ ~AnnouncedFirst /\ (SaidAll => stream.stage = "over")
  BY DEF Blocks, AnnouncedFirst, SaidAll
<1> QED BY <1>1, <1>2, <1>3 DEF AtWork, TurnInv, Shape, Answered

\* A chunk that fits leaves the turn sound; what is left is the provider's part.
LEMMA AnthropicTakes ==
    ASSUME TurnInv, AnthropicInv, provider = "anthropic", UNCHANGED provider,
           NEW evs, Takes(evs), NEW learnt, IsAnthropicMapper(learnt),
           mapper' = IF lease = "held" THEN learnt ELSE mapper, stream' \in Anthropic!Stream,
           sent' \in [text : Nat, answered : BOOLEAN, finish : Finish], StaysWhole,
           mapper' = learnt => Fits(evs),
           mapper' = learnt /\ Waiting /\ (\A b : Closed(b)' => Closed(b) \/ Closes(evs, b)) => AnthropicAt'
    PROVE  TurnInv' /\ AnthropicInv'
<1>1. TurnInv'
  BY TakesKeeps
<1>2. IsAnthropicMapper(mapper)'
  BY DEF AnthropicInv, IsAnthropicMapper
<1>3. ASSUME Running' PROVE AnthropicAt'
  BY <1>3, ClosedByTakes DEF Takes
<1> QED BY <1>1, <1>2, <1>3 DEF AnthropicInv

LEMMA AnthropicMessageStart ==
    ASSUME TurnInv, AnthropicInv, provider = "anthropic", UNCHANGED provider, Anthropic!MessageStart
    PROVE  TurnInv' /\ AnthropicInv'
<1>1. /\ Waiting /\ stream.stage = "new" /\ sent' = sent
      /\ stream' = [stream EXCEPT !.stage = "between"]
      /\ Takes(<<Status>>) /\ mapper' = IF lease = "held" THEN mapper ELSE mapper
  BY AnthropicIsATurn, ProvidersEvents
     DEF Anthropic!MessageStart, Anthropic!Receives, Anthropic!Mapped, Anthropic!Learnt, Anthropic!About
<1>2. /\ AnthropicAt /\ Blocks = AnthropicBlock /\ IsAnthropicMapper(mapper)
      /\ sent \in [text : Nat, answered : BOOLEAN, finish : Finish]
      /\ sent.text \in Nat /\ stream \in Anthropic!Stream
      /\ mapper.saw_visible => sent.text > 0
      /\ ~Answered
  BY <1>1, AnthropicKnows
<1>3. /\ stream' \in Anthropic!Stream /\ stream'.index = stream.index /\ stream'.stage = "between"
      /\ stream'.used = stream.used /\ stream'.answered = stream.answered
  BY <1>1, <1>2 DEF Anthropic!Stream
<1>4. Unended' = Unended
  BY <1>1, <1>3 DEF Unended
<1>5. Settled
  BY <1>1, <1>2 DEF Settled, AnthropicAt
<1>6. Fits(<<Status>>)
  <2>1. Status \in Events /\ Status.kind = "status" /\ ~Strong(Status)
    BY EventsAre DEF Strong
  <2> QED BY <1>1, <1>2, <1>4, <1>5, <2>1, FitsNote
<1>7. StaysWhole
  BY <1>2 DEF StaysWhole
<1>8. ASSUME \A b : Closed(b)' => Closed(b) \/ Closes(<<Status>>, b) PROVE AnthropicAt'
  <2>1. \A b : Closed(b)' => Closed(b)
    BY <1>8, EndsOf, EventsAre
  <2> QED BY <1>1, <1>2, <1>3, <2>1 DEF AnthropicAt
<1> QED BY <1>1, <1>2, <1>3, <1>6, <1>7, <1>8, AnthropicTakes

LEMMA AnthropicPing ==
    ASSUME TurnInv, AnthropicInv, provider = "anthropic", UNCHANGED provider, Anthropic!Ping
    PROVE  TurnInv' /\ AnthropicInv'
<1>1. /\ Waiting /\ sent' = sent /\ stream' = stream
      /\ Takes(<<Status>>) /\ mapper' = mapper
  BY AnthropicIsATurn, ProvidersEvents
     DEF Anthropic!Ping, Anthropic!Receives, Anthropic!Mapped, Anthropic!Learnt, Anthropic!About
<1>2. /\ AnthropicAt /\ Blocks = AnthropicBlock /\ IsAnthropicMapper(mapper)
      /\ sent \in [text : Nat, answered : BOOLEAN, finish : Finish]
      /\ sent.text \in Nat /\ stream \in Anthropic!Stream
      /\ mapper.saw_visible => sent.text > 0
      /\ mapper.saw_terminal => sent.finish # "none" /\ Unended \subseteq MayStayOpen
  BY <1>1, AnthropicKnows
<1>3. Unended' = Unended /\ Answered' = Answered /\ MayStayOpen' = MayStayOpen
  BY <1>1, StillExpected DEF Provider
<1>4. Settled
  BY <1>1, <1>2, <1>3 DEF Settled
<1>5. Fits(<<Status>>)
  <2>1. Status \in Events /\ Status.kind = "status" /\ ~Strong(Status)
    BY EventsAre DEF Strong
  <2> QED BY <1>1, <1>2, <1>3, <1>4, <2>1, FitsNote
<1>6. StaysWhole
  BY <1>1, <1>2, <1>3 DEF StaysWhole, Answered, AnnouncedFirst
<1>7. ASSUME \A b : Closed(b)' => Closed(b) \/ Closes(<<Status>>, b) PROVE AnthropicAt'
  <2>1. \A b : Closed(b)' => Closed(b)
    BY <1>7, EndsOf, EventsAre
  <2> QED BY <1>1, <1>2, <2>1 DEF AnthropicAt
<1> QED BY <1>1, <1>2, <1>5, <1>6, <1>7, AnthropicTakes

LEMMA AnthropicBlockStart ==
    ASSUME TurnInv, AnthropicInv, provider = "anthropic", UNCHANGED provider,
           NEW type \in Anthropic!ContentType, NEW use \in Use \cup {NoBlock}, NEW n \in {0, 1},
           Anthropic!BlockStart(type, use, n)
    PROVE  TurnInv' /\ AnthropicInv'
<1> DEFINE tool == type \in {"server_tool_use", "tool_result"}
           says == type = "text" /\ n = 1
           block == [type |-> type, use |-> use, started |-> FALSE]
           evs == IF tool THEN <<BlockEvent(<<"tool", use>>, 1, FALSE)>>
                  ELSE IF says THEN <<Answer>>
                  ELSE IF type = "thinking" THEN <<Status>> ELSE <<>>
           learnt == [mapper EXCEPT
                        !.blocks = [i \in DOMAIN mapper.blocks \cup {stream.index} |->
                                       IF i = stream.index THEN block ELSE mapper.blocks[i]],
                        !.saw_visible = @ \/ says]
<1>1. /\ Waiting /\ stream.stage = "between" /\ stream.index \in Anthropic!Index
      /\ tool => use \in (IF type = "tool_result" THEN stream.used \ stream.answered
                                                  ELSE Use \ stream.used) /\ n = 0
      /\ ~tool => use = NoBlock /\ (n = 1 => type = "text")
      /\ stream' = [stream EXCEPT !.stage = "block", !.type = type, !.use = use, !.said = 0]
      /\ sent' = [sent EXCEPT !.text = @ + n]
      /\ Takes(evs) /\ mapper' = IF lease = "held" THEN learnt ELSE mapper
  <2> DEFINE e == [Anthropic!About("content_block_start", stream.index) EXCEPT
                      !.content = type, !.use = use, !.parts = n]
  <2>1. /\ e.type = "content_block_start" /\ e.index = stream.index /\ e.content = type
        /\ e.use = use /\ e.parts = n
    BY DEF Anthropic!About
  <2> HIDE DEF e
  <2>2. Anthropic!Mapped(e) = evs
    BY <2>1, ProvidersEvents
       DEF Anthropic!Mapped, Anthropic!MappedStart, Anthropic!ToolId, Anthropic!StartOf, Anthropic!IsTool
  <2>3. Anthropic!Learnt(e) = learnt
    BY <2>1 DEF Anthropic!Learnt, Anthropic!StartOf
  <2>4. Anthropic!Receives(e) => Takes(evs) /\ mapper' = IF lease = "held" THEN learnt ELSE mapper
    <3> HIDE DEF evs, learnt
    <3> QED BY <2>2, <2>3, AnthropicIsATurn DEF Anthropic!Receives
  <2>5. Anthropic!Receives(e)
    BY DEF e, Anthropic!BlockStart
  <2> HIDE DEF evs, learnt
  <2> QED BY <2>4, <2>5, AnthropicIsATurn DEF Anthropic!BlockStart, Anthropic!Said, Anthropic!IsTool
<1>2. /\ AnthropicAt /\ Blocks = AnthropicBlock /\ IsAnthropicMapper(mapper)
      /\ sent \in [text : Nat, answered : BOOLEAN, finish : Finish]
      /\ sent.text \in Nat /\ stream \in Anthropic!Stream
      /\ mapper.saw_visible => sent.text > 0
      /\ ~Answered
  BY <1>1, AnthropicKnows
<1>3. /\ stream' \in Anthropic!Stream /\ stream'.index = stream.index /\ stream'.stage = "block"
      /\ stream'.used = stream.used /\ stream'.answered = stream.answered
      /\ stream'.type = type /\ stream'.use = use
  <2>1. 0 \in 0 .. MaxParts
    BY TurnStreamAssumption
  <2> QED BY <1>1, <1>2, <2>1 DEF Anthropic!Stream
<1>4. /\ sent' \in [text : Nat, answered : BOOLEAN, finish : Finish]
      /\ sent'.text = sent.text + n /\ sent'.answered = sent.answered /\ sent'.finish = sent.finish
      /\ n = 0 => sent' = sent
  BY <1>1, <1>2
<1>5. /\ IsAnthropicMapper(learnt) /\ learnt.saw_visible = (mapper.saw_visible \/ says)
      /\ learnt.saw_terminal = mapper.saw_terminal
      /\ stream.index \in DOMAIN learnt.blocks /\ learnt.blocks[stream.index] = block
  <2>1. block \in Anthropic!ContentBlock
    BY DEF Anthropic!ContentBlock
  <2> HIDE DEF block
  <2> QED BY <1>2, <2>1 DEF IsAnthropicMapper
<1>6. block.type = type /\ block.use = use /\ block.started = FALSE
  OBVIOUS
<1> HIDE DEF learnt, block
<1>7. mapper' = learnt =>
         /\ \A b : b \in Unended => b \in Unended'
         /\ tool => <<"tool", use>> \in Unended'
  <2>1. tool => use \in Use
    BY <1>1, <1>2 DEF Anthropic!Stream
  <2> QED BY <1>1, <1>3, <2>1 DEF Unended, Anthropic!IsTool
<1>8. mapper' = learnt => Settled
  <2>1. ~mapper.saw_terminal
    BY <1>1, <1>2 DEF AnthropicAt
  <2>2. mapper.saw_visible \/ says => sent'.text > 0
    BY <1>2, <1>4
  <2> QED BY <1>5, <2>1, <2>2 DEF Settled
<1>9. mapper' = learnt => Fits(evs)
  <2>1. CASE tool
    <3>1. use \in Use /\ use \notin stream.answered
      BY <1>1, <1>2, <2>1 DEF AnthropicAt, Anthropic!Stream
    <3>2. <<"tool", use>> \in Blocks /\ ~Stored(<<"tool", use>>)
      BY <1>2, <3>1, AnthropicBlocks DEF AnthropicAt, Closed
    <3> QED BY <1>1, <1>2, <1>4, <1>7, <1>8, <2>1, <3>2, FitsFragment
  <2>2. CASE ~tool /\ says
    BY <1>2, <1>4, <1>7, <1>8, <2>2, FitsAnswer
  <2>3. CASE ~tool /\ ~says
    <3>1. sent' = sent
      BY <1>1, <1>4, <2>3
    <3>2. Status \in Events /\ Status.kind = "status" /\ ~Strong(Status)
      BY EventsAre DEF Strong
    <3>3. mapper' = learnt => Fits(<<Status>>)
      BY <1>2, <1>7, <1>8, <3>1, <3>2, FitsNote
    <3>4. mapper' = learnt => Fits(<<>>)
      BY <1>2, <1>7, <1>8, <3>1, FitsNothing
    <3> QED BY <2>3, <3>3, <3>4
  <2> QED BY <2>1, <2>2, <2>3
<1>10. StaysWhole
  BY <1>2 DEF StaysWhole
<1>11. ASSUME mapper' = learnt, \A b : Closed(b)' => Closed(b) \/ Closes(evs, b) PROVE AnthropicAt'
  <2>1. \A b : Closed(b)' => Closed(b)
    <3>1. \A b : ~Closes(evs, b)
      <4>1. tool => <<"tool", use>> \in Blocks
        BY <1>1, <1>2, AnthropicBlocks DEF Anthropic!Stream
      <4> QED BY <4>1, EndsOf, EventsAre
    <3> QED BY <1>11, <3>1
  <2>2. type = "server_tool_use" => use \in Use \ stream.used
    BY <1>1
  <2>3. type = "tool_result" => use \in stream.used \ stream.answered
    BY <1>1
  <2> QED BY <1>1, <1>2, <1>3, <1>4, <1>5, <1>6, <1>11, <2>1, <2>2, <2>3 DEF AnthropicAt
<1> HIDE DEF evs, tool, says
<1> QED BY <1>1, <1>2, <1>3, <1>4, <1>5, <1>9, <1>10, <1>11, AnthropicTakes

LEMMA AnthropicBlockDelta ==
    ASSUME TurnInv, AnthropicInv, provider = "anthropic", UNCHANGED provider, NEW n \in {0, 1},
           Anthropic!BlockDelta(n)
    PROVE  TurnInv' /\ AnthropicInv'
<1> DEFINE i == stream.index
           block == mapper.blocks[i]
           tool == stream.type \in {"server_tool_use", "tool_result"}
           says == stream.type = "text" /\ n = 1
           thinks == stream.type = "thinking" /\ n = 1
           evs == IF tool THEN <<BlockEvent(<<"tool", stream.use>>, 1, FALSE)>>
                  ELSE IF thinks THEN <<BlockEvent(<<"thinking", i>>, 1, FALSE)>>
                  ELSE IF says THEN <<Answer>> ELSE <<>>
           learnt == [mapper EXCEPT !.blocks[i].started = @ \/ thinks,
                                    !.saw_visible = @ \/ says]
<1>1. /\ Waiting /\ stream.stage = "block"
      /\ stream.said < (IF tool THEN 1 ELSE MaxParts)
      /\ stream' = [stream EXCEPT !.said = @ + 1]
      /\ sent' = [sent EXCEPT !.text = @ + (IF stream.type = "text" THEN n ELSE 0)]
      /\ Anthropic!Receives([Anthropic!About("content_block_delta", i) EXCEPT !.parts = n])
  BY AnthropicIsATurn DEF Anthropic!BlockDelta, Anthropic!Said, Anthropic!IsTool
<1>2. /\ AnthropicAt /\ Blocks = AnthropicBlock /\ IsAnthropicMapper(mapper)
      /\ sent \in [text : Nat, answered : BOOLEAN, finish : Finish]
      /\ sent.text \in Nat /\ stream \in Anthropic!Stream
      /\ mapper.saw_visible => sent.text > 0
      /\ ~Answered
  BY <1>1, AnthropicKnows
<1>3. /\ i \in Anthropic!Index /\ i \in DOMAIN mapper.blocks
      /\ block.type = stream.type /\ block.use = stream.use
      /\ stream.type \in Anthropic!ContentType
  BY <1>1, <1>2 DEF AnthropicAt, Anthropic!Stream
<1>4. Takes(evs) /\ mapper' = IF lease = "held" THEN learnt ELSE mapper
  <2> DEFINE e == [Anthropic!About("content_block_delta", i) EXCEPT !.parts = n]
  <2>1. e.type = "content_block_delta" /\ e.index = i /\ e.parts = n
    BY DEF Anthropic!About
  <2> HIDE DEF e
  <2>2. Anthropic!Mapped(e) = evs
    <3>1. Anthropic!Mapped(e) = Anthropic!MappedDelta(e, block)
      BY <2>1 DEF Anthropic!Mapped
    <3>2. CASE tool
      BY <1>3, <2>1, <3>1, <3>2, ProvidersEvents DEF Anthropic!MappedDelta, Anthropic!ToolId, Anthropic!IsTool
    <3>3. CASE ~tool /\ n = 0
      BY <1>3, <2>1, <3>1, <3>3 DEF Anthropic!MappedDelta, Anthropic!IsTool
    <3>4. CASE ~tool /\ n = 1
      <4>1. stream.type \in {"thinking", "text"}
        BY <1>3, <3>4 DEF Anthropic!ContentType
      <4>2. ~Anthropic!IsTool(block.type) /\ e.parts # 0 /\ block.type = stream.type
        BY <1>3, <2>1, <3>4 DEF Anthropic!IsTool
      <4>3. Anthropic!MappedDelta(e, block) =
               IF stream.type = "thinking" THEN <<BlockEvent(<<"thinking", i>>, 1, FALSE)>> ELSE <<Answer>>
        <5> HIDE DEF block
        <5> QED BY <2>1, <4>2, ProvidersEvents DEF Anthropic!MappedDelta
      <4>4. evs = IF stream.type = "thinking"
                    THEN <<BlockEvent(<<"thinking", i>>, 1, FALSE)>> ELSE <<Answer>>
        BY <3>4, <4>1
      <4> HIDE DEF evs, block
      <4> QED BY <3>1, <4>3, <4>4
    <3> HIDE DEF evs
    <3> QED BY <3>1, <3>2, <3>3, <3>4
  <2>3. Anthropic!Learnt(e) = learnt
    BY <1>3, <2>1 DEF Anthropic!Learnt
  <2>4. Anthropic!Receives(e)
    BY <1>1 DEF e
  <2> HIDE DEF evs, learnt
  <2> QED BY <2>2, <2>3, <2>4, AnthropicIsATurn DEF Anthropic!Receives
<1>5. /\ stream' \in Anthropic!Stream /\ stream'.index = i /\ stream'.stage = "block"
      /\ stream'.used = stream.used /\ stream'.answered = stream.answered
      /\ stream'.type = stream.type /\ stream'.use = stream.use
  <2>1. stream.said + 1 \in 0 .. MaxParts
    BY <1>1, <1>2, TurnStreamAssumption DEF Anthropic!Stream
  <2> QED BY <1>1, <1>2, <2>1 DEF Anthropic!Stream
<1>6. /\ sent' \in [text : Nat, answered : BOOLEAN, finish : Finish]
      /\ sent'.text = sent.text + (IF says THEN 1 ELSE 0)
      /\ sent'.answered = sent.answered /\ sent'.finish = sent.finish
      /\ ~says => sent' = sent
  BY <1>1, <1>2
<1>7. /\ IsAnthropicMapper(learnt) /\ learnt.saw_visible = (mapper.saw_visible \/ says)
      /\ learnt.saw_terminal = mapper.saw_terminal
      /\ i \in DOMAIN learnt.blocks /\ learnt.blocks[i].type = stream.type
      /\ learnt.blocks[i].use = stream.use
      /\ learnt.blocks[i].started = (block.started \/ thinks)
  <2>1. block \in Anthropic!ContentBlock
    BY <1>2, <1>3 DEF IsAnthropicMapper
  <2>2. learnt = [mapper EXCEPT !.blocks = [mapper.blocks EXCEPT ![i] =
                                               [block EXCEPT !.started = @ \/ thinks]],
                                !.saw_visible = @ \/ says]
    BY <1>3
  <2>3. [block EXCEPT !.started = @ \/ thinks] \in Anthropic!ContentBlock
    BY <2>1 DEF Anthropic!ContentBlock
  <2>4. /\ [block EXCEPT !.started = @ \/ thinks].type = block.type
        /\ [block EXCEPT !.started = @ \/ thinks].use = block.use
        /\ [block EXCEPT !.started = @ \/ thinks].started = (block.started \/ thinks)
    BY <2>1 DEF Anthropic!ContentBlock
  <2> HIDE DEF learnt
  <2> QED BY <1>2, <1>3, <2>2, <2>3, <2>4 DEF IsAnthropicMapper
<1> HIDE DEF learnt
<1>8. mapper' = learnt =>
         /\ \A b : b \in Unended => b \in Unended'
         /\ tool => <<"tool", stream.use>> \in Unended'
         /\ thinks => <<"thinking", i>> \in Unended'
  <2>1. tool => stream.use \in Use
    BY <1>1, <1>2 DEF AnthropicAt, Anthropic!Stream
  <2>2. i \in 0 .. MaxIndex
    BY <1>3 DEF Anthropic!Index
  <2> SUFFICES ASSUME mapper' = learnt
               PROVE  /\ \A b : b \in Unended => b \in Unended'
                      /\ tool => <<"tool", stream.use>> \in Unended'
                      /\ thinks => <<"thinking", i>> \in Unended'
    OBVIOUS
  <2>3. /\ mapper'.blocks[i].type = stream.type
        /\ mapper'.blocks[i].started = (mapper.blocks[i].started \/ thinks)
    BY <1>7
  <2>4. tool => <<"tool", stream.use>> \in Unended'
    BY <1>5, <2>1 DEF Unended, Anthropic!IsTool
  <2>5. thinks => <<"thinking", i>> \in Unended'
    BY <1>5, <2>2, <2>3 DEF Unended
  <2>6. \A b : b \in Unended => b \in Unended'
    <3>1. {u \in Use : /\ stream'.stage = "block" /\ Anthropic!IsTool(stream'.type)
                       /\ u = stream'.use}
          = {u \in Use : /\ stream.stage = "block" /\ Anthropic!IsTool(stream.type)
                         /\ u = stream.use}
      BY <1>1, <1>5
    <3>2. /\ stream'.used \ stream'.answered = stream.used \ stream.answered
          /\ mapper.blocks[stream.index].type = stream.type
          /\ mapper'.blocks[stream.index].type = stream.type
          /\ mapper.blocks[stream.index].started => mapper'.blocks[stream.index].started
          /\ stream'.index = stream.index /\ stream'.stage = stream.stage
      BY <1>1, <1>3, <1>5, <2>3
    <3> HIDE DEF i, block, tool, thinks, says, evs
    <3> QED BY <3>1, <3>2 DEF Unended
  <2> QED BY <2>4, <2>5, <2>6
<1>9. mapper' = learnt => Settled
  <2>1. ~mapper.saw_terminal
    BY <1>1, <1>2 DEF AnthropicAt
  <2>2. mapper.saw_visible \/ says => sent'.text > 0
    BY <1>2, <1>6
  <2> QED BY <1>7, <2>1, <2>2 DEF Settled
<1>10. /\ tool => <<"tool", stream.use>> \in Blocks /\ ~Stored(<<"tool", stream.use>>)
       /\ <<"thinking", i>> \in Blocks /\ ~Stored(<<"thinking", i>>)
  <2>1. tool => stream.use \in Use /\ stream.use \notin stream.answered
    BY <1>1, <1>2 DEF AnthropicAt, Anthropic!Stream
  <2> QED BY <1>2, <1>3, <2>1, AnthropicBlocks DEF AnthropicAt, Closed
<1>11. mapper' = learnt => Fits(evs)
  <2>1. CASE tool
    BY <1>2, <1>6, <1>8, <1>9, <1>10, <2>1, FitsFragment
  <2>2. CASE thinks
    BY <1>2, <1>6, <1>8, <1>9, <1>10, <2>2, FitsFragment
  <2>3. CASE ~tool /\ ~thinks /\ says
    BY <1>2, <1>6, <1>8, <1>9, <2>3, FitsAnswer
  <2>4. CASE ~tool /\ ~thinks /\ ~says
    BY <1>2, <1>6, <1>8, <1>9, <2>4, FitsNothing
  <2> QED BY <2>1, <2>2, <2>3, <2>4
<1>12. StaysWhole
  BY <1>2 DEF StaysWhole
<1>13. ASSUME mapper' = learnt, \A b : Closed(b)' => Closed(b) \/ Closes(evs, b) PROVE AnthropicAt'
  <2>1. \A b : ~Closes(evs, b)
    BY <1>10, EndsOf, EventsAre
  <2>2. \A b : Closed(b)' => Closed(b)
    BY <1>13, <2>1
  <2> HIDE DEF i
  <2> QED BY <1>1, <1>2, <1>3, <1>5, <1>6, <1>7, <1>13, <2>2 DEF AnthropicAt, i
<1> HIDE DEF evs, tool, says, thinks, i
<1> QED BY <1>1, <1>2, <1>4, <1>5, <1>6, <1>7, <1>11, <1>12, <1>13, AnthropicTakes

LEMMA AnthropicBlockStop ==
    ASSUME TurnInv, AnthropicInv, provider = "anthropic", UNCHANGED provider, Anthropic!BlockStop
    PROVE  TurnInv' /\ AnthropicInv'
<1> DEFINE i == stream.index
           block == mapper.blocks[i]
           tool == stream.type \in {"server_tool_use", "tool_result"}
           result == stream.type = "tool_result"
           thought == stream.type = "thinking" /\ block.started
           evs == IF tool THEN <<BlockEvent(<<"tool", stream.use>>, 1, result)>>
                  ELSE IF thought THEN <<BlockEvent(<<"thinking", i>>, 0, TRUE)>> ELSE <<>>
           learnt == [mapper EXCEPT !.blocks = [j \in DOMAIN mapper.blocks \ {i} |-> mapper.blocks[j]]]
<1>1. /\ Waiting /\ stream.stage = "block" /\ sent' = sent
      /\ stream' = [stream EXCEPT
             !.stage = "between", !.index = @ + 1,
             !.used = @ \cup (IF stream.type = "server_tool_use" THEN {stream.use} ELSE {}),
             !.answered = @ \cup (IF result THEN {stream.use} ELSE {})]
      /\ Anthropic!Receives(Anthropic!About("content_block_stop", i))
  BY AnthropicIsATurn DEF Anthropic!BlockStop
<1>2. /\ AnthropicAt /\ Blocks = AnthropicBlock /\ IsAnthropicMapper(mapper)
      /\ sent \in [text : Nat, answered : BOOLEAN, finish : Finish]
      /\ sent.text \in Nat /\ stream \in Anthropic!Stream
      /\ mapper.saw_visible => sent.text > 0
      /\ ~Answered
  BY <1>1, AnthropicKnows
<1>3. /\ i \in Anthropic!Index /\ i \in Nat /\ i \in DOMAIN mapper.blocks
      /\ block.type = stream.type /\ block.use = stream.use
      /\ tool => stream.use \in Use /\ stream.use \notin stream.answered
      /\ result => stream.use \in stream.used
  BY <1>1, <1>2, AnthropicBlocks DEF AnthropicAt, Anthropic!Stream
<1>4. Takes(evs) /\ mapper' = IF lease = "held" THEN learnt ELSE mapper
  <2> DEFINE e == Anthropic!About("content_block_stop", i)
  <2>1. e.type = "content_block_stop" /\ e.index = i
    BY DEF Anthropic!About
  <2> HIDE DEF e
  <2>2. Anthropic!Mapped(e) = Anthropic!MappedStop(e, block)
    BY <2>1 DEF Anthropic!Mapped
  <2>3. Anthropic!MappedStop(e, block) = evs
    BY <1>3, <2>1, ProvidersEvents
       DEF Anthropic!MappedStop, Anthropic!ToolId, Anthropic!IsTool, Anthropic!EndsOnStop,
           Anthropic!StopsThinking
  <2>4. Anthropic!Learnt(e) = learnt
    BY <2>1 DEF Anthropic!Learnt, Anthropic!Without
  <2>5. Anthropic!Receives(e)
    BY <1>1 DEF e
  <2> HIDE DEF evs, learnt
  <2> QED BY <2>2, <2>3, <2>4, <2>5, AnthropicIsATurn DEF Anthropic!Receives
<1>5. /\ stream' \in Anthropic!Stream /\ stream'.index = i + 1 /\ stream'.stage = "between"
      /\ stream'.used = stream.used \cup
                        (IF stream.type = "server_tool_use" THEN {stream.use} ELSE {})
      /\ stream'.answered = stream.answered \cup (IF result THEN {stream.use} ELSE {})
  <2>1. i + 1 \in 0 .. MaxIndex + 1
    BY <1>3, StreamsAssumption DEF Anthropic!Index
  <2> QED BY <1>1, <1>2, <1>3, <2>1 DEF Anthropic!Stream
<1>6. /\ IsAnthropicMapper(learnt) /\ learnt.saw_visible = mapper.saw_visible
      /\ learnt.saw_terminal = mapper.saw_terminal
  BY <1>2 DEF IsAnthropicMapper
<1> HIDE DEF learnt
<1>7. \A b : b \in Unended => \/ b \in Unended'
                              \/ tool /\ result /\ b = <<"tool", stream.use>>
                              \/ ~tool /\ thought /\ b = <<"thinking", i>>
  <2> HIDE DEF i
  <2> QED BY <1>1, <1>3, <1>5 DEF Unended, Anthropic!IsTool, i
<1>8. tool /\ ~result => <<"tool", stream.use>> \in Unended'
  BY <1>3, <1>5 DEF Unended
<1>9. mapper' = learnt => Settled
  BY <1>1, <1>2, <1>6 DEF Settled, AnthropicAt
<1>10. /\ tool => <<"tool", stream.use>> \in Blocks /\ ~Stored(<<"tool", stream.use>>)
       /\ <<"thinking", i>> \in Blocks /\ ~Stored(<<"thinking", i>>)
  BY <1>2, <1>3, AnthropicBlocks DEF AnthropicAt, Closed
<1>11. mapper' = learnt => Fits(evs)
  <2> SUFFICES ASSUME mapper' = learnt PROVE Fits(evs)
    OBVIOUS
  <2>0. Settled /\ sent' = sent /\ sent.text \in Nat /\ ~Answered
    BY <1>1, <1>2, <1>9
  <2>1. CASE tool /\ result
    <3>1. evs = <<BlockEvent(<<"tool", stream.use>>, 1, TRUE)>>
      BY <2>1
    <3>2. \A b : b \in Unended => b = <<"tool", stream.use>> \/ b \in Unended'
      BY <1>7, <2>1
    <3> HIDE DEF evs
    <3> QED BY <1>10, <2>0, <2>1, <3>1, <3>2, FitsEnd
  <2>2. CASE tool /\ ~result
    <3>1. evs = <<BlockEvent(<<"tool", stream.use>>, 1, FALSE)>>
      BY <2>2
    <3>2. \A b : b \in Unended \/ b = <<"tool", stream.use>> => b \in Unended'
      BY <1>7, <1>8, <2>2
    <3> HIDE DEF evs
    <3> QED BY <1>10, <2>0, <2>2, <3>1, <3>2, FitsFragment
  <2>3. CASE ~tool /\ thought
    <3>1. evs = <<BlockEvent(<<"thinking", i>>, 0, TRUE)>>
      BY <2>3
    <3>2. \A b : b \in Unended => b = <<"thinking", i>> \/ b \in Unended'
      BY <1>7, <2>3
    <3> HIDE DEF evs
    <3> QED BY <1>10, <2>0, <2>3, <3>1, <3>2, FitsEnd
  <2>4. CASE ~tool /\ ~thought
    <3>1. evs = <<>> /\ \A b : b \in Unended => b \in Unended'
      BY <1>7, <2>4
    <3> HIDE DEF evs
    <3> QED BY <2>0, <3>1, FitsNothing
  <2> QED BY <2>1, <2>2, <2>3, <2>4
<1>12. StaysWhole
  BY <1>2 DEF StaysWhole
<1>13. ASSUME mapper' = learnt, \A b : Closed(b)' => Closed(b) \/ Closes(evs, b) PROVE AnthropicAt'
  <2>1. \A b : Closed(b)' => \/ Closed(b)
                             \/ result /\ b = <<"tool", stream.use>>
                             \/ b = <<"thinking", i>>
    <3>1. \A b : Closes(evs, b) => (tool /\ result /\ b = <<"tool", stream.use>>) \/ b = <<"thinking", i>>
      <4>1. CASE tool
        <5>1. evs = <<BlockEvent(<<"tool", stream.use>>, 1, result)>> /\ result \in BOOLEAN
          BY <4>1
        <5> HIDE DEF evs, result
        <5> QED BY <1>10, <4>1, <5>1, EndsOf
      <4>2. CASE ~tool /\ thought
        <5>1. evs = <<BlockEvent(<<"thinking", i>>, 0, TRUE)>>
          BY <4>2
        <5> HIDE DEF evs, i
        <5> QED BY <1>10, <5>1, EndsOf
      <4>3. CASE ~tool /\ ~thought
        <5>1. evs = <<>>
          BY <4>3
        <5> HIDE DEF evs
        <5> QED BY <5>1, EndsOf
      <4> QED BY <4>1, <4>2, <4>3
    <3> HIDE DEF evs, tool, thought, result, i
    <3> QED BY <1>13, <3>1
  <2>2. \A j \in Anthropic!Index : Closed(<<"thinking", j>>)' => j < stream'.index
    <3>1. \A j \in Anthropic!Index : Closed(<<"thinking", j>>)' => Closed(<<"thinking", j>>) \/ j = i
      BY <2>1, AnthropicBlocks
    <3> QED BY <1>2, <1>3, <1>5, <3>1, AnthropicBlocks DEF AnthropicAt
  <2>3. \A u \in Use : Closed(<<"tool", u>>)' => u \in stream'.answered
    BY <1>2, <1>5, <2>1, AnthropicBlocks DEF AnthropicAt
  <2>4. stream'.answered \subseteq stream'.used
    BY <1>2, <1>3, <1>5 DEF AnthropicAt
  <2>5. sent'.finish = "none" /\ ~sent'.answered /\ ~mapper'.saw_terminal
    BY <1>1, <1>2, <1>6, <1>13 DEF AnthropicAt
  <2> QED BY <1>5, <2>2, <2>3, <2>4, <2>5 DEF AnthropicAt
<1> HIDE DEF evs, tool, thought, result, i
<1> QED BY <1>1, <1>2, <1>4, <1>5, <1>6, <1>11, <1>12, <1>13, AnthropicTakes

LEMMA AnthropicMessageDelta ==
    ASSUME TurnInv, AnthropicInv, provider = "anthropic", UNCHANGED provider,
           NEW finish \in Finish, NEW usage \in BOOLEAN, Anthropic!MessageDelta(finish, usage)
    PROVE  TurnInv' /\ AnthropicInv'
<1> DEFINE evs == IF finish # "none" \/ usage THEN <<Completion(finish)>> ELSE <<Status>>
           learnt == [mapper EXCEPT !.saw_terminal = @ \/ finish # "none"]
<1>1. /\ Waiting /\ stream.stage = "between"
      /\ finish = "complete" => stream.used = stream.answered
      /\ stream' = [stream EXCEPT !.stage = IF finish = "none" THEN @ ELSE "over"]
      /\ sent' = [sent EXCEPT !.finish = finish, !.answered = finish = "complete"]
      /\ Takes(evs) /\ mapper' = IF lease = "held" THEN learnt ELSE mapper
  <2> DEFINE e == [Anthropic!About("message_delta", stream.index) EXCEPT
                      !.finish = finish, !.usage = usage]
  <2>1. e.type = "message_delta" /\ e.finish = finish /\ e.usage = usage
    BY DEF Anthropic!About
  <2> HIDE DEF e
  <2>2. Anthropic!Mapped(e) = evs
    BY <2>1, ProvidersEvents DEF Anthropic!Mapped
  <2>3. Anthropic!Learnt(e) = learnt
    BY <2>1 DEF Anthropic!Learnt
  <2>4. Anthropic!Receives(e) => Takes(evs) /\ mapper' = IF lease = "held" THEN learnt ELSE mapper
    <3> HIDE DEF evs, learnt
    <3> QED BY <2>2, <2>3, AnthropicIsATurn DEF Anthropic!Receives
  <2>5. Anthropic!Receives(e)
    BY DEF e, Anthropic!MessageDelta
  <2> HIDE DEF evs, learnt
  <2> QED BY <2>4, <2>5, AnthropicIsATurn DEF Anthropic!MessageDelta
<1>2. /\ AnthropicAt /\ Blocks = AnthropicBlock /\ IsAnthropicMapper(mapper)
      /\ sent \in [text : Nat, answered : BOOLEAN, finish : Finish]
      /\ sent.text \in Nat /\ stream \in Anthropic!Stream
      /\ mapper.saw_visible => sent.text > 0
      /\ ~Answered
  BY <1>1, AnthropicKnows
<1>3. /\ stream' \in Anthropic!Stream /\ stream'.index = stream.index
      /\ stream'.stage = (IF finish = "none" THEN "between" ELSE "over")
      /\ stream'.used = stream.used /\ stream'.answered = stream.answered
  BY <1>1, <1>2 DEF Anthropic!Stream
<1>4. /\ sent' \in [text : Nat, answered : BOOLEAN, finish : Finish]
      /\ sent'.text = sent.text /\ sent'.answered = (finish = "complete") /\ sent'.finish = finish
  BY <1>1, <1>2
<1>5. /\ IsAnthropicMapper(learnt) /\ learnt.saw_visible = mapper.saw_visible
      /\ learnt.saw_terminal = (mapper.saw_terminal \/ finish # "none")
  BY <1>2 DEF IsAnthropicMapper
<1> HIDE DEF learnt
<1>6. /\ Unended' = Unended
      /\ Unended' \subseteq MayStayOpen'
  BY <1>1, <1>3 DEF Unended, MayStayOpen, Anthropic!Unanswered
<1>7. mapper' = learnt => Settled
  <2>1. ~mapper.saw_terminal
    BY <1>1, <1>2 DEF AnthropicAt
  <2> QED BY <1>2, <1>4, <1>5, <1>6, <2>1 DEF Settled
<1>8. finish = "complete" => Answered'
  BY <1>3, <1>4 DEF Answered, SaidAll
<1>9. mapper' = learnt => Fits(evs)
  <2>1. CASE finish # "none" \/ usage
    <3>1. /\ Completion(finish) \in Events /\ Completion(finish).kind = "completion"
          /\ Completion(finish).finish = finish
      BY EventsAre
    <3>2. Strong(Completion(finish)) => finish = "complete"
      BY <3>1 DEF Strong
    <3> QED BY <1>2, <1>4, <1>6, <1>7, <1>8, <2>1, <3>1, <3>2, FitsNote
  <2>2. CASE finish = "none" /\ ~usage
    <3>1. Status \in Events /\ Status.kind = "status" /\ ~Strong(Status)
      BY EventsAre DEF Strong
    <3>2. sent.finish = "none"
      BY <1>1, <1>2 DEF AnthropicAt
    <3> QED BY <1>2, <1>4, <1>6, <1>7, <2>2, <3>1, <3>2, FitsNote
  <2> QED BY <2>1, <2>2
<1>10. StaysWhole
  BY <1>2 DEF StaysWhole
<1>11. ASSUME mapper' = learnt, \A b : Closed(b)' => Closed(b) \/ Closes(evs, b) PROVE AnthropicAt'
  <2>1. \A b : ~Closes(evs, b)
    BY EndsOf, EventsAre
  <2>2. \A b : Closed(b)' => Closed(b)
    BY <1>11, <2>1
  <2>3. ~mapper.saw_terminal
    BY <1>1, <1>2 DEF AnthropicAt
  <2> QED BY <1>2, <1>3, <1>4, <1>5, <1>11, <2>2, <2>3 DEF AnthropicAt
<1> HIDE DEF evs
<1> QED BY <1>1, <1>3, <1>4, <1>5, <1>9, <1>10, <1>11, AnthropicTakes

\* Whatever Anthropic does.
LEMMA AnthropicKeeps ==
    ASSUME TurnInv, AnthropicInv, provider = "anthropic", UNCHANGED provider, Anthropic!Next
    PROVE  TurnInv' /\ AnthropicInv'
<1>1. CASE Anthropic!Provider
  BY <1>1, AnthropicMessageStart, AnthropicBlockStart, AnthropicBlockDelta, AnthropicBlockStop,
     AnthropicMessageDelta, AnthropicPing, ProvidersEvents DEF Anthropic!Provider
<1>2. CASE (Anthropic!TurnStep \/ Anthropic!Ends) /\ UNCHANGED <<mapper, stream>>
  <2>1. /\ UNCHANGED Provider
        /\ TurnStep \/ StreamEnds(mapper.saw_terminal /\ mapper.saw_visible)
    BY <1>2, AnthropicIsATurn DEF Provider
  <2> QED BY <2>1, TurnStepKeeps, LoopKeepsProvider
<1> QED BY <1>1, <1>2 DEF Anthropic!Next

-----------------------------------------------------------------------------
(* Flattened sequences *)

\* A solution of FlattenSeq's recursion is what it takes.
LEMMA FlattenTakesOne ==
    ASSUME NEW seqs, NEW g, Len(seqs) # 0,
           g = [i \in 1 .. Len(seqs) |-> IF i = 1 THEN seqs[i] ELSE g[i - 1] \o seqs[i]]
    PROVE  \E f : /\ f = [i \in 1 .. Len(seqs) |-> IF i = 1 THEN seqs[i] ELSE f[i - 1] \o seqs[i]]
                  /\ Vertex!FlattenSeq(seqs) = f[Len(seqs)]
<1> DEFINE Is(f) == f = [i \in 1 .. Len(seqs) |-> IF i = 1 THEN seqs[i] ELSE f[i - 1] \o seqs[i]]
           flatten == CHOOSE f : Is(f)
<1>1. Is(flatten)
  BY Zenon
<1>2. Vertex!FlattenSeq(seqs) = flatten[Len(seqs)]
  BY Zenon DEF Vertex!FlattenSeq
<1> QED BY <1>1, <1>2

\* Every set of naturals has a least one.
Below == {p \in Nat \X Nat : p[1] < p[2]}

LEMMA HasLeast ==
    ASSUME NEW T \in SUBSET Nat, T # {}
    PROVE  \E x \in T : \A y \in T : x <= y
<1>1. IsWellFoundedOn(Below, Nat)
  BY NatLessThanWellFounded DEF OpToRel, Below
<1>2. PICK x \in T : \A y \in T : ~ (<<y, x>> \in Below)
  BY <1>1, WFMin
<1>3. ASSUME NEW y \in T PROVE x <= y
  <2>1. ~(y < x)
    BY <1>2 DEF Below
  <2> QED BY <2>1
<1> QED BY <1>3

\* Concatenation of n sequences over S, one after the other.
Flattens(f, seqs, n, S) ==
    /\ f \in [1 .. n -> Seq(S)]
    /\ \A i \in 1 .. n : f[i] = IF i = 1 THEN seqs[i] ELSE f[i - 1] \o seqs[i]
    /\ Vertex!FlattenSeq(seqs) = f[n]

\* The recursion has a solution.
LEMMA FlattenIs ==
    ASSUME NEW S, NEW n \in Nat, n # 0, NEW seqs \in [1 .. n -> Seq(S)]
    PROVE  \E f : Flattens(f, seqs, n, S)
<1> SUFFICES \E f \in [1 .. n -> Seq(S)] :
                /\ \A i \in 1 .. n : f[i] = IF i = 1 THEN seqs[i] ELSE f[i - 1] \o seqs[i]
                /\ Vertex!FlattenSeq(seqs) = f[n]
  BY DEF Flattens
<1> DEFINE Next1(g, i) == IF i = 1 THEN seqs[i] ELSE g[i - 1] \o seqs[i]
           Solves(g, k) == \A i \in 1 .. k : g[i] = Next1(g, i)
           Unsolved == {k \in 1 .. n : ~ \E g \in [1 .. k -> Seq(S)] : Solves(g, k)}
<1>1. Unsolved = {}
  <2> SUFFICES ASSUME Unsolved # {} PROVE FALSE
    OBVIOUS
  <2>1. PICK k \in Unsolved : \A j \in Unsolved : k <= j
    <3>1. Unsolved \in SUBSET Nat
      OBVIOUS
    <3> HIDE DEF Unsolved
    <3> QED BY <3>1, HasLeast
  <2>2. k \in 1 .. n /\ ~ \E g \in [1 .. k -> Seq(S)] : Solves(g, k)
    BY <2>1
  <2>3. CASE k = 1
    <3>1. [i \in 1 .. 1 |-> seqs[1]] \in [1 .. k -> Seq(S)]
      BY <2>2, <2>3
    <3>2. Solves([i \in 1 .. 1 |-> seqs[1]], k)
      BY <2>3
    <3> QED BY <2>2, <3>1, <3>2
  <2>4. CASE k # 1
    <3>1. k - 1 \in 1 .. n /\ k - 1 \notin Unsolved
      <4>1. k - 1 \in 1 .. n /\ ~(k <= k - 1)
        BY <2>2, <2>4
      <4> HIDE DEF Unsolved
      <4> QED BY <2>1, <4>1
    <3>2. PICK g \in [1 .. k - 1 -> Seq(S)] : Solves(g, k - 1)
      BY <3>1
    <3> DEFINE last == g[k - 1] \o seqs[k]
               h == [i \in 1 .. k |-> IF i = k THEN last ELSE g[i]]
    <3>3. g[k - 1] \in Seq(S) /\ seqs[k] \in Seq(S)
      BY <2>2, <3>1
    <3>4. last \in Seq(S)
      BY <3>3, ConcatProperties
    <3> HIDE DEF last
    <3>5. h \in [1 .. k -> Seq(S)]
      BY <2>2, <3>4
    <3>6. h[k] = last /\ \A i \in 1 .. k - 1 : h[i] = g[i]
      BY <2>2
    <3> HIDE DEF h
    <3>7. ASSUME NEW i \in 1 .. k PROVE h[i] = Next1(h, i)
      <4>1. CASE i = k
        <5>1. h[k - 1] = g[k - 1]
          BY <2>2, <2>4, <3>6
        <5> QED BY <2>4, <3>6, <4>1, <5>1 DEF last
      <4>2. CASE i # k
        <5>1. i \in 1 .. k - 1 /\ (i # 1 => i - 1 \in 1 .. k - 1)
          BY <2>2, <4>2
        <5>2. g[i] = Next1(g, i)
          <6> HIDE DEF Next1
          <6> QED BY <3>2, <5>1
        <5>3. h[i] = g[i] /\ (i # 1 => h[i - 1] = g[i - 1])
          BY <3>6, <5>1
        <5> QED BY <5>2, <5>3
      <4> QED BY <4>1, <4>2
    <3>8. Solves(h, k)
      <4> HIDE DEF Next1
      <4> QED BY <3>7
    <3> HIDE DEF Solves
    <3> QED BY <2>2, <3>5, <3>8
  <2> QED BY <2>3, <2>4
<1>2. Len(seqs) = n /\ Len(seqs) # 0
  BY LenProperties
<1>3. n \in 1 .. n
  OBVIOUS
<1>4. PICK g \in [1 .. n -> Seq(S)] : Solves(g, n)
  BY <1>1, <1>3
<1>5. g = [i \in 1 .. Len(seqs) |-> IF i = 1 THEN seqs[i] ELSE g[i - 1] \o seqs[i]]
  BY <1>2, <1>4
<1>6. PICK f : /\ f = [i \in 1 .. Len(seqs) |-> IF i = 1 THEN seqs[i] ELSE f[i - 1] \o seqs[i]]
               /\ Vertex!FlattenSeq(seqs) = f[Len(seqs)]
  BY <1>2, <1>5, FlattenTakesOne
<1>7. DOMAIN f = 1 .. n /\ \A i \in 1 .. n : f[i] = Next1(f, i)
  BY <1>2, <1>6
<1>8. \A i \in 1 .. n : f[i] \in Seq(S)
  <2> DEFINE Wrong == {i \in 1 .. n : f[i] \notin Seq(S)}
  <2> SUFFICES ASSUME Wrong # {} PROVE FALSE
    OBVIOUS
  <2>1. PICK k \in Wrong : \A j \in Wrong : k <= j
    <3>1. Wrong \in SUBSET Nat
      OBVIOUS
    <3> HIDE DEF Wrong
    <3> QED BY <3>1, HasLeast
  <2>2. CASE k = 1
    BY <1>7, <2>1, <2>2
  <2>3. CASE k # 1
    <3>1. k - 1 \in 1 .. n /\ f[k - 1] \in Seq(S) /\ seqs[k] \in Seq(S)
      BY <2>1, <2>3
    <3>2. f[k] = f[k - 1] \o seqs[k]
      BY <1>7, <2>1, <2>3
    <3>3. f[k - 1] \o seqs[k] \in Seq(S)
      BY <3>1, ConcatProperties
    <3> QED BY <2>1, <3>2, <3>3
  <2> QED BY <2>2, <2>3
<1>9. f \in [1 .. n -> Seq(S)]
  BY <1>6, <1>7, <1>8, <1>2
<1> QED BY <1>2, <1>6, <1>7, <1>9

\* The events of two sequences, one after the other.
LEMMA Concat ==
    ASSUME NEW s \in Seq(Events), NEW t \in Seq(Events)
    PROVE  /\ s \o t \in Seq(Events)
           /\ Answers(s \o t) = Answers(s) + Answers(t)
           /\ \A b : /\ Tells(s \o t, b) <=> Tells(s, b) \/ Tells(t, b)
                     /\ Closes(s \o t, b) <=> Closes(s, b) \/ Closes(t, b)
           /\ \A i \in DOMAIN (s \o t) : \/ \E j \in DOMAIN s : (s \o t)[i] = s[j]
                                         \/ \E j \in DOMAIN t : (s \o t)[i] = t[j]
           /\ \A j \in DOMAIN s : \E i \in DOMAIN (s \o t) : (s \o t)[i] = s[j]
           /\ \A j \in DOMAIN t : \E i \in DOMAIN (s \o t) : (s \o t)[i] = t[j]
           /\ /\ Orderly(s) /\ Orderly(t)
              /\ \A i \in DOMAIN s, j \in DOMAIN t :
                    /\ s[i].kind = "block" /\ s[i].ends => ~IsOf(t[j], s[i].block)
                    /\ Strong(s[i]) => t[j].kind # "answer"
              => Orderly(s \o t)
<1> DEFINE u == s \o t
           n == Len(s)
           m == Len(t)
<1>1. /\ u \in Seq(Events) /\ n \in Nat /\ m \in Nat
      /\ DOMAIN s = 1 .. n /\ DOMAIN t = 1 .. m /\ DOMAIN u = 1 .. n + m
      /\ \A i \in 1 .. n + m : u[i] = IF i <= n THEN s[i] ELSE t[i - n]
  <2>1. u \in Seq(Events) /\ Len(u) = n + m
        /\ \A i \in 1 .. n + m : u[i] = IF i <= n THEN s[i] ELSE t[i - n]
    BY ConcatProperties
  <2> QED BY <2>1, LenProperties
<1> HIDE DEF u, n, m
<1>2. \A i \in 1 .. n : i \in 1 .. n + m /\ u[i] = s[i]
  BY <1>1
<1>3. \A j \in 1 .. m : j + n \in 1 .. n + m /\ u[j + n] = t[j]
  BY <1>1
<1>4. \A i \in 1 .. n + m : i \in 1 .. n \/ (i - n \in 1 .. m /\ (i - n) + n = i)
  BY <1>1
<1>5. \A i \in 1 .. n + m : \/ \E j \in 1 .. n : u[i] = s[j] /\ i = j
                            \/ \E j \in 1 .. m : u[i] = t[j] /\ i = j + n
  BY <1>2, <1>3, <1>4
<1>6. Answers(u) = Answers(s) + Answers(t)
  <2> DEFINE Later == {j + n : j \in AnswersOf(t)}
             f == [j \in AnswersOf(t) |-> j + n]
  <2>1. AnswersOf(u) = AnswersOf(s) \cup Later
    <3>1. ASSUME NEW i \in AnswersOf(u) PROVE i \in AnswersOf(s) \cup Later
      <4>1. i \in 1 .. n + m /\ u[i].kind = "answer"
        BY <1>1, <3>1 DEF AnswersOf
      <4>2. CASE \E j \in 1 .. n : u[i] = s[j] /\ i = j
        BY <1>1, <4>1, <4>2 DEF AnswersOf
      <4>3. CASE \E j \in 1 .. m : u[i] = t[j] /\ i = j + n
        BY <1>1, <4>1, <4>3 DEF AnswersOf
      <4> QED BY <1>5, <4>1, <4>2, <4>3
    <3>2. ASSUME NEW i \in AnswersOf(s) PROVE i \in AnswersOf(u)
      BY <1>1, <1>2 DEF AnswersOf
    <3>3. ASSUME NEW j \in AnswersOf(t) PROVE j + n \in AnswersOf(u)
      BY <1>1, <1>3 DEF AnswersOf
    <3> QED BY <3>1, <3>2, <3>3
  <2>2. AnswersOf(s) \cap Later = {}
    BY <1>1 DEF AnswersOf
  <2>3. \A j \in AnswersOf(t) : j \in Nat
    BY <1>1 DEF AnswersOf
  <2>4. f \in Bijection(AnswersOf(t), Later)
    <3>1. f \in Injection(AnswersOf(t), Later)
      <4>1. f \in [AnswersOf(t) -> Later]
        OBVIOUS
      <4>2. \A j, k \in AnswersOf(t) : j + n = k + n => j = k
        BY <1>1, <2>3
      <4>3. IsInjective(f)
        BY <4>2 DEF IsInjective
      <4> QED BY <4>1, <4>3 DEF Injection
    <3>2. f \in Surjection(AnswersOf(t), Later)
      BY <3>1 DEF Surjection, Injection
    <3> QED BY <3>1, <3>2 DEF Bijection
  <2>5. /\ IsFiniteSet(AnswersOf(s)) /\ Answers(s) \in Nat
        /\ IsFiniteSet(AnswersOf(t)) /\ Answers(t) \in Nat
    BY AnswersAreFinite
  <2>6. IsFiniteSet(Later) /\ Cardinality(Later) = Answers(t)
    <3>1. ExistsBijection(AnswersOf(t), Later)
      BY <2>4 DEF ExistsBijection
    <3> HIDE DEF Later, f
    <3> QED BY <2>5, <3>1, FS_Bijection DEF Answers
  <2> HIDE DEF Later, f
  <2>7. Cardinality(AnswersOf(s) \cap Later) = 0
    BY <2>2, FS_EmptySet
  <2>8. Cardinality(AnswersOf(u)) = Answers(s) + Answers(t) - 0
    BY <2>1, <2>5, <2>6, <2>7, FS_Union DEF Answers
  <2> QED BY <2>5, <2>8 DEF Answers
<1>9. /\ \A i \in DOMAIN u : \/ \E j \in DOMAIN s : u[i] = s[j]
                             \/ \E j \in DOMAIN t : u[i] = t[j]
      /\ \A j \in DOMAIN s : \E i \in DOMAIN u : u[i] = s[j]
      /\ \A j \in DOMAIN t : \E i \in DOMAIN u : u[i] = t[j]
  BY <1>1, <1>2, <1>3, <1>5
<1>7. \A b : /\ Tells(u, b) <=> Tells(s, b) \/ Tells(t, b)
             /\ Closes(u, b) <=> Closes(s, b) \/ Closes(t, b)
  <2>1. ASSUME NEW b PROVE Tells(u, b) <=> Tells(s, b) \/ Tells(t, b)
    BY <1>9 DEF Tells
  <2>2. ASSUME NEW b PROVE Closes(u, b) <=> Closes(s, b) \/ Closes(t, b)
    BY <1>9 DEF Closes
  <2> QED BY <2>1, <2>2
<1>8. ASSUME Orderly(s), Orderly(t),
             \A i \in DOMAIN s, j \in DOMAIN t :
                /\ s[i].kind = "block" /\ s[i].ends => ~IsOf(t[j], s[i].block)
                /\ Strong(s[i]) => t[j].kind # "answer"
      PROVE  Orderly(u)
  <2>1. \A i \in DOMAIN u : u[i].kind = "block" => u[i].block \in Blocks
    <3>1. \A j \in 1 .. n : s[j].kind = "block" => s[j].block \in Blocks
      BY <1>1, <1>8 DEF Orderly
    <3>2. \A j \in 1 .. m : t[j].kind = "block" => t[j].block \in Blocks
      BY <1>1, <1>8 DEF Orderly
    <3> SUFFICES ASSUME NEW i \in 1 .. n + m, u[i].kind = "block" PROVE u[i].block \in Blocks
      BY <1>1
    <3>3. CASE \E j \in 1 .. n : u[i] = s[j]
      BY <3>1, <3>3
    <3>4. CASE \E j \in 1 .. m : u[i] = t[j]
      BY <3>2, <3>4
    <3> QED BY <1>5, <3>3, <3>4
  <2>2. ASSUME NEW i \in DOMAIN u, NEW j \in DOMAIN u, i < j
        PROVE  /\ u[i].kind = "block" /\ u[i].ends => ~IsOf(u[j], u[i].block)
               /\ Strong(u[i]) => u[j].kind # "answer"
    <3>1. CASE i \in 1 .. n /\ j \in 1 .. n
      <4>1. u[i] = s[i] /\ u[j] = s[j]
        BY <1>2, <3>1
      <4> QED BY <1>1, <1>8, <2>2, <3>1, <4>1 DEF Orderly
    <3>2. CASE i \in 1 .. n /\ j - n \in 1 .. m
      <4>1. u[i] = s[i] /\ u[j] = t[j - n]
        BY <1>1, <1>2, <1>3, <3>2
      <4>2. i \in DOMAIN s /\ j - n \in DOMAIN t
        BY <1>1, <3>2
      <4>3. /\ s[i].kind = "block" /\ s[i].ends => ~IsOf(t[j - n], s[i].block)
            /\ Strong(s[i]) => t[j - n].kind # "answer"
        BY <1>8, <4>2
      <4> QED BY <4>1, <4>3
    <3>3. CASE i - n \in 1 .. m /\ j - n \in 1 .. m
      <4>1. u[i] = t[i - n] /\ u[j] = t[j - n] /\ i - n < j - n
        BY <1>1, <1>3, <2>2, <3>3
      <4>2. i - n \in DOMAIN t /\ j - n \in DOMAIN t
        BY <1>1, <3>3
      <4> QED BY <1>8, <4>1, <4>2 DEF Orderly
    <3>4. ~(i - n \in 1 .. m /\ j \in 1 .. n)
      BY <1>1, <2>2
    <3> QED BY <1>1, <1>4, <3>1, <3>2, <3>3, <3>4
  <2> QED BY <2>1, <2>2 DEF Orderly
<1> QED BY <1>1, <1>6, <1>7, <1>8, <1>9 DEF u

-----------------------------------------------------------------------------
(* Vertex AI *)

LEMMA VertexBlocks ==
    /\ \A o \in Vertex!Ordinal, n \in 1 .. MaxChunkParts : <<"thought", o, n>> \in VertexBlock
    /\ Vertex!ToolBlock \in VertexBlock
    /\ \A o, n : <<"thought", o, n>> # Vertex!ToolBlock
    /\ \A o, p, n, k : <<"thought", o, n>> = <<"thought", p, k>> => o = p /\ n = k
BY DEF VertexBlock, Vertex!Ordinal, Vertex!ToolBlock

\* What is made of the first k parts of a chunk.
MapsParts(s, c, k) ==
    /\ s \in Seq(Events) /\ Orderly(s)
    /\ \A i \in DOMAIN s : \/ s[i].kind = "answer"
                           \/ s[i].kind = "block" /\ \E n \in 1 .. k : s[i].block = Vertex!ThoughtId(n)
    /\ \A b : Tells(s, b) => Closes(s, b)
    /\ Answers(s) = Cardinality({n \in 1 .. k : c.parts[n] = "text"})

\* What is made of one.
LEMMA PartIs ==
    ASSUME provider = "vertex", mapper.chunk_ordinal \in Vertex!Ordinal,
           NEW c, NEW n \in 1 .. MaxChunkParts
    PROVE  LET s == Vertex!MappedPart(c, n)
           IN  /\ s \in Seq(Events) /\ Orderly(s)
               /\ \A i \in DOMAIN s : \/ s[i].kind = "answer"
                                      \/ s[i].kind = "block" /\ s[i].block = Vertex!ThoughtId(n)
               /\ \A b : Tells(s, b) => Closes(s, b)
               /\ Answers(s) = IF c.parts[n] = "text" THEN 1 ELSE 0
<1> DEFINE s == Vertex!MappedPart(c, n)
           b0 == Vertex!ThoughtId(n)
<1>1. b0 \in Blocks
  BY VertexBlocks DEF Blocks, Vertex!ThoughtId
<1>2. CASE c.parts[n] = "thought"
  <2> DEFINE x == BlockEvent(b0, 1, FALSE)
             y == BlockEvent(b0, 0, TRUE)
  <2>1. /\ x \in Events /\ x.kind = "block" /\ x.block = b0 /\ ~x.ends /\ ~Strong(x)
        /\ y \in Events /\ y.kind = "block" /\ y.block = b0 /\ y.ends /\ ~Strong(y)
    BY <1>1 DEF BlockEvent, Status, Events, Strong, Finish
  <2>2. s = <<x, y>>
    BY <1>2, ProvidersEvents DEF Vertex!MappedPart, Vertex!Thought
  <2> HIDE DEF x, y, b0, s
  <2>3. s \in Seq(Events) /\ DOMAIN s = {1, 2} /\ s[1] = x /\ s[2] = y
    BY <2>1, <2>2
  <2>4. Orderly(s)
    BY <1>1, <2>1, <2>3 DEF Orderly
  <2>5. \A b : Tells(s, b) => Closes(s, b)
    BY <2>1, <2>3 DEF Tells, Closes, IsOf
  <2>6. Answers(s) = 0
    <3>1. AnswersOf(s) = {}
      BY <2>1, <2>3 DEF AnswersOf
    <3> QED BY <3>1, FS_EmptySet DEF Answers
  <2> QED BY <1>2, <2>1, <2>3, <2>4, <2>5, <2>6 DEF s, b0
<1>3. CASE c.parts[n] = "text"
  <2>1. s = <<Answer>>
    BY <1>3, ProvidersEvents DEF Vertex!MappedPart
  <2>2. Answer \in Events /\ Answer.kind = "answer" /\ \A b : ~IsOf(Answer, b)
    BY EventsAre DEF IsOf
  <2>3. DOMAIN <<Answer>> = {1} /\ <<Answer>>[1] = Answer
    OBVIOUS
  <2> QED BY <1>3, <2>1, <2>2, <2>3, OneEvent
<1>4. CASE c.parts[n] \notin {"thought", "text"}
  <2>1. s = <<>>
    BY <1>4 DEF Vertex!MappedPart
  <2> QED BY <1>4, <2>1, NoEvent
<1> QED BY <1>2, <1>3, <1>4

\* What is made of one part more.
LEMMA PartMore ==
    ASSUME provider = "vertex", mapper.chunk_ordinal \in Vertex!Ordinal,
           NEW c, NEW k \in Nat, k + 1 \in 1 .. MaxChunkParts, NEW s, MapsParts(s, c, k)
    PROVE  MapsParts(s \o Vertex!MappedPart(c, k + 1), c, k + 1)
<1> DEFINE t == Vertex!MappedPart(c, k + 1)
           Texts(n) == {i \in 1 .. n : c.parts[i] = "text"}
<1>1. /\ t \in Seq(Events) /\ Orderly(t)
      /\ \A i \in DOMAIN t : \/ t[i].kind = "answer"
                             \/ t[i].kind = "block" /\ t[i].block = Vertex!ThoughtId(k + 1)
      /\ \A b : Tells(t, b) => Closes(t, b)
      /\ Answers(t) = IF c.parts[k + 1] = "text" THEN 1 ELSE 0
  BY PartIs
<1> HIDE DEF t
<1>2. /\ s \in Seq(Events) /\ Orderly(s)
      /\ \A i \in DOMAIN s : \/ s[i].kind = "answer"
                             \/ s[i].kind = "block" /\ \E n \in 1 .. k : s[i].block = Vertex!ThoughtId(n)
      /\ \A b : Tells(s, b) => Closes(s, b)
      /\ Answers(s) = Cardinality(Texts(k))
  BY DEF MapsParts
<1>3. \A n \in 1 .. k : n \in 1 .. k + 1 /\ n # k + 1
  OBVIOUS
<1>4. \A n : Vertex!ThoughtId(n) = Vertex!ThoughtId(k + 1) => n = k + 1
  BY VertexBlocks DEF Vertex!ThoughtId
<1>5. \A i \in DOMAIN s, j \in DOMAIN t :
         /\ s[i].kind = "block" /\ s[i].ends => ~IsOf(t[j], s[i].block)
         /\ Strong(s[i]) => t[j].kind # "answer"
  BY <1>1, <1>2, <1>3, <1>4 DEF IsOf, Strong
<1>6. /\ s \o t \in Seq(Events) /\ Orderly(s \o t)
      /\ Answers(s \o t) = Answers(s) + Answers(t)
      /\ \A b : Tells(s \o t, b) => Closes(s \o t, b)
      /\ \A i \in DOMAIN (s \o t) : \/ \E j \in DOMAIN s : (s \o t)[i] = s[j]
                                    \/ \E j \in DOMAIN t : (s \o t)[i] = t[j]
  BY <1>1, <1>2, <1>5, Concat
<1>7. \A i \in DOMAIN (s \o t) :
         \/ (s \o t)[i].kind = "answer"
         \/ /\ (s \o t)[i].kind = "block"
            /\ \E n \in 1 .. k + 1 : (s \o t)[i].block = Vertex!ThoughtId(n)
  <2>1. k + 1 \in 1 .. k + 1
    OBVIOUS
  <2> SUFFICES ASSUME NEW i \in DOMAIN (s \o t)
               PROVE  \/ (s \o t)[i].kind = "answer"
                      \/ /\ (s \o t)[i].kind = "block"
                         /\ \E n \in 1 .. k + 1 : (s \o t)[i].block = Vertex!ThoughtId(n)
    OBVIOUS
  <2> DEFINE e == (s \o t)[i]
  <2>2. CASE \E j \in DOMAIN s : e = s[j]
    <3>1. PICK j \in DOMAIN s : e = s[j]
      BY <2>2
    <3> HIDE DEF e
    <3> QED BY <1>2, <1>3, <3>1 DEF e
  <2>3. CASE \E j \in DOMAIN t : e = t[j]
    <3>1. PICK j \in DOMAIN t : e = t[j]
      BY <2>3
    <3> HIDE DEF e
    <3> QED BY <1>1, <2>1, <3>1 DEF e
  <2> QED BY <1>6, <2>2, <2>3
<1>8. Cardinality(Texts(k + 1)) = Cardinality(Texts(k)) + Answers(t)
  <2>1. Texts(k + 1) = IF c.parts[k + 1] = "text" THEN Texts(k) \cup {k + 1} ELSE Texts(k)
    OBVIOUS
  <2>2. IsFiniteSet(Texts(k)) /\ Cardinality(Texts(k)) \in Nat
    <3>1. IsFiniteSet(1 .. k) /\ Texts(k) \subseteq 1 .. k
      BY FS_Interval
    <3> QED BY <3>1, FS_Subset, FS_CardinalityType
  <2>3. k + 1 \notin Texts(k)
    OBVIOUS
  <2> HIDE DEF Texts
  <2>4. Cardinality(Texts(k) \cup {k + 1}) = Cardinality(Texts(k)) + 1
    BY <2>2, <2>3, FS_AddElement
  <2> QED BY <1>1, <2>1, <2>2, <2>4
<1>9. Answers(s \o t) = Cardinality(Texts(k + 1))
  BY <1>2, <1>6, <1>8
<1> HIDE DEF t
<1> QED BY <1>6, <1>7, <1>9 DEF MapsParts, t

\* What is made of them all.
LEMMA PartsAre ==
    ASSUME provider = "vertex", mapper.chunk_ordinal \in Vertex!Ordinal,
           NEW n \in 0 .. MaxChunkParts, NEW c, c.parts \in [1 .. n -> Vertex!Part]
    PROVE  MapsParts(Vertex!FlattenSeq([i \in DOMAIN c.parts |-> Vertex!MappedPart(c, i)]), c, n)
<1> DEFINE seqs == [i \in DOMAIN c.parts |-> Vertex!MappedPart(c, i)]
<1>1. n \in Nat /\ n <= MaxChunkParts /\ MaxChunkParts \in Nat /\ DOMAIN c.parts = 1 .. n
  BY StreamsAssumption
<1>2. MapsParts(<<>>, c, 0)
  <2>1. {i \in 1 .. 0 : c.parts[i] = "text"} = {}
    OBVIOUS
  <2>2. Cardinality({i \in 1 .. 0 : c.parts[i] = "text"}) = 0
    BY <2>1, FS_EmptySet
  <2> QED BY <2>2, NoEvent DEF MapsParts
<1>3. CASE n = 0
  <2>1. seqs = <<>> /\ Len(<<>>) = 0
    BY <1>1, <1>3
  <2>2. Vertex!FlattenSeq(<<>>) = <<>>
    BY <2>1 DEF Vertex!FlattenSeq
  <2> QED BY <1>2, <1>3, <2>1, <2>2
<1>4. CASE n # 0
  <2>1. seqs \in [1 .. n -> Seq(Events)]
    <3>1. \A i \in 1 .. n : i \in 1 .. MaxChunkParts
      BY <1>1
    <3>2. \A i \in 1 .. n : Vertex!MappedPart(c, i) \in Seq(Events)
      BY <3>1, PartIs
    <3> QED BY <1>1, <3>2
  <2>2. \A i \in 1 .. n : seqs[i] = Vertex!MappedPart(c, i)
    BY <1>1
  <2> HIDE DEF seqs
  <2>3. PICK f : Flattens(f, seqs, n, Events)
    <3>1. n \in Nat /\ n # 0
      BY <1>1, <1>4
    <3> QED BY <2>1, <3>1, FlattenIs, Zenon
  <2>4. /\ \A i \in 1 .. n : f[i] = IF i = 1 THEN seqs[i] ELSE f[i - 1] \o seqs[i]
        /\ Vertex!FlattenSeq(seqs) = f[n]
    BY <2>3 DEF Flattens
  <2> DEFINE Wrong == {i \in 1 .. n : ~MapsParts(f[i], c, i)}
  <2>5. Wrong = {}
    <3> SUFFICES ASSUME Wrong # {} PROVE FALSE
      OBVIOUS
    <3>1. PICK k \in Wrong : \A j \in Wrong : k <= j
      <4>1. Wrong \in SUBSET Nat
        OBVIOUS
      <4> HIDE DEF Wrong
      <4> QED BY <4>1, HasLeast
    <3>2. k \in 1 .. n /\ ~MapsParts(f[k], c, k)
      BY <3>1
    <3>3. k - 1 \in Nat /\ (k - 1) + 1 = k /\ (k - 1) + 1 \in 1 .. MaxChunkParts
      BY <1>1, <3>2
    <3>4. CASE k = 1
      <4>1. f[k] = Vertex!MappedPart(c, 1)
        BY <2>2, <2>4, <3>2, <3>4
      <4>2. Vertex!MappedPart(c, 1) \in Seq(Events)
        BY <2>1, <2>2, <3>2, <3>4
      <4>3. <<>> \o Vertex!MappedPart(c, 1) = Vertex!MappedPart(c, 1)
        BY <4>2, ConcatEmptySeq
      <4>4. MapsParts(<<>> \o Vertex!MappedPart(c, 0 + 1), c, 0 + 1)
        <5>1. 0 \in Nat /\ 0 + 1 \in 1 .. MaxChunkParts
          BY <3>3, <3>4
        <5> QED BY <1>2, <5>1, PartMore, Zenon
      <4> QED BY <3>2, <3>4, <4>1, <4>3, <4>4
    <3>5. CASE k # 1
      <4>1. k - 1 \in 1 .. n /\ ~(k <= k - 1)
        BY <3>2, <3>5
      <4>2. MapsParts(f[k - 1], c, k - 1)
        BY <3>1, <4>1
      <4>3. f[k] = f[k - 1] \o Vertex!MappedPart(c, k)
        BY <2>2, <2>4, <3>2, <3>5
      <4>4. MapsParts(f[k - 1] \o Vertex!MappedPart(c, (k - 1) + 1), c, (k - 1) + 1)
        BY <3>3, <4>2, PartMore
      <4> QED BY <3>2, <3>3, <4>3, <4>4
    <3> QED BY <3>4, <3>5
  <2>6. MapsParts(f[n], c, n)
    BY <1>1, <1>4, <2>5
  <2> QED BY <2>4, <2>6 DEF seqs
<1> QED BY <1>3, <1>4

\* What is made of a whole chunk: thoughts that start and end with it, the tools' block,
\* the text, and last the completion with the chunk's reason.
LEMMA ChunkIs ==
    ASSUME provider = "vertex", mapper.chunk_ordinal \in Vertex!Ordinal,
           NEW n \in 0 .. MaxChunkParts, NEW c, c.parts \in [1 .. n -> Vertex!Part],
           c.finish \in Finish, c.tool \in BOOLEAN
    PROVE  LET s == Vertex!Mapped(c)
           IN  /\ s \in Seq(Events) /\ Orderly(s)
               /\ \A i \in DOMAIN s : s[i].kind = "block" =>
                     \/ s[i].block = Vertex!ToolBlock
                     \/ \E k \in 1 .. n : s[i].block = Vertex!ThoughtId(k)
               /\ \A b : Tells(s, b) => Closes(s, b) \/ b = Vertex!ToolBlock
               /\ Closes(s, Vertex!ToolBlock) => c.finish # "none"
               /\ Answers(s) = Cardinality({k \in DOMAIN c.parts : c.parts[k] = "text"})
               /\ Concludes(s, c.finish)
               /\ Completed(s) \/ c.finish = "none"
               /\ (\E i \in DOMAIN s : Strong(s[i])) => c.finish = "complete"
<1> DEFINE P == Vertex!FlattenSeq([k \in DOMAIN c.parts |-> Vertex!MappedPart(c, k)])
           T == Vertex!MappedTool(c)
           L == IF Vertex!CompletesWith(c) THEN <<Completion(c.finish)>> ELSE <<>>
           A == Cardinality({k \in DOMAIN c.parts : c.parts[k] = "text"})
<1>1. Vertex!Mapped(c) = ((P \o T) \o <<Status>>) \o L
  BY ProvidersEvents DEF Vertex!Mapped
<1>2. /\ P \in Seq(Events) /\ Orderly(P)
      /\ \A i \in DOMAIN P : \/ P[i].kind = "answer"
                             \/ /\ P[i].kind = "block"
                                /\ \E k \in 1 .. n : P[i].block = Vertex!ThoughtId(k)
      /\ \A b : Tells(P, b) => Closes(P, b)
      /\ Answers(P) = A /\ A \in Nat
  <2>1. MapsParts(P, c, n)
    BY PartsAre
  <2>2. {k \in 1 .. n : c.parts[k] = "text"} = {k \in DOMAIN c.parts : c.parts[k] = "text"}
    OBVIOUS
  <2>3. P \in Seq(Events)
    BY <2>1 DEF MapsParts
  <2>4. Answers(P) \in Nat
    BY <2>3, AnswersAreFinite
  <2> HIDE DEF P
  <2> QED BY <2>1, <2>2, <2>4 DEF MapsParts
<1>3. /\ T \in Seq(Events) /\ Orderly(T) /\ Answers(T) = 0
      /\ \A i \in DOMAIN T : T[i].kind = "block" /\ T[i].block = Vertex!ToolBlock
      /\ \A b : /\ Tells(T, b) => b = Vertex!ToolBlock
                /\ Closes(T, b) => b = Vertex!ToolBlock /\ c.finish # "none"
  <2>1. CASE c.tool
    <3> DEFINE e == BlockEvent(Vertex!ToolBlock, 1, c.finish # "none")
    <3>1. T = <<e>>
      BY <2>1, ProvidersEvents DEF Vertex!MappedTool, Vertex!EndsTool
    <3>2. /\ e \in Events /\ e.kind = "block" /\ e.block = Vertex!ToolBlock
          /\ e.ends = (c.finish # "none") /\ \A b : IsOf(e, b) <=> b = Vertex!ToolBlock
      <4>1. Vertex!ToolBlock \in Blocks
        BY VertexBlocks DEF Blocks
      <4>2. PICK ends \in BOOLEAN : ends = (c.finish # "none")
        OBVIOUS
      <4>3. e = BlockEvent(Vertex!ToolBlock, 1, ends)
        BY <4>2
      <4>4. e \in Events /\ e.kind = "block" /\ e.block = Vertex!ToolBlock /\ e.ends = ends
            /\ \A b : IsOf(e, b) <=> b = Vertex!ToolBlock
        <5> DEFINE d == BlockEvent(Vertex!ToolBlock, 1, ends)
        <5>1. /\ d \in Events /\ d.kind = "block" /\ d.block = Vertex!ToolBlock /\ d.ends = ends
              /\ \A b : IsOf(d, b) <=> b = Vertex!ToolBlock
          BY <4>1, BlockEventIs
        <5> HIDE DEF e
        <5> QED BY <4>3, <5>1
      <4> HIDE DEF e
      <4> QED BY <4>2, <4>4
    <3>3. Vertex!ToolBlock \in Blocks
      BY VertexBlocks DEF Blocks
    <3>4. DOMAIN <<e>> = {1} /\ <<e>>[1] = e
      OBVIOUS
    <3> HIDE DEF e, T
    <3>5. /\ <<e>> \in Seq(Events) /\ Orderly(<<e>>) /\ Answers(<<e>>) = 0
          /\ \A b : (Tells(<<e>>, b) <=> IsOf(e, b)) /\ (Closes(<<e>>, b) <=> IsOf(e, b) /\ e.ends)
      BY <3>2, <3>3, OneEvent
    <3>6. \A i \in DOMAIN T : T[i] = e
      BY <3>1, <3>4
    <3> QED BY <3>1, <3>2, <3>5, <3>6
  <2>2. CASE ~c.tool
    <3>1. T = <<>>
      BY <2>2 DEF Vertex!MappedTool
    <3> QED BY <3>1, NoEvent
  <2> QED BY <2>1, <2>2
<1>4. /\ <<Status>> \in Seq(Events) /\ Orderly(<<Status>>) /\ Answers(<<Status>>) = 0
      /\ \A i \in DOMAIN <<Status>> : <<Status>>[i] = Status
      /\ \A b : ~Tells(<<Status>>, b) /\ ~Closes(<<Status>>, b)
  <2>1. Status \in Events /\ Status.kind = "status" /\ \A b : ~IsOf(Status, b)
    BY EventsAre DEF IsOf
  <2> QED BY <2>1, OneEvent
<1>5. /\ L \in Seq(Events) /\ Orderly(L) /\ Answers(L) = 0
      /\ \A i \in DOMAIN L : L[i].kind = "completion" /\ L[i].finish = c.finish
      /\ \A b : ~Tells(L, b) /\ ~Closes(L, b)
      /\ L # <<>> \/ c.finish = "none"
      /\ L # <<>> => 1 \in DOMAIN L
  <2> DEFINE e == Completion(c.finish)
  <2>1. e \in Events /\ e.kind = "completion" /\ e.finish = c.finish /\ \A b : ~IsOf(e, b)
    BY EventsAre DEF IsOf
  <2>2. DOMAIN <<e>> = {1} /\ <<e>>[1] = e /\ DOMAIN <<>> = {}
    OBVIOUS
  <2>3. L = IF Vertex!CompletesWith(c) THEN <<e>> ELSE <<>>
    OBVIOUS
  <2> HIDE DEF e, L
  <2>4. CASE Vertex!CompletesWith(c)
    BY <2>1, <2>2, <2>3, <2>4, OneEvent
  <2>5. CASE ~Vertex!CompletesWith(c)
    BY <2>2, <2>3, <2>5, NoEvent DEF Vertex!CompletesWith
  <2> QED BY <2>4, <2>5
<1> HIDE DEF P, T, L, A
<1>6. \A k : Vertex!ThoughtId(k) # Vertex!ToolBlock
  BY VertexBlocks DEF Vertex!ThoughtId
<1> DEFINE U == P \o T
           V == U \o <<Status>>
           W == V \o L
<1>7. /\ U \in Seq(Events) /\ Orderly(U) /\ Answers(U) = A
      /\ \A i \in DOMAIN U : \/ U[i].kind = "answer"
                             \/ /\ U[i].kind = "block"
                                /\ \/ U[i].block = Vertex!ToolBlock
                                   \/ \E k \in 1 .. n : U[i].block = Vertex!ThoughtId(k)
      /\ \A b : Tells(U, b) => Closes(U, b) \/ b = Vertex!ToolBlock
      /\ Closes(U, Vertex!ToolBlock) => c.finish # "none"
  <2>1. \A i \in DOMAIN P, j \in DOMAIN T :
           /\ P[i].kind = "block" /\ P[i].ends => ~IsOf(T[j], P[i].block)
           /\ Strong(P[i]) => T[j].kind # "answer"
    BY <1>2, <1>3, <1>6 DEF IsOf, Strong
  <2>2. ~Closes(P, Vertex!ToolBlock)
    BY <1>2, <1>6 DEF Closes, IsOf
  <2>3. /\ U \in Seq(Events) /\ Orderly(U) /\ Answers(U) = Answers(P) + Answers(T)
        /\ \A b : /\ Tells(U, b) <=> Tells(P, b) \/ Tells(T, b)
                  /\ Closes(U, b) <=> Closes(P, b) \/ Closes(T, b)
        /\ \A i \in DOMAIN U : \/ \E j \in DOMAIN P : U[i] = P[j]
                               \/ \E j \in DOMAIN T : U[i] = T[j]
    BY <1>2, <1>3, <2>1, Concat
  <2> HIDE DEF U
  <2>4. \A i \in DOMAIN U : \/ U[i].kind = "answer"
                            \/ /\ U[i].kind = "block"
                               /\ \/ U[i].block = Vertex!ToolBlock
                                  \/ \E k \in 1 .. n : U[i].block = Vertex!ThoughtId(k)
    BY <1>2, <1>3, <2>3
  <2> QED BY <1>2, <1>3, <2>2, <2>3, <2>4
<1> HIDE DEF U
<1>8. /\ V \in Seq(Events) /\ Orderly(V) /\ Answers(V) = A
      /\ \A i \in DOMAIN V : \/ V[i].kind \in {"answer", "status"}
                             \/ /\ V[i].kind = "block"
                                /\ \/ V[i].block = Vertex!ToolBlock
                                   \/ \E k \in 1 .. n : V[i].block = Vertex!ThoughtId(k)
      /\ \A b : Tells(V, b) => Closes(V, b) \/ b = Vertex!ToolBlock
      /\ Closes(V, Vertex!ToolBlock) => c.finish # "none"
  <2>1. Status.kind = "status"
    BY EventsAre
  <2>2. \A i \in DOMAIN U, j \in DOMAIN <<Status>> :
           /\ U[i].kind = "block" /\ U[i].ends => ~IsOf(<<Status>>[j], U[i].block)
           /\ Strong(U[i]) => <<Status>>[j].kind # "answer"
    BY <1>4, <2>1 DEF IsOf
  <2>3. /\ V \in Seq(Events) /\ Orderly(V) /\ Answers(V) = Answers(U) + Answers(<<Status>>)
        /\ \A b : /\ Tells(V, b) <=> Tells(U, b) \/ Tells(<<Status>>, b)
                  /\ Closes(V, b) <=> Closes(U, b) \/ Closes(<<Status>>, b)
        /\ \A i \in DOMAIN V : \/ \E j \in DOMAIN U : V[i] = U[j]
                               \/ \E j \in DOMAIN <<Status>> : V[i] = <<Status>>[j]
    BY <1>4, <1>7, <2>2, Concat
  <2> HIDE DEF V
  <2>4. \A i \in DOMAIN V : (\E j \in DOMAIN U : V[i] = U[j]) \/ V[i] = Status
    BY <1>4, <2>3
  <2>5. \A i \in DOMAIN V : \/ V[i].kind \in {"answer", "status"}
                            \/ /\ V[i].kind = "block"
                               /\ \/ V[i].block = Vertex!ToolBlock
                                  \/ \E k \in 1 .. n : V[i].block = Vertex!ThoughtId(k)
    BY <1>7, <2>1, <2>4
  <2>6. Answers(V) = A
    BY <1>2, <1>4, <1>7, <2>3
  <2> QED BY <1>4, <1>7, <2>3, <2>5, <2>6
<1> HIDE DEF V
<1>9. /\ W \in Seq(Events) /\ Orderly(W) /\ Answers(W) = A
      /\ \A i \in DOMAIN W : \/ \E j \in DOMAIN V : W[i] = V[j]
                             \/ W[i].kind = "completion" /\ W[i].finish = c.finish
      /\ \A b : Tells(W, b) => Closes(W, b) \/ b = Vertex!ToolBlock
      /\ Closes(W, Vertex!ToolBlock) => c.finish # "none"
      /\ Completed(W) \/ c.finish = "none"
  <2>1. \A i \in DOMAIN V, j \in DOMAIN L :
           /\ V[i].kind = "block" /\ V[i].ends => ~IsOf(L[j], V[i].block)
           /\ Strong(V[i]) => L[j].kind # "answer"
    BY <1>5 DEF IsOf
  <2>2. /\ W \in Seq(Events) /\ Orderly(W) /\ Answers(W) = Answers(V) + Answers(L)
        /\ \A b : /\ Tells(W, b) <=> Tells(V, b) \/ Tells(L, b)
                  /\ Closes(W, b) <=> Closes(V, b) \/ Closes(L, b)
        /\ \A i \in DOMAIN W : \/ \E j \in DOMAIN V : W[i] = V[j]
                               \/ \E j \in DOMAIN L : W[i] = L[j]
        /\ \A j \in DOMAIN L : \E i \in DOMAIN W : W[i] = L[j]
    BY <1>5, <1>8, <2>1, Concat
  <2> HIDE DEF W
  <2>3. \A i \in DOMAIN W : \/ \E j \in DOMAIN V : W[i] = V[j]
                            \/ W[i].kind = "completion" /\ W[i].finish = c.finish
    BY <1>5, <2>2
  <2>4. Completed(W) \/ c.finish = "none"
    BY <1>5, <2>2 DEF Completed
  <2>5. Answers(W) = A
    BY <1>2, <1>5, <1>8, <2>2
  <2> QED BY <1>5, <1>8, <2>2, <2>3, <2>4, <2>5
<1>10. W = Vertex!Mapped(c)
  BY <1>1 DEF U, V
<1> HIDE DEF W
<1>11. \A i \in DOMAIN W : W[i].kind = "block" =>
          \/ W[i].block = Vertex!ToolBlock
          \/ \E k \in 1 .. n : W[i].block = Vertex!ThoughtId(k)
  BY <1>8, <1>9
<1>12. Concludes(W, c.finish)
  BY <1>8, <1>9 DEF Concludes
<1>13. (\E i \in DOMAIN W : Strong(W[i])) => c.finish = "complete"
  BY <1>8, <1>9 DEF Strong
<1> QED BY <1>9, <1>10, <1>11, <1>12, <1>13 DEF A

\* What a turn that waits for Vertex knows; only the last chunk makes an answer whole.
LEMMA VertexKnows ==
    ASSUME TurnInv, VertexInv, provider = "vertex", Waiting
    PROVE  /\ VertexAt /\ Blocks = VertexBlock
           /\ mapper \in Vertex!Mapper /\ stream \in Vertex!Stream
           /\ sent \in [text : Nat, answered : BOOLEAN, finish : Finish] /\ sent.text \in Nat
           /\ mapper.saw_visible => sent.text > 0
           /\ ~stream.over => ~Answered
           /\ Unended = {Vertex!ToolBlock} /\ MayStayOpen = {Vertex!ToolBlock}
<1>1. Running /\ AtWork
  BY WaitingIs
<1>2. VertexAt /\ mapper \in Vertex!Mapper /\ stream \in Vertex!Stream
  BY <1>1 DEF VertexInv
<1>3. Blocks = VertexBlock /\ ~AnnouncedFirst /\ (SaidAll => stream.over)
  BY DEF Blocks, AnnouncedFirst, SaidAll
<1> QED BY <1>1, <1>2, <1>3 DEF AtWork, TurnInv, Shape, Answered, Unended, MayStayOpen

LEMMA VertexGenerates ==
    ASSUME TurnInv, VertexInv, provider = "vertex", UNCHANGED provider,
           NEW c \in Vertex!Chunk, Vertex!Generates(c)
    PROVE  TurnInv' /\ VertexInv'
<1> DEFINE evs == Vertex!Mapped(c)
           size == Cardinality({k \in DOMAIN c.parts : c.parts[k] = "text"})
<1>1. /\ Waiting /\ ~stream.over /\ stream.chunks < MaxChunks
      /\ stream' = [chunks |-> stream.chunks + 1, over |-> c.finish # "none"]
      /\ sent' = [text |-> sent.text + size, answered |-> c.finish = "complete",
                  finish |-> c.finish]
      /\ Takes(evs)
      /\ mapper' = IF lease = "held" THEN Vertex!Learnt(c) ELSE mapper
  <2>1. Vertex!TextOf(c) = size
    BY DEF Vertex!TextOf, Vertex!Cardinality, Cardinality
  <2>2. Vertex!Takes(evs) => Takes(evs)
    BY VertexIsATurn
  <2>3. Vertex!Waiting <=> Waiting
    BY VertexIsATurn
  <2> HIDE DEF size
  <2> QED BY <2>1, <2>2, <2>3 DEF Vertex!Generates
<1>2. /\ VertexAt /\ Blocks = VertexBlock
      /\ mapper \in Vertex!Mapper /\ stream \in Vertex!Stream
      /\ sent \in [text : Nat, answered : BOOLEAN, finish : Finish] /\ sent.text \in Nat
      /\ mapper.saw_visible => sent.text > 0
      /\ ~Answered
      /\ Unended = {Vertex!ToolBlock} /\ MayStayOpen = {Vertex!ToolBlock}
  BY <1>1, VertexKnows
<1>3. c.tool \in BOOLEAN /\ c.finish \in Finish
  BY ProvidersEvents DEF Vertex!Chunk
<1>4. PICK n \in 0 .. MaxChunkParts : c.parts \in [1 .. n -> Vertex!Part]
  BY DEF Vertex!Chunk
<1>5. /\ mapper.chunk_ordinal = stream.chunks /\ stream.chunks \in Vertex!Ordinal
      /\ stream.chunks \in Nat /\ stream.chunks + 1 \in 0 .. MaxChunks
  BY <1>1, <1>2, StreamsAssumption DEF VertexAt, Vertex!Stream, Vertex!Ordinal
<1>6. /\ evs \in Seq(Events) /\ Orderly(evs)
      /\ \A i \in DOMAIN evs : evs[i].kind = "block" =>
            \/ evs[i].block = Vertex!ToolBlock
            \/ \E k \in 1 .. n : evs[i].block = Vertex!ThoughtId(k)
      /\ \A b : Tells(evs, b) => Closes(evs, b) \/ b = Vertex!ToolBlock
      /\ Closes(evs, Vertex!ToolBlock) => c.finish # "none"
      /\ Answers(evs) = size
      /\ Concludes(evs, c.finish)
      /\ Completed(evs) \/ c.finish = "none"
      /\ (\E i \in DOMAIN evs : Strong(evs[i])) => c.finish = "complete"
  BY <1>3, <1>4, <1>5, ChunkIs
<1>7. size \in Nat /\ (Vertex!SeesText(c) => size > 0)
  <2> DEFINE Texts == {k \in 1 .. n : c.parts[k] = "text"}
  <2>1. IsFiniteSet(Texts) /\ Cardinality(Texts) \in Nat
    <3>1. IsFiniteSet(1 .. n) /\ Texts \subseteq 1 .. n
      BY FS_Interval
    <3> HIDE DEF Texts
    <3> QED BY <3>1, FS_Subset, FS_CardinalityType
  <2>2. Texts = {k \in DOMAIN c.parts : c.parts[k] = "text"}
    BY <1>4
  <2>3. Vertex!SeesText(c) => Texts # {}
    BY <2>2 DEF Vertex!SeesText
  <2>4. Texts # {} => Cardinality(Texts) # 0
    <3> HIDE DEF Texts
    <3> QED BY <2>1, FS_EmptySet
  <2> HIDE DEF Texts
  <2> QED BY <2>1, <2>2, <2>3, <2>4
<1> HIDE DEF evs, size
<1>8. /\ sent' \in [text : Nat, answered : BOOLEAN, finish : Finish]
      /\ sent'.text = sent.text + size /\ sent'.finish = c.finish
      /\ sent'.answered = (c.finish = "complete")
      /\ stream' \in Vertex!Stream
      /\ stream'.chunks = stream.chunks + 1 /\ stream'.over = (c.finish # "none")
  BY <1>1, <1>2, <1>3, <1>5, <1>7 DEF Vertex!Stream
<1>9. /\ Vertex!Learnt(c) \in Vertex!Mapper
      /\ Vertex!Learnt(c).chunk_ordinal = mapper.chunk_ordinal + 1
      /\ Vertex!Learnt(c).saw_visible => mapper.saw_visible \/ Vertex!SeesText(c)
      /\ Vertex!Learnt(c).saw_terminal => mapper.saw_terminal \/ c.finish # "none"
  <2>1. Vertex!SeesText(c) \in BOOLEAN
    BY DEF Vertex!SeesText
  <2> QED BY <1>2, <1>5, <2>1 DEF Vertex!Learnt, Vertex!Mapper
<1>10. Unended' = {Vertex!ToolBlock} /\ MayStayOpen' = {Vertex!ToolBlock}
  BY DEF Unended, MayStayOpen
<1>11. ASSUME NEW b, Stored(b), b \in {Vertex!ToolBlock} \cup {Vertex!ThoughtId(k) : k \in 1 .. n}
       PROVE  FALSE
  <2>1. Closed(b)
    BY <1>11 DEF Closed
  <2>2. b # Vertex!ToolBlock
    BY <1>1, <1>2, <2>1 DEF VertexAt
  <2>3. PICK k \in 1 .. n : b = <<"thought", stream.chunks, k>>
    BY <1>5, <1>11, <2>2 DEF Vertex!ThoughtId
  <2>4. k \in 1 .. MaxChunkParts
    BY StreamsAssumption
  <2> QED BY <1>2, <1>5, <2>1, <2>3, <2>4 DEF VertexAt
<1>12. ASSUME mapper' = Vertex!Learnt(c) PROVE Fits(evs)
  <2>1. \A i \in DOMAIN evs : evs[i].kind = "block" => ~Stored(evs[i].block)
    BY <1>6, <1>11
  <2>2. \A b \in Blocks : b \in Unended \/ Tells(evs, b) =>
           Stored(b) \/ Closes(evs, b) \/ b \in Unended'
    BY <1>2, <1>6, <1>10
  <2>3. sent'.text = sent.text + Answers(evs) /\ Concludes(evs, sent'.finish)
    BY <1>6, <1>8
  <2>4. Completed(evs) \/ sent'.finish = sent.finish
    BY <1>1, <1>2, <1>6, <1>8 DEF VertexAt
  <2>5. (\E i \in DOMAIN evs : Strong(evs[i])) => Answered'
    <3>1. c.finish = "complete" => sent'.answered /\ stream'.over
      BY <1>8
    <3> QED BY <1>6, <3>1 DEF Answered, SaidAll
  <2>6. mapper'.saw_visible => sent'.text > 0
    BY <1>2, <1>7, <1>8, <1>9, <1>12
  <2>7. mapper'.saw_terminal => sent'.finish # "none" /\ Unended' \subseteq MayStayOpen'
    BY <1>1, <1>2, <1>8, <1>9, <1>10, <1>12 DEF VertexAt
  <2> QED BY <1>2, <1>6, <2>1, <2>2, <2>3, <2>4, <2>5, <2>6, <2>7 DEF Fits
<1>13. StaysWhole
  BY <1>2 DEF StaysWhole
<1>14. TurnInv'
  <2>1. lease = "held" => Fits(evs)
    BY <1>1, <1>12
  <2> QED BY <1>1, <1>8, <1>13, <2>1, TakesKeeps
<1>15. mapper' \in Vertex!Mapper
  BY <1>1, <1>2, <1>9
<1>16. ASSUME Running' PROVE VertexAt'
  <2>1. /\ lease = "held"
        /\ \A b : Closed(b)' => Closed(b) \/ Closes(evs, b)
    BY <1>1, <1>16, ClosedByTakes
  <2>2. mapper' = Vertex!Learnt(c)
    BY <1>1, <2>1
  <2>3. \A b : Closes(evs, b) => b = Vertex!ToolBlock \/ \E k : b = <<"thought", stream.chunks, k>>
    <3>1. \A b : Closes(evs, b) => \E i \in DOMAIN evs : evs[i].kind = "block" /\ evs[i].block = b
      BY DEF Closes, IsOf
    <3>2. \A k : Vertex!ThoughtId(k) = <<"thought", stream.chunks, k>>
      BY <1>5 DEF Vertex!ThoughtId
    <3>3. ASSUME NEW b, Closes(evs, b), b # Vertex!ToolBlock
          PROVE  \E k : b = <<"thought", stream.chunks, k>>
      <4>1. PICK k \in 1 .. n : b = Vertex!ThoughtId(k)
        BY <1>6, <3>1, <3>3
      <4> QED BY <3>2, <4>1
    <3> QED BY <3>3
  <2>4. ASSUME NEW o \in Vertex!Ordinal, NEW k \in 1 .. MaxChunkParts,
               Closed(<<"thought", o, k>>)'
        PROVE  o < stream'.chunks
    <3>1. CASE Closed(<<"thought", o, k>>)
      <4>1. o < stream.chunks /\ o \in Nat
        BY <1>2, <3>1, StreamsAssumption DEF VertexAt, Vertex!Ordinal
      <4> QED BY <1>5, <1>8, <4>1
    <3>2. CASE Closes(evs, <<"thought", o, k>>)
      <4>1. o = stream.chunks
        BY <2>3, <3>2, VertexBlocks
      <4> QED BY <1>5, <1>8, <4>1
    <3> QED BY <2>1, <2>4, <3>1, <3>2
  <2>5. Closed(Vertex!ToolBlock)' => stream'.over
    <3>1. ~Closed(Vertex!ToolBlock)
      BY <1>1, <1>2 DEF VertexAt
    <3> QED BY <1>6, <1>8, <2>1, <3>1
  <2>6. ~stream'.over => sent'.finish = "none" /\ ~sent'.answered
    BY <1>8
  <2>7. mapper'.saw_terminal => stream'.over
    BY <1>1, <1>2, <1>8, <1>9, <2>2 DEF VertexAt
  <2>8. mapper'.chunk_ordinal = stream'.chunks
    BY <1>5, <1>8, <1>9, <2>2
  <2> QED BY <2>4, <2>5, <2>6, <2>7, <2>8 DEF VertexAt
<1> QED BY <1>8, <1>14, <1>15, <1>16 DEF VertexInv

\* Whatever Vertex does.
LEMMA VertexKeeps ==
    ASSUME TurnInv, VertexInv, provider = "vertex", UNCHANGED provider, Vertex!Next
    PROVE  TurnInv' /\ VertexInv'
<1>1. CASE \E c \in Vertex!Chunk : Vertex!Generates(c)
  BY <1>1, VertexGenerates
<1>2. CASE (Vertex!TurnStep \/ Vertex!Ends) /\ UNCHANGED <<mapper, stream>>
  <2>1. /\ UNCHANGED Provider
        /\ TurnStep \/ StreamEnds(mapper.saw_terminal /\ mapper.saw_visible)
    BY <1>2, VertexIsATurn DEF Provider
  <2> QED BY <2>1, TurnStepKeeps, LoopKeepsProvider
<1> QED BY <1>1, <1>2 DEF Vertex!Next

-----------------------------------------------------------------------------
(* The turn *)

\* A turn that has not begun.
Unbegun ==
    /\ pending = <<>> /\ text = 0 /\ rows = <<>>
    /\ shown = [b \in Blocks |-> 0] /\ accumulated = [b \in Blocks |-> 0]
    /\ completion = "none" /\ final_answer_completed = FALSE /\ lease = "held"
    /\ message = Streaming /\ client = "streaming"
    /\ sent = [text |-> 0, answered |-> FALSE, finish |-> "none"]
    /\ mapper.saw_visible = FALSE /\ mapper.saw_terminal = FALSE

LEMMA UnbegunIsSound ==
    ASSUME provider \in {"openai", "anthropic", "vertex"}, Unbegun
    PROVE  /\ TurnInv /\ \A b : ~Closed(b)
           /\ sent.text = 0 /\ ~sent.answered /\ sent.finish = "none"
<1>1. /\ message \in Messages /\ message.status = "streaming" /\ message.code = "none"
      /\ sent \in [text : Nat, answered : BOOLEAN, finish : Finish]
      /\ sent.text = 0 /\ sent.finish = "none" /\ ~sent.answered
  BY DEF Unbegun, Streaming, Messages, Finish
<1>2. Shape
  <2>1. <<>> \in Seq(Events) /\ <<>> \in Seq([block : Blocks, parts : Nat])
    OBVIOUS
  <2> QED BY <1>1, <2>1 DEF Unbegun, Shape, Finish
<1>3. \A b : ~Stored(b)
  BY DEF Unbegun, Stored
<1>4. \A b \in Blocks : shown[b] = 0 /\ accumulated[b] = 0
  BY DEF Unbegun
<1>5. Follows(<<>>)
  <2>1. 0 = 0 + 0
    OBVIOUS
  <2> QED BY <1>1, <1>3, <1>4, <2>1, NoEvent DEF Unbegun, Follows
<1>6. AtWork
  BY <1>1, <1>4, <1>5 DEF Unbegun, AtWork
<1>7. RowsAreWhatWasShown /\ NothingBreaks /\ OutcomeIsWhatWasSaid
  BY <1>1 DEF Unbegun, RowsAreWhatWasShown, NothingBreaks, OutcomeIsWhatWasSaid
<1>8. Running
  BY DEF Unbegun, Running
<1>9. \A b : ~Closed(b)
  BY <1>3, NoEvent DEF Closed, Unbegun
<1> QED BY <1>1, <1>2, <1>6, <1>7, <1>8, <1>9 DEF TurnInv

LEMMA StreamsBegin == Init => StreamsInv
<1>1. ASSUME provider = "openai", OpenAI!Init PROVE StreamsInv
  <2>1. /\ mapper = [thinking |-> [k \in OpenAI!Thought |-> "absent"], tools |-> {}, final |-> {},
                     saw_visible |-> FALSE, saw_terminal |-> FALSE]
        /\ stream = [stage |-> "new", past |-> {}, item |-> NoBlock, parts |-> {},
                     part |-> NoBlock, part_at |-> "added", said |-> 0]
    BY <1>1 DEF OpenAI!Init
  <2>2. Unbegun
    BY <1>1, <2>1 DEF OpenAI!Init, OpenAI!TurnInit, OpenAI!Streaming, Unbegun, Streaming, Blocks
  <2>3. TurnInv /\ (\A b : ~Closed(b)) /\ sent.text = 0 /\ ~sent.answered
    BY <1>1, <2>2, UnbegunIsSound
  <2>4. mapper \in OpenAI!Mapper /\ stream \in OpenAI!Stream
    BY <2>1, TurnStreamAssumption DEF OpenAI!Mapper, OpenAI!Stream
  <2>5. OpenAIAt
    <3>1. NoBlock \notin FinalAnswer
      BY StreamsAssumption
    <3> QED BY <2>1, <2>3, <3>1 DEF OpenAIAt
  <2> QED BY <1>1, <2>3, <2>4, <2>5 DEF StreamsInv, OpenAIInv
<1>2. ASSUME provider = "anthropic", Anthropic!Init PROVE StreamsInv
  <2>1. /\ mapper = [blocks |-> <<>>, saw_visible |-> FALSE, saw_terminal |-> FALSE]
        /\ stream = [stage |-> "new", index |-> 0, type |-> "text", use |-> NoBlock, said |-> 0,
                     used |-> {}, answered |-> {}]
    BY <1>2 DEF Anthropic!Init
  <2>2. Unbegun
    BY <1>2, <2>1 DEF Anthropic!Init, Anthropic!TurnInit, Anthropic!Streaming, Unbegun, Streaming,
                      Blocks
  <2>3. /\ TurnInv /\ (\A b : ~Closed(b))
        /\ sent.text = 0 /\ ~sent.answered /\ sent.finish = "none"
    BY <1>2, <2>2, UnbegunIsSound
  <2>4. IsAnthropicMapper(mapper)
    <3>1. DOMAIN <<>> = {} /\ <<>> \in [{} -> Anthropic!ContentBlock]
      OBVIOUS
    <3> QED BY <2>1, <3>1 DEF IsAnthropicMapper
  <2>5. stream \in Anthropic!Stream
    BY <2>1, TurnStreamAssumption, StreamsAssumption DEF Anthropic!Stream, Anthropic!ContentType
  <2>6. AnthropicAt
    BY <2>1, <2>3 DEF AnthropicAt
  <2> QED BY <1>2, <2>3, <2>4, <2>5, <2>6 DEF StreamsInv, AnthropicInv
<1>3. ASSUME provider = "vertex", Vertex!Init PROVE StreamsInv
  <2>1. /\ mapper = [chunk_ordinal |-> 0, saw_visible |-> FALSE, saw_terminal |-> FALSE]
        /\ stream = [chunks |-> 0, over |-> FALSE]
    BY <1>3 DEF Vertex!Init
  <2>2. Unbegun
    BY <1>3, <2>1 DEF Vertex!Init, Vertex!TurnInit, Vertex!Streaming, Unbegun, Streaming, Blocks
  <2>3. /\ TurnInv /\ (\A b : ~Closed(b))
        /\ sent.text = 0 /\ ~sent.answered /\ sent.finish = "none"
    BY <1>3, <2>2, UnbegunIsSound
  <2>4. mapper \in Vertex!Mapper /\ stream \in Vertex!Stream
    BY <2>1, StreamsAssumption DEF Vertex!Mapper, Vertex!Stream
  <2>5. VertexAt
    BY <2>1, <2>3 DEF VertexAt
  <2> QED BY <1>3, <2>3, <2>4, <2>5 DEF StreamsInv, VertexInv
<1> QED BY <1>1, <1>2, <1>3 DEF Init

LEMMA StreamsStep == StreamsInv /\ [Next]_vars => StreamsInv'
<1> SUFFICES ASSUME StreamsInv, [Next]_vars PROVE StreamsInv'
  OBVIOUS
<1>1. ASSUME provider = "openai", OpenAI!Next, UNCHANGED provider PROVE StreamsInv'
  BY <1>1, OpenAIKeeps DEF StreamsInv
<1>2. ASSUME provider = "anthropic", Anthropic!Next, UNCHANGED provider PROVE StreamsInv'
  BY <1>2, AnthropicKeeps DEF StreamsInv
<1>3. ASSUME provider = "vertex", Vertex!Next, UNCHANGED provider PROVE StreamsInv'
  BY <1>3, VertexKeeps DEF StreamsInv
<1>4. CASE UNCHANGED vars
  <2>1. UNCHANGED <<Provider, turnVars>>
    BY <1>4 DEF vars, Provider
  <2>2. Running' = Running
    BY <2>1 DEF turnVars, Running
  <2>3. TurnInv'
    <3>1. CASE ~Running
      BY <2>1, <3>1, OverIsOver DEF StreamsInv
    <3>2. CASE Running
      <4>1. TurnInv /\ AtWork
        BY <3>2 DEF StreamsInv, TurnInv
      <4>2. PICK s : s = pending
        OBVIOUS
      <4>3. Blocks' = Blocks /\ Events' = Events /\ Unended' = Unended /\ Answered' = Answered
            /\ MayStayOpen' = MayStayOpen /\ AnnouncedFirst' = AnnouncedFirst
        BY <2>1, StillExpected DEF turnVars
      <4>4. Follows(s)' = Follows(s)
        <5>1. /\ Orderly(s)' = Orderly(s) /\ Answers(s)' = Answers(s) /\ AnswersOf(s)' = AnswersOf(s)
              /\ Concludes(s, sent.finish)' = Concludes(s, sent.finish)
              /\ Completed(s)' = Completed(s) /\ Claims(s)' = Claims(s)
          BY <2>1, <4>3 DEF turnVars, Orderly, Answers, AnswersOf, Concludes, Completed, Claims,
                            IsOf, Strong
        <5>2. \A b : /\ Tells(s, b)' = Tells(s, b) /\ Closes(s, b)' = Closes(s, b)
                     /\ Stored(b)' = Stored(b)
          BY <2>1 DEF turnVars, Tells, Closes, IsOf, Stored
        <5> QED BY <2>1, <4>3, <5>1, <5>2 DEF turnVars, Follows
      <4>5. AtWork'
        <5>1. Follows(pending) /\ pending' = s
          BY <2>1, <4>1, <4>2 DEF AtWork, turnVars
        <5>2. Follows(pending)'
          BY <4>2, <4>4, <5>1
        <5>3. \A b : Stored(b)' = Stored(b)
          BY <2>1 DEF turnVars, Stored
        <5> QED BY <2>1, <4>1, <4>3, <5>2, <5>3 DEF AtWork, turnVars, Provider
      <4>6. Shape'
        BY <2>1, <4>1, <4>3 DEF TurnInv, Shape, turnVars, Provider
      <4>7. RowsAreWhatWasShown' /\ NothingBreaks' /\ OutcomeIsWhatWasSaid'
        BY <2>1, <4>1, <4>3 DEF TurnInv, RowsAreWhatWasShown, NothingBreaks, OutcomeIsWhatWasSaid,
                               Stored, turnVars
      <4> QED BY <2>2, <3>2, <4>5, <4>6, <4>7 DEF TurnInv
    <3> QED BY <3>1, <3>2
  <2>4. \A b : Closed(b)' = Closed(b)
    BY <2>1 DEF turnVars, Closed, Stored, Closes, IsOf
  <2>5. /\ OpenAIInv => OpenAIInv'
        /\ AnthropicInv => AnthropicInv'
        /\ VertexInv => VertexInv'
    <3>1. mapper' = mapper /\ stream' = stream /\ sent' = sent
      BY <2>1 DEF Provider, turnVars
    <3>2. OpenAIInv => OpenAIInv'
      BY <2>2, <2>4, <3>1 DEF OpenAIInv, OpenAIAt
    <3>3. AnthropicInv => AnthropicInv'
      BY <2>2, <2>4, <3>1 DEF AnthropicInv, AnthropicAt
    <3>4. VertexInv => VertexInv'
      BY <2>2, <2>4, <3>1 DEF VertexInv, VertexAt
    <3> QED BY <3>2, <3>3, <3>4
  <2> QED BY <2>1, <2>3, <2>5 DEF StreamsInv, Provider
<1> QED BY <1>1, <1>2, <1>3, <1>4 DEF Next

\* While a turn runs, the events still to be handled continue what was shown, merged and
\* stored, under whichever provider: the ends still to come are of blocks not stored yet,
\* the text still to come is what the provider has said and the turn has not.
THEOREM StreamsInductive == Spec => []StreamsInv
<1>1. Init => StreamsInv
  BY StreamsBegin
<1>2. StreamsInv /\ [Next]_vars => StreamsInv'
  BY StreamsStep
<1> QED BY <1>1, <1>2, PTL DEF Spec

\* For all responses of the three providers, a stored block holds what the client was
\* shown of it, and a finished turn has stored every block it showed but those that the
\* provider may leave open (blocks.py, provider_execution.py).
THEOREM StoredAsShown == Spec => []RowsAreWhatWasShown
<1>1. StreamsInv => RowsAreWhatWasShown
  BY DEF StreamsInv, TurnInv
<1> QED BY <1>1, StreamsInductive, PTL

\* No block of any response is stored twice, which the unique index would refuse
\* (uq_chat_message_blocks_message_provider_block).
THEOREM NoBlockTwice == Spec => []NothingBreaks
<1>1. StreamsInv => NothingBreaks
  BY DEF StreamsInv, TurnInv
<1> QED BY <1>1, StreamsInductive, PTL

\* A finished turn holds the whole answer and the reason that the provider gave last; a
\* failed turn that later turns see holds a whole answer, or followed a commentary.
THEOREM WholeAnswers == Spec => []OutcomeIsWhatWasSaid
<1>1. StreamsInv => OutcomeIsWhatWasSaid
  BY DEF StreamsInv, TurnInv
<1> QED BY <1>1, StreamsInductive, PTL
===============================================================================
