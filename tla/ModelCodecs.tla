----------------------------- MODULE ModelCodecs -----------------------------
(***************************************************************************)
(* How the answers of model providers are decoded                          *)
(* (crates/atra-controller/src/model/api).  Three protocols of server-sent *)
(* events are read twice: a live decoder turns each frame into updates for *)
(* the clients, and, once the stream has ended, a parser reads all frames  *)
(* again.  Ollama's lines are read once.                                   *)
(*                                                                         *)
(* A text is a sequence of pieces.  The shape of the JSON (missing fields, *)
(* wrong types) is left out: the frame "error" stands for every frame a    *)
(* decoder rejects.  A decoder gives the set of its results, empty for a   *)
(* rejected frame.                                                         *)
(***************************************************************************)
EXTENDS Integers, Sequences, FiniteSets, SequencesExt

NoId == <<>>  \* ids are sequences

\* ModelResponse: what an answer consists of.
Response(kind, id, call, text, phase) ==
  [kind |-> kind, id |-> id, call |-> call, text |-> text, phase |-> phase]

Done(response) == [event |-> "done", response |-> response]
Completed == [event |-> "completed"]
AssistantDelta(text) == [event |-> "assistant", text |-> text, phase |-> "any"]
ReasoningDelta(text) == [event |-> "reasoning", text |-> text]
CallStarted(id, call) == [event |-> "call", id |-> id, call |-> call]
CallDelta(id, text) == [event |-> "call text", id |-> id, text |-> text]

\* What a stream that has ended amounts to.
Rejected   == [is |-> "error", events |-> <<>>]
Incomplete == [is |-> "incomplete", events |-> <<>>]
Answers(events) == [is |-> "answer", events |-> events]

Decoded(live, events) == {[live |-> live, events |-> events]}

Keys(map) == DOMAIN map
Put(map, key, value) == [k \in Keys(map) \cup {key} |-> IF k = key THEN value ELSE map[k]]
Drop(map, keys) == [k \in Keys(map) \ keys |-> map[k]]

-----------------------------------------------------------------------------
(* Responses: items, each with an index, are announced, streamed and done.  *)
(* Done items are passed on in the order of their index; a message that    *)
(* does not say its phase waits until it is known whether a call follows.  *)

NewResponses == [messages |-> {}, calls |-> {}, completed |-> <<>>, next |-> 0, hasTool |-> FALSE]

\* response_from_item; a message without text is no response
ItemResponse(item, default) ==
  CASE item.kind = "message" ->
         IF item.text = <<>> THEN Response("none", item.id, item.call, <<>>, "none")
         ELSE Response("assistant", item.id, item.call, item.text,
                       IF item.phase = "none" THEN default ELSE item.phase)
    [] OTHER -> Response(item.kind, item.id, item.call, item.text, "none")

EmitCompletedItems(live, completed) ==
  LET default == IF live.hasTool THEN "commentary" ELSE "final"
      Waits(item) == ~completed /\ ~live.hasTool /\ item.kind = "message" /\ item.phase = "none"
      released == {i \in Keys(live.completed) :
                     \A j \in live.next..i : j \in Keys(live.completed) /\ ~Waits(live.completed[j])}
      left == Drop(live.completed, released) IN
  IF completed /\ left # <<>> THEN {}
  ELSE Decoded([live EXCEPT !.completed = left, !.next = @ + Cardinality(released)],
               [k \in 1..Cardinality(released) |->
                  Done(ItemResponse(live.completed[live.next + k - 1], default))])

ResponsesAdded(live, item) ==
  CASE item.kind = "message" -> Decoded([live EXCEPT !.messages = @ \cup {item.id}], <<>>)
    [] item.kind \in {"function", "custom"} ->
         Decoded([live EXCEPT !.calls = @ \cup {item.id}, !.hasTool = TRUE],
                 <<CallStarted(item.id, item.call)>>)
    [] item.kind = "search" -> Decoded(live, <<[event |-> "search", id |-> item.id, action |-> <<>>]>>)
    [] OTHER -> Decoded(live, <<>>)

ResponsesDelta(live, f) ==
  CASE f.kind = "message" ->
         IF f.id \in live.messages THEN Decoded(live, <<AssistantDelta(f.text)>>) ELSE {}
    [] f.kind = "reasoning" -> Decoded(live, <<ReasoningDelta(f.text)>>)
    [] f.kind \in {"function", "custom"} ->
         IF f.id \in live.calls THEN Decoded(live, <<CallDelta(f.id, f.text)>>) ELSE {}

ResponsesDone(live, f) ==
  IF f.index < live.next \/ f.index \in Keys(live.completed) THEN {}
  ELSE EmitCompletedItems(
         [live EXCEPT !.completed = Put(@, f.index, f.item),
                      !.hasTool = @ \/ f.item.kind \in {"function", "custom"}], FALSE)

ResponsesLive(live, f) ==
  CASE f.type = "created"   -> Decoded(NewResponses, <<>>)
    [] f.type = "added"     -> ResponsesAdded(live, f.item)
    [] f.type = "part"      -> Decoded(live, <<[event |-> "part"]>>)
    [] f.type = "delta"     -> ResponsesDelta(live, f)
    [] f.type = "done"      -> ResponsesDone(live, f)
    [] f.type = "completed" -> EmitCompletedItems(live, TRUE)
    [] f.type = "incomplete" -> Decoded(live, <<>>)
    [] f.type = "error"     -> {}

\* parse: the items have been passed on already
ResponsesParse(frames) ==
  LET types == {frames[i].type : i \in DOMAIN frames} IN
  CASE {"error", "incomplete"} \cap types # {} -> Rejected
    [] "completed" \in types -> Answers(<<Completed>>)
    [] OTHER -> Incomplete

-----------------------------------------------------------------------------
(* Messages: blocks, each with an index, are started, streamed and stopped; *)
(* the reason why the model stopped comes before the end.                   *)

MessagesLive(blocks, f) ==
  CASE f.type = "message_start" -> Decoded(<<>>, <<>>)
    [] f.type = "block_start" ->
         IF f.index \in Keys(blocks) THEN {}
         ELSE Decoded(Put(blocks, f.index, f.item),
                      IF f.item.kind = "function" THEN <<CallStarted(f.item.call, f.item.call)>>
                      ELSE <<>>)
    [] f.type = "block_delta" ->
         IF f.index \notin Keys(blocks) \/ f.kind # blocks[f.index].kind THEN {}
         ELSE Decoded(blocks,
                CASE f.kind = "message"   -> <<AssistantDelta(f.text)>>
                  [] f.kind = "reasoning" -> <<ReasoningDelta(f.text)>>
                  [] f.kind = "function"  -> <<CallDelta(blocks[f.index].call, f.text)>>)
    [] f.type = "block_stop" ->
         IF f.index \in Keys(blocks) THEN Decoded(Drop(blocks, {f.index}), <<>>) ELSE {}
    [] f.type \in {"message_delta", "message_stop"} -> Decoded(blocks, <<>>)
    [] f.type = "error" -> {}

\* Message::decode, one frame: blocks, whether started and stopped, and why
MessageStep(m, f) ==
  CASE f.type = "message_start" ->
         IF m.started \/ m.stopped THEN {} ELSE {[m EXCEPT !.started = TRUE]}
    [] f.type = "block_start" ->
         IF ~m.started \/ m.stopped \/ f.index \in Keys(m.blocks) THEN {}
         ELSE {[m EXCEPT !.blocks = Put(@, f.index, [item |-> f.item, stopped |-> FALSE])]}
    [] f.type = "block_delta" ->
         IF m.stopped \/ f.index \notin Keys(m.blocks) THEN {}
         ELSE IF m.blocks[f.index].stopped \/ m.blocks[f.index].item.kind # f.kind THEN {}
         ELSE {[m EXCEPT !.blocks[f.index].item.text = @ \o f.text]}
    [] f.type = "block_stop" ->
         IF m.stopped \/ f.index \notin Keys(m.blocks) THEN {}
         ELSE IF m.blocks[f.index].stopped THEN {}
         ELSE {[m EXCEPT !.blocks[f.index].stopped = TRUE]}
    [] f.type = "message_delta" ->
         IF ~m.started \/ m.stopped \/ m.reason # "none" THEN {} ELSE {[m EXCEPT !.reason = f.reason]}
    [] f.type = "message_stop" ->
         IF ~m.started \/ m.stopped THEN {} ELSE {[m EXCEPT !.stopped = TRUE]}
    [] f.type = "error" -> {}

MessageFrames(frames) ==
  FoldLeft(LAMBDA ms, f : UNION {MessageStep(m, f) : m \in ms},
           {[blocks |-> <<>>, started |-> FALSE, stopped |-> FALSE, reason |-> "none"]}, frames)

\* Message::into_stream
MessageEvents(m) ==
  LET kinds  == {m.blocks[i].item.kind : i \in Keys(m.blocks)}
      final  == m.reason \in {"end_turn", "refusal"}
      phase  == IF final THEN "final" ELSE "commentary"
      Event(item) ==
        Done(IF item.kind = "message" THEN Response("assistant", item.id, item.call, item.text, phase)
             ELSE Response(item.kind, item.call, item.call, item.text, "none"))
      silent == final /\ "message" \notin kinds IN
  IF \/ m.reason \in {"none", "max_tokens"}
     \/ (m.reason = "tool_use") # ("function" \in kinds)
  THEN Rejected
  ELSE Answers([k \in 1..Cardinality(Keys(m.blocks)) |-> Event(m.blocks[k - 1].item)]
               \o (IF silent THEN <<Done(Response("assistant", NoId, NoId, <<>>, phase))>> ELSE <<>>)
               \o <<Completed>>)

\* A frame out of place is an error even where the end is missing; a stream
\* that ends with a block open is one, too.
MessagesParse(frames) ==
  LET decoded == MessageFrames(frames) IN
  IF decoded = {} THEN Rejected
  ELSE LET m == CHOOSE m \in decoded : TRUE IN
       CASE ~m.stopped -> Incomplete
         [] \E i \in Keys(m.blocks) : ~m.blocks[i].stopped -> Rejected
         [] OTHER -> MessageEvents(m)

-----------------------------------------------------------------------------
(* Chat Completions: chunks with text, reasoning and pieces of calls, and a *)
(* reason at the end.  A call is announced once its id and name are known. *)

NewChat == [response |-> NoId, calls |-> <<>>]
NewCall == [id |-> NoId, named |-> FALSE, text |-> <<>>, streamed |-> 0, started |-> FALSE]

ApplyToolDelta(calls, piece, streaming) ==
  LET call    == IF piece.index \in Keys(calls) THEN calls[piece.index] ELSE NewCall
      started == (call.id # NoId \/ piece.id # NoId) /\ (call.named \/ piece.named)
      id      == IF piece.id # NoId THEN piece.id ELSE call.id
      text    == call.text \o piece.text
      streams == streaming /\ started /\ call.streamed < Len(text) IN
  IF piece.id # NoId /\ call.id \notin {NoId, piece.id} THEN {}
  ELSE Decoded(
         Put(calls, piece.index,
             [id |-> id, named |-> call.named \/ piece.named, text |-> text,
              streamed |-> IF streams THEN Len(text) ELSE call.streamed, started |-> started]),
         (IF started /\ ~call.started THEN <<CallStarted(id, id)>> ELSE <<>>)
         \o (IF streams THEN <<CallDelta(id, SubSeq(text, call.streamed + 1, Len(text)))>> ELSE <<>>))

\* A new response begins with no calls; a chunk holds at most one piece.
ChatLive(live, f) ==
  LET calls == IF live.response \in {NoId, f.response} THEN live.calls ELSE <<>>
      texts == (IF f.text # <<>> THEN <<AssistantDelta(f.text)>> ELSE <<>>)
               \o (IF f.reasoning # <<>> THEN <<ReasoningDelta(f.reasoning)>> ELSE <<>>) IN
  IF f.type = "error" THEN {}
  ELSE IF f.pieces = <<>>
       THEN Decoded([response |-> f.response, calls |-> calls], texts)
       ELSE {[live |-> [response |-> f.response, calls |-> d.live], events |-> texts \o d.events] :
               d \in ApplyToolDelta(calls, f.pieces[1], TRUE)}

ChatParse(frames) ==
  LET Texts(Of(_)) == FoldLeft(LAMBDA text, f : text \o Of(f), <<>>, frames)
      text      == Texts(LAMBDA f : f.text)
      reasoning == Texts(LAMBDA f : f.reasoning)
      pieces    == Texts(LAMBDA f : f.pieces)
      reasons   == SelectSeq([i \in DOMAIN frames |-> frames[i].finish], LAMBDA r : r # "none")
      Add(results, piece) == UNION {{d.live : d \in ApplyToolDelta(calls, piece, FALSE)} : calls \in results}
      results   == FoldLeft(Add, {<<>>}, pieces)
      calls     == CHOOSE c \in results : TRUE
      phase     == IF Keys(calls) = {} THEN "final" ELSE "commentary" IN
  CASE \/ results = {} \/ Len(reasons) > 1
       \/ \E i \in DOMAIN frames : frames[i].type = "error" -> Rejected
    [] reasons = <<>> -> Incomplete
    [] \/ reasons[1] = "stop" /\ (Keys(calls) # {} \/ text = <<>>)
       \/ reasons[1] = "tool_calls" /\ Keys(calls) = {}
       \/ reasons[1] \notin {"stop", "tool_calls"}
       \/ \E i \in Keys(calls) : ~calls[i].started -> Rejected
    [] OTHER -> Answers(
         (IF reasoning = <<>> THEN <<>> ELSE <<Done(Response("reasoning", NoId, NoId, reasoning, "none"))>>)
         \o (IF text = <<>> THEN <<>> ELSE <<Done(Response("assistant", NoId, NoId, text, phase))>>)
         \o [k \in 1..Cardinality(Keys(calls)) |->
               LET call == calls[k - 1] IN Done(Response("function", call.id, call.id, call.text, "none"))]
         \o <<Completed>>)

-----------------------------------------------------------------------------
(* Ollama: lines with text, thinking and whole calls; the last says so.     *)

NewOllama == [thinking |-> <<>>, content |-> <<>>, calls |-> <<>>, finished |-> FALSE]

\* Completion::finish
OllamaEvents(c) ==
  LET phase == IF c.calls = <<>> THEN "final" ELSE "commentary" IN
  (IF c.thinking = <<>> THEN <<>> ELSE <<Done(Response("reasoning", NoId, NoId, c.thinking, "none"))>>)
  \o (IF c.content = <<>> THEN <<>> ELSE <<Done(Response("assistant", NoId, NoId, c.content, phase))>>)
  \o [k \in DOMAIN c.calls |-> Done(Response("function", c.calls[k], c.calls[k], <<>>, "none"))]
  \o <<Completed>>

OllamaLiveEmpty(live, f) ==
  LET c == [live EXCEPT !.thinking = @ \o f.reasoning, !.content = @ \o f.text,
                        !.calls = @ \o f.calls, !.finished = f.last] IN
  IF f.type = "error" THEN {} ELSE Decoded(c, IF f.last THEN OllamaEvents(c) ELSE <<>>)

OllamaLive(live, f) ==
  LET c == [live EXCEPT !.thinking = @ \o f.reasoning, !.content = @ \o f.text,
                        !.calls = @ \o f.calls, !.finished = f.last]
      texts == (IF f.reasoning # <<>> THEN <<ReasoningDelta(f.reasoning)>> ELSE <<>>)
               \o (IF f.text # <<>> THEN <<AssistantDelta(f.text)>> ELSE <<>>) IN
  CASE \/ f.type = "error"
       \/ f.last /\ c.content = <<>> /\ c.calls = <<>>
       \/ f.last /\ ~IsInjective(c.calls) -> {}
    [] f.last -> Decoded(c, texts \o OllamaEvents(c))
    [] OTHER  -> Decoded(c, texts)

-----------------------------------------------------------------------------
NewLive(codec) ==
  CASE codec = "responses" -> NewResponses
    [] codec = "messages"  -> <<>>
    [] codec = "chat"      -> NewChat
    [] codec = "ollama"    -> NewOllama

Live(codec, live, f) ==
  CASE codec = "responses" -> ResponsesLive(live, f)
    [] codec = "messages"  -> MessagesLive(live, f)
    [] codec = "chat"      -> ChatLive(live, f)
    [] codec = "ollama"    -> OllamaLive(live, f)

Finish(codec, live, frames) ==
  CASE codec = "responses" -> ResponsesParse(frames)
    [] codec = "messages"  -> MessagesParse(frames)
    [] codec = "chat"      -> ChatParse(frames)
    [] codec = "ollama"    -> IF live.finished THEN Answers(<<>>) ELSE Rejected
=============================================================================
