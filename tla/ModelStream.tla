----------------------------- MODULE ModelStream -----------------------------
(***************************************************************************)
(* One turn that asks a model: the task that makes the request, repeats it *)
(* when it fails early and decodes its stream (request_stream), the loop   *)
(* of the turn that saves what is complete (continue_turn), the tool calls *)
(* it then performs (execute_model_responses), and the projector that      *)
(* shows all of it to the clients while it happens (TurnProjector).        *)
(*                                                                         *)
(* The provider is outside: it streams an answer of a few items and may    *)
(* stop anywhere.  The channel between the request's task and the turn     *)
(* only delays events, so a frame is decoded and shown in one step.        *)
(* Cancellation is in ThreadTurn.                                          *)
(***************************************************************************)
EXTENDS ModelCodecs, TurnProjection

CONSTANTS
  MaxRetries,   \* how often a request is repeated (5 in the code)
  MaxPieces,    \* bound: pieces of text of an item
  Scenarios     \* bounds that a run adds up: the protocol of the turn's provider, the
                \* kinds of items it streams, how many an answer has, whether several
                \* are streamed at a time, and how many requests the turn makes

VARIABLES
  scenario, \* the protocol and the bounds, chosen once
  server,   \* the answer under way: the attempt it belongs to and its items
  request,  \* the request's task: attempts, decoder, frames, whether output was passed on
  turn      \* the turn: log, view, projection, the text at risk, the responses to act on

vars == <<scenario, server, request, turn>>

codec == scenario.codec

-----------------------------------------------------------------------------
(* The turn: a record that each event of the stream, and each tool, changes. *)

Broken(t) == [t EXCEPT !.state = "broken"]

\* Results of a projection applied to the view; what the view rejects fails the turn.
Show(t, projections) ==
  IF projections = {} THEN {Broken(t)}
  ELSE UNION {LET views == After("thread", t.view, c.ops) IN
              IF views = {} THEN {Broken(t)}
              ELSE {[t EXCEPT !.view = v, !.projection = c.projection] : v \in views} :
              c \in projections}

LogEvent(t, kind, id, call, text) ==
  [sequence |-> Len(t.log) + 1, kind |-> kind, id |-> id, call |-> call, text |-> text]

\* append_event with a projector: saved, then shown.
Save(t, kind, id, call, text) ==
  LET event == LogEvent(t, kind, id, call, text) IN
  Show([t EXCEPT !.log = Append(@, event)], ProjectEvent(t.projection, event))

Update(t, e) ==
  IF e.event = "retry"
  THEN LET event == LogEvent(t, "retry", NoId, NoId, <<>>) IN
       Show([t EXCEPT !.log = Append(@, event)],
            Projected([t.projection EXCEPT !.retrying = TRUE],
                      <<[op |-> "event", event |-> event], [op |-> "retry", retry |-> "scheduled"]>>))
  ELSE Show(t, ProjectUpdate(t.projection, e))

\* A completed item is saved; a message and a call are kept to be acted on.
SaveItem(t, r) ==
  LET kept == [t EXCEPT !.partial = IF r.kind = "assistant" THEN <<>> ELSE @,
                        !.responses = IF r.kind \in {"assistant", "function", "custom"}
                                      THEN Append(@, r) ELSE @] IN
  IF r.kind = "none" THEN {t} ELSE Save(kept, r.kind, r.id, r.call, r.text)

\* What the turn does with an event of the stream.
Consume(t, e) ==
  CASE t.state # "reading" -> {t}
    [] e.event = "done" -> SaveItem(t, e.response)
    [] e.event = "completed" ->
         {[u EXCEPT !.state = IF @ = "broken" THEN @ ELSE "completed"] :
            u \in Save(t, "usage", NoId, NoId, <<>>)}
    [] OTHER ->
         Update([t EXCEPT !.partial = IF e.event = "assistant" THEN @ \o e.text ELSE @], e)

ConsumeAll(t, events) ==
  FoldLeft(LAMBDA ts, e : UNION {Consume(u, e) : u \in ts}, {t}, events)

FailsAtOnce(t) == {[t EXCEPT !.state = "failed"]}

\* The stream ended without completing: text of a message under way is kept.
Fails(t) ==
  LET failed == [t EXCEPT !.state = "failed"] IN
  IF t.partial = <<>> THEN {failed}
  ELSE {[u EXCEPT !.partial = <<>>] : u \in Save(failed, "assistant", NoId, NoId, t.partial)}

-----------------------------------------------------------------------------
NoRequest == [state |-> "none", retries |-> 0, live |-> <<>>, frames |-> <<>>, output |-> FALSE]

NewServer(attempt) == [attempt |-> attempt, items |-> <<>>, state |-> "open", overlap |-> FALSE]

Init ==
  /\ scenario \in Scenarios
  /\ server = NewServer(0)
  /\ request = NoRequest
  /\ turn = [state |-> "idle", requests |-> 0, log |-> <<>>, partial |-> <<>>, responses |-> <<>>,
             running |-> <<>>, followUp |-> FALSE, final |-> FALSE, projection |-> NewProjection,
             view |-> CHOOSE v \in After("thread", CHOOSE s \in NewThread([id |-> 1], <<>>, <<>>, <<>>) : TRUE,
                                         <<[op |-> "started", phase |-> "running"]>>) : TRUE]

\* The loop of continue_turn saves that it asks, and the request begins.
BeginRequest ==
  /\ turn.state = "idle" /\ turn.requests < scenario.requests
  /\ turn' \in {[u EXCEPT !.state = IF @ = "broken" THEN @ ELSE "reading"] :
                  u \in Save([turn EXCEPT !.requests = @ + 1, !.responses = <<>>, !.partial = <<>>,
                                          !.followUp = FALSE, !.final = FALSE],
                             "request", NoId, NoId, <<>>)}
  /\ request' = [NoRequest EXCEPT !.state = "connecting", !.live = NewLive(codec)]
  /\ server' = NewServer(0)
  /\ UNCHANGED scenario

\* The attempt fails, or is refused in a way that may pass, and is repeated.
RetryConnection ==
  /\ request.state = "connecting" /\ codec # "ollama"
  /\ request.retries < MaxRetries
  /\ request' = [request EXCEPT !.retries = @ + 1]
  /\ UNCHANGED <<scenario, server, turn>>

\* The attempt fails for good, before a response or with its status.  Once it
\* was repeated, a response is announced whatever its status.
ConnectionFails ==
  /\ request.state = "connecting"
  /\ request' = [request EXCEPT !.state = "ended"]
  /\ \/ turn' \in Fails(turn)
     \/ /\ request.retries > 0
        /\ turn' \in UNION {Fails(u) : u \in Update(turn, [event |-> "retry"])}
  /\ UNCHANGED <<scenario, server>>

Connect ==
  /\ request.state = "connecting"
  /\ request' = [request EXCEPT !.state = "streaming", !.frames = <<>>, !.output = FALSE]
  /\ server' = NewServer(server.attempt + 1)
  /\ turn' \in IF request.retries = 0 THEN {turn} ELSE Update(turn, [event |-> "retry"])
  /\ UNCHANGED scenario

-----------------------------------------------------------------------------
(* The provider: the frames it may send next.                               *)

\* Who produced a piece of text: the request, the attempt, the item, and its place.
Piece(i, n) == [request |-> turn.requests, attempt |-> server.attempt, item |-> i, n |-> n]
ItemId(i) == <<"item", turn.requests, server.attempt, i>>
CallId(i) == IF codec = "responses" THEN <<"call", turn.requests, server.attempt, i>> ELSE ItemId(i)

Phases(kind) == IF codec = "responses" /\ kind = "message" THEN {"none", "commentary"} ELSE {"none"}

Item(i) == server.items[i]
Described(i, text) ==
  [kind |-> Item(i).kind, id |-> ItemId(i), call |-> CallId(i), phase |-> Item(i).phase, text |-> text]

Chunk(text, reasoning, pieces, calls, finish) ==
  [type |-> "chunk", response |-> <<turn.requests, server.attempt>>, text |-> text, reasoning |-> reasoning,
   pieces |-> pieces, calls |-> calls, finish |-> finish, last |-> finish # "none"]

\* Frames that announce, stream and complete the item i.
AddedFrame(i, kind, phase) ==
  LET item == [kind |-> kind, id |-> ItemId(i), call |-> CallId(i), phase |-> phase, text |-> <<>>]
      index == Cardinality({j \in 1..i - 1 : Item(j).kind = "function"}) IN
  CASE codec = "responses" -> <<[type |-> "added", item |-> item]>>
    [] codec = "messages"  -> <<[type |-> "block_start", index |-> i - 1, item |-> item]>>
    [] kind # "function"   -> <<>>
    [] codec = "chat"      -> <<Chunk(<<>>, <<>>, <<[index |-> index, id |-> CallId(i), named |-> FALSE, text |-> <<>>]>>,
                                      <<>>, "none")>>
    [] codec = "ollama"    -> <<Chunk(<<>>, <<>>, <<>>, <<CallId(i)>>, "none")>>

DeltaFrame(i, text) ==
  LET kind  == Item(i).kind
      index == Cardinality({j \in 1..i - 1 : Item(j).kind = "function"})
      named == [index |-> index, id |-> NoId, named |-> Item(i).text = <<>>, text |-> text] IN
  CASE codec = "responses" -> <<[type |-> "delta", kind |-> kind, id |-> ItemId(i), text |-> text]>>
    [] codec = "messages"  -> <<[type |-> "block_delta", kind |-> kind, index |-> i - 1, text |-> text]>>
    [] kind = "message"    -> <<Chunk(text, <<>>, <<>>, <<>>, "none")>>
    [] kind = "reasoning"  -> <<Chunk(<<>>, text, <<>>, <<>>, "none")>>
    [] codec = "chat"      -> <<Chunk(<<>>, <<>>, <<named>>, <<>>, "none")>>
    [] codec = "ollama"    -> <<>>

DoneFrame(i) ==
  CASE codec = "responses" ->
         <<[type |-> "done", index |-> i - 1, item |-> Described(i, Item(i).text)]>>
    [] codec = "messages"  -> <<[type |-> "block_stop", index |-> i - 1]>>
    [] OTHER -> <<>>

FirstFrame ==
  CASE codec = "responses" -> <<[type |-> "created"]>>
    [] codec = "messages"  -> <<[type |-> "message_start"]>>
    [] OTHER -> <<>>

LastFrames(reason) ==
  CASE codec = "responses" -> <<[type |-> IF reason = "limit" THEN "incomplete" ELSE "completed"]>>
    [] codec = "messages"  -> <<[type |-> "message_delta",
                                 reason |-> CASE reason = "calls" -> "tool_use" [] reason = "limit" -> "max_tokens"
                                              [] reason = "stop" -> "end_turn" [] reason = "pause" -> "pause_turn"],
                                [type |-> "message_stop"]>>
    [] OTHER -> <<Chunk(<<>>, <<>>, <<>>, <<>>, CASE reason = "calls" -> "tool_calls" [] reason = "limit" -> "length"
                                                  [] reason = "stop" -> "stop")>>

\* What one frame leads to.  A rejected frame ends the stream with an error.
TakeFrame(states, f) ==
  UNION {IF s.request.state # "streaming" THEN {s}
         ELSE LET decoded == Live(codec, s.request.live, f) IN
              IF decoded = {}
              THEN {[request |-> [s.request EXCEPT !.state = "ended"], turn |-> u] : u \in Fails(s.turn)}
              ELSE UNION {{[request |-> [s.request EXCEPT !.live = d.live, !.frames = Append(@, f),
                                                          !.output = @ \/ d.events # <<>>],
                            turn |-> u] : u \in ConsumeAll(s.turn, d.events)} : d \in decoded} :
         s \in states}

Receive(frames) ==
  \E s \in FoldLeft(TakeFrame, {[request |-> request, turn |-> turn]}, frames) :
    request' = s.request /\ turn' = s.turn

Streaming == request.state = "streaming" /\ turn.state = "reading"

Opens ==
  /\ Streaming /\ server.state = "open" /\ server.items = <<>> /\ request.frames = <<>> /\ FirstFrame # <<>>
  /\ Receive(FirstFrame)
  /\ UNCHANGED <<scenario, server>>

Begun == Streaming /\ server.state = "open" /\ (request.frames # <<>> \/ FirstFrame = <<>>)

\* Responses may stream several items at a time; the others one after the other.
AddsItem ==
  /\ Begun /\ Len(server.items) < scenario.items
  /\ scenario.overlaps \/ \A i \in DOMAIN server.items : ~Item(i).open
  /\ \E kind \in scenario.kinds : \E phase \in Phases(kind) :
       /\ server' = [server EXCEPT !.items = Append(@, [kind |-> kind, phase |-> phase, text |-> <<>>, parted |-> FALSE, open |-> TRUE]),
                                   !.overlap = @ \/ \E i \in DOMAIN server.items : Item(i).open]
       /\ Receive(AddedFrame(Len(server.items) + 1, kind, phase))
  /\ UNCHANGED scenario

StreamsText ==
  /\ Begun
  /\ \E i \in DOMAIN server.items :
       /\ Item(i).open /\ Item(i).kind # "search" /\ Len(Item(i).text) < MaxPieces
       /\ LET text == <<Piece(i, Len(Item(i).text) + 1)>> IN
          /\ server' = [server EXCEPT !.items[i].text = @ \o text]
          /\ Receive(DeltaFrame(i, text))
  /\ UNCHANGED scenario

StreamsPart ==
  /\ Begun /\ codec = "responses"
  /\ \E i \in DOMAIN server.items :
       /\ Item(i).open /\ Item(i).kind = "reasoning" /\ ~Item(i).parted
       /\ server' = [server EXCEPT !.items[i].parted = TRUE]
  /\ Receive(<<[type |-> "part"]>>)
  /\ UNCHANGED scenario

EndsItem ==
  /\ Begun
  /\ \E i \in DOMAIN server.items :
       /\ Item(i).open
       /\ server' = [server EXCEPT !.items[i].open = FALSE]
       /\ Receive(DoneFrame(i))
  /\ UNCHANGED scenario

EndsAnswer ==
  /\ Begun /\ \A i \in DOMAIN server.items : ~Item(i).open
  /\ server' = [server EXCEPT !.state = "closed"]
  /\ LET calls == \E i \in DOMAIN server.items : Item(i).kind \in {"function", "custom"} IN
     \E reason \in {IF calls THEN "calls" ELSE "stop", "limit"}
                   \cup IF codec = "messages" THEN {"pause"} ELSE {} :
       Receive(LastFrames(reason))
  /\ UNCHANGED scenario

\* The provider reports an error, or sends what cannot be decoded.
SendsError ==
  /\ Begun
  /\ server' = [server EXCEPT !.state = "closed"]
  /\ Receive(<<[Chunk(<<>>, <<>>, <<>>, <<>>, "none") EXCEPT !.type = "error"]>>)
  /\ UNCHANGED scenario

-----------------------------------------------------------------------------
(* The end of a stream, seen by the request's task.                         *)

RetryStream ==
  /\ request.retries < MaxRetries
  /\ request' = [request EXCEPT !.state = "connecting", !.retries = @ + 1]
  /\ UNCHANGED <<scenario, server, turn>>

FailStream ==
  /\ request' = [request EXCEPT !.state = "ended"]
  /\ turn' \in Fails(turn)
  /\ UNCHANGED <<scenario, server>>

MayAlwaysRepeat == request.retries < MaxRetries /\ codec # "ollama"

\* Repeating the request is allowed until something was passed on.
MayRepeat == ~request.output /\ request.retries < MaxRetries /\ codec # "ollama"

\* The connection breaks: an error of the transport.
Breaks ==
  /\ Streaming /\ server.state = "open"
  /\ IF MayRepeat THEN RetryStream ELSE FailStream

\* The stream ends: what was read is parsed.
StreamEnds ==
  /\ Streaming
  /\ LET result == Finish(codec, request.live, request.frames) IN
     CASE result = Rejected -> FailStream
       [] result = Incomplete -> IF MayRepeat THEN RetryStream ELSE FailStream
       [] OTHER ->
            /\ request' = [request EXCEPT !.state = "ended"]
            /\ \E u \in ConsumeAll(turn, result.events) :
                 turn' \in IF u.state = "reading" THEN Fails(u) ELSE {u}
            /\ UNCHANGED <<scenario, server>>

-----------------------------------------------------------------------------
(* execute_model_responses: the messages and calls, in order.               *)

Acting == turn.state \in {"completed", "failed"} /\ turn.responses # <<>> /\ turn.running = <<>>
Next1 == Head(turn.responses)

NoteMessage ==
  /\ Acting /\ Next1.kind = "assistant"
  /\ turn' = [turn EXCEPT !.responses = Tail(@), !.final = @ \/ Next1.phase = "final"]
  /\ UNCHANGED <<scenario, server, request>>

\* The result of a call, or why it was refused, is saved.
Answer(t, call) ==
  Save([t EXCEPT !.responses = Tail(@), !.running = <<>>, !.followUp = TRUE], "result", NoId, call, <<>>)

\* A call that is not valid, or that nobody allowed, is answered at once.  Each
\* operation of a custom call is shown as completed, a refused one too.
RefuseCall ==
  /\ Acting /\ Next1.kind \in {"function", "custom"}
  /\ \/ turn' \in Answer(turn, Next1.call)
     \/ /\ Next1.kind = "custom"
        /\ \E u \in Update(turn, [event |-> "runner update", call |-> Next1.call,
                                  update |-> [kind |-> "completed"]]) :
             turn' \in Answer(u, Next1.call)
  /\ UNCHANGED <<scenario, server, request>>

\* A search or a fetch by the Controller leaves an event of its own.
CallProviderTool ==
  /\ Acting /\ Next1.kind = "function" /\ codec # "responses"
  /\ \E u \in Save(turn, "search", NoId, NoId, <<>>) : turn' \in Answer(u, Next1.call)
  /\ UNCHANGED <<scenario, server, request>>

StartCommand ==
  /\ Acting /\ Next1.kind \in {"function", "custom"}
  /\ turn' \in {[u EXCEPT !.running = <<"started">>] :
                  u \in Update(turn, [event |-> "runner update", call |-> Next1.call,
                                      update |-> [kind |-> "started"]])}
  /\ UNCHANGED <<scenario, server, request>>

CommandOutput ==
  /\ turn.running = <<"started">> /\ turn.state # "broken"
  /\ turn' \in {[u EXCEPT !.running = <<"output">>] :
                  u \in Update(turn, [event |-> "runner output", call |-> Next1.call,
                                      text |-> <<"output">>])}
  /\ UNCHANGED <<scenario, server, request>>

CommandEnds ==
  /\ turn.running # <<>> /\ turn.state # "broken"
  /\ turn' \in UNION {Answer(u, Next1.call) :
                        u \in IF Next1.kind = "custom"
                              THEN Update(turn, [event |-> "runner update", call |-> Next1.call,
                                                 update |-> [kind |-> "completed"]])
                              ELSE {turn}}
  /\ UNCHANGED <<scenario, server, request>>

Finished(t, outcome) ==
  {[t EXCEPT !.view = v, !.state = outcome] :
     v \in After("thread", t.view, <<[op |-> "finished", outcome |-> outcome]>>)}

\* Everything was acted on: the turn fails with its stream, ends with an
\* answer, or asks again.
EndOfRequest ==
  /\ turn.state \in {"completed", "failed"} /\ turn.responses = <<>>
  /\ CASE turn.state = "failed" -> turn' \in Finished(turn, "turn failed")
       [] ~turn.followUp /\ turn.final -> turn' \in Finished(turn, "turn completed")
       [] OTHER -> turn' = [turn EXCEPT !.state = "idle"]
  /\ request' = NoRequest
  /\ UNCHANGED <<scenario, server>>

Next ==
  \/ BeginRequest \/ RetryConnection \/ ConnectionFails \/ Connect
  \/ Opens \/ AddsItem \/ StreamsText \/ StreamsPart \/ EndsItem \/ EndsAnswer \/ SendsError
  \/ Breaks \/ StreamEnds
  \/ NoteMessage \/ RefuseCall \/ CallProviderTool \/ StartCommand \/ CommandOutput \/ CommandEnds
  \/ EndOfRequest

Spec == Init /\ [][Next]_vars

-----------------------------------------------------------------------------
Active == {t.items : t \in turn.view.turn}
ActiveItems == UNION {Range(items) : items \in Active}
ShownPieces == UNION {Range(item.text) : item \in {i \in ActiveItems : i.kind # "runner"}}
SavedPieces == UNION {Range(turn.log[i].text) : i \in DOMAIN turn.log}

\* The projector and the views agree on what is active: whatever a provider
\* streams, however it breaks off, and whatever the tools then do, the views
\* accept every operation of the projector (an update refused fails the turn).
ProjectorIsAccepted == turn.state # "broken"

\* Of an answer that was given up and asked for again nothing is shown or
\* saved: what clients see and what the log keeps of a request is of one
\* attempt, the last.
OneAttemptShown ==
  \A piece \in ShownPieces \cup SavedPieces :
    piece.request = turn.requests => piece.attempt = server.attempt

\* Text of a message that clients saw is kept: once the stream has ended, well
\* or not, each piece of a message is in the log, exactly once.  Excepted are
\* answers whose items overlap: a message saved while another is streamed
\* clears the text that is kept for a failure.
Messages == {i \in DOMAIN server.items : Item(i).kind = "message"}
PlacesOf(piece) ==
  UNION {{<<i, k>> : k \in {k \in DOMAIN turn.log[i].text : turn.log[i].text[k] = piece}} :
         i \in {i \in DOMAIN turn.log : turn.log[i].kind = "assistant"}}
TextIsKept ==
  turn.state \in {"completed", "failed", "turn failed", "turn completed"} /\ ~server.overlap =>
    \A i \in Messages : \A n \in DOMAIN Item(i).text : Cardinality(PlacesOf(Piece(i, n))) = 1

\* Nothing stays under way: when the model answered completely, every active
\* item of the answer has become an event, and when the turn asks again nothing
\* of the request before is active, so that no item is shown until the turn ends.
NothingLeftActive ==
  /\ turn.state = "idle" => ActiveItems = {}
  /\ turn.state = "completed" => \A item \in ActiveItems : item.kind = "runner"

\* "Retrying" is over with the first output: while a message, a reasoning or a
\* call is streamed, and while a command runs, clients are not told that the
\* request is being repeated.
RetryIsOver ==
  ActiveItems # {} => \A t \in turn.view.turn : t.phase # "retrying" /\ t.retry = {}

\* What is shown of an answer is what the model streams, of its last attempt,
\* until it is saved.
AnswerIsShown == ProjectorIsAccepted /\ OneAttemptShown /\ NothingLeftActive /\ RetryIsOver

\* A turn asks again only if it has something new to say to the model: since
\* its last request it saved a message, a reasoning, a call or a result.
\* Otherwise it would ask the same until it is cancelled.  Chat Completions and
\* Ollama refuse an answer that is empty.  Excepted are the two that accept one:
\* Responses, also when all its messages are without text, and Messages that
\* pauses before its first block.  (continue_turn, Message::into_stream)
AskedLast == CHOOSE i \in DOMAIN turn.log :
               turn.log[i].kind = "request" /\ \A j \in i + 1..Len(turn.log) : turn.log[j].kind # "request"
HasNews ==
  \E k \in AskedLast..Len(turn.log) : turn.log[k].kind \notin {"request", "retry", "usage"}
AnsweredNothing ==
  CASE codec = "responses" -> \A i \in DOMAIN server.items : Item(i).kind = "message" /\ Item(i).text = <<>>
    [] codec = "messages"  -> server.items = <<>>
    [] OTHER -> FALSE

AsksWithNews == turn.state = "idle" /\ turn.requests > 0 => HasNews \/ AnsweredNothing
=============================================================================
