--------------------------- MODULE LiveTranscripts ---------------------------
(***************************************************************************)
(* A thread as its two clients show it while it changes: the Controller    *)
(* runs turns and publishes them (crates/atra-controller, turn.rs and      *)
(* commands.rs), the terminal client keeps a transcript of entries         *)
(* (TuiTranscript) and the web client a page of readers (WebPage).  Both   *)
(* apply the operations one by one; the page is drawn again whenever the   *)
(* browser comes to it, and it may lose its connection.                    *)
(*                                                                         *)
(* Bounds, of a scenario: the turns, the items of each, what a turn may    *)
(* contain, how often the web client is cut off and the history rewound.   *)
(* An item's text has at most two pieces.  A turn is not started before    *)
(* the page was drawn after the last one.                                  *)
(***************************************************************************)
EXTENDS TuiTranscript, WebPage

CONSTANT Scenarios

VARIABLES scenario, log, server, projection, stage, turns, tui, web, selected, left

vars == <<scenario, log, server, projection, stage, turns, tui, web, selected, left>>

\* What only the Controller's turn changes, and what only the clients do.
turnVars == <<log, projection, stage, turns>>

NextSequence(events) == IF events = <<>> THEN 1 ELSE events[Len(events)].sequence + 1

Event(kind, id, call, text, phase, tool) ==
  [sequence |-> NextSequence(log), kind |-> kind, id |-> id, call |-> call, text |-> text,
   phase |-> phase, tool |-> tool]

Fresh == <<NextSequence(log)>>
PlainEvent(kind) == Event(kind, NoCall, NoCall, Fresh, "none", "none")

-----------------------------------------------------------------------------
(* Publication.                                                            *)

DrawOver(page) ==
  Redraw(page, scenario.mode, {[turn |-> one.turn, key |-> one.key] : one \in selected},
         web.replica, web.finalized)
Drawn  == DrawOver(web.page)
Afresh == DrawOver(<<>>)

Applied(s, op) == CHOOSE t \in ThreadNext(s, op) : TRUE

\* What an operation that arrives does to the web client.  It counts the turns
\* that began, for the properties: those it knows of, those its page shows.
WebApply(w, op) ==
  LET s == Applied(w.replica, op) IN
  [w EXCEPT !.replica = s, !.known = IF op.op = "started" THEN @ + 1 ELSE @,
            !.finalized = Remember(@, s, op), !.page = Notify(@, Marks(s, op))]

TuiApply(pair, op) ==
  LET s == Applied(pair.s, op) IN [s |-> s, t |-> ApplyChange(pair.t, s, op)]

\* The event that the selected item became, as the operations tell.
Became(one, op) ==
  [one EXCEPT !.was = IF op.op = "finalized" /\ one.key.at \in {"active", "stable"}
                         /\ one.during = turns /\ op.id = one.key.n
                      THEN {op.event.sequence} ELSE @]

Publish(ops) ==
  /\ LET pair == FoldLeft(TuiApply, [s |-> server, t |-> tui], ops) IN
     server' = pair.s /\ tui' = pair.t
  /\ web' = IF web.linked THEN FoldLeft(WebApply, web, ops) ELSE web
  /\ selected' = IF web.linked THEN {FoldLeft(Became, one, ops) : one \in selected} ELSE selected
  /\ UNCHANGED <<scenario, left>>

\* save and project an event
Record(event) ==
  /\ log' = Append(log, event)
  /\ \E next \in ProjectEvent(projection, event) : projection' = next.projection /\ Publish(next.ops)

\* project an update of the stream or of a Runner
Project(update) ==
  /\ \E next \in ProjectUpdate(projection, update) : projection' = next.projection /\ Publish(next.ops)
  /\ UNCHANGED <<log, stage, turns>>

-----------------------------------------------------------------------------
(* The turn.                                                               *)

Calls(events) == SelectSeq(events, LAMBDA event : event.kind \in {"custom", "function"})

\* active_tool_events: the calls since the last compaction without a result
OpenCalls ==
  LET since == {i \in DOMAIN log : \A j \in i..Len(log) : log[j].kind # "compaction"} IN
  SelectSeq(log, LAMBDA event :
    /\ event.kind \in {"custom", "function"}
    /\ \E i \in since : log[i] = event
    /\ \A i \in since : log[i].kind # "result" \/ log[i].call # event.call)

Streaming == SelectSeq(ActiveItems(server), LAMBDA item : item.kind # "runner")
RunnerItem(call) == SelectSeq(ActiveItems(server), LAMBDA item : item.kind = "runner" /\ item.call = call)

StartTurn ==
  /\ stage = "idle" /\ turns < scenario.turns /\ (web.linked => AllDrawn(web.page))
  /\ stage' = "started" /\ turns' = turns + 1 /\ projection' = NewProjection
  /\ Publish(<<[op |-> "started", phase |-> "running"]>>)
  /\ UNCHANGED log

ResultOf(call, text) == Event("result", NoCall, call.call, text, "none", call.tool)

\* prepare_thread_for_turn
SaveInterrupted ==
  /\ stage = "started" /\ OpenCalls # <<>>
  /\ Record(ResultOf(OpenCalls[1], <<>>))
  /\ UNCHANGED <<stage, turns>>

Ask ==
  /\ stage = "started" /\ OpenCalls = <<>>
  /\ stage' = "running"
  /\ Record(PlainEvent("user"))
  /\ UNCHANGED turns

ItemIdOf(kind) == <<kind, turns, projection.next>>

\* The first update of an item of the stream.
FirstUpdate(kind) ==
  CASE kind \in {"commentary", "final"} -> [event |-> "assistant", text |-> Fresh, phase |-> kind]
    [] kind = "reasoning" -> [event |-> "reasoning", text |-> Fresh]
    [] kind = "search"    -> [event |-> "search", id |-> ItemIdOf(kind), action |-> <<>>]
    [] kind = "command"   -> [event |-> "call", id |-> ItemIdOf("item"), call |-> ItemIdOf("call")]

BeginItem(kind) ==
  /\ stage = "running" /\ projection.next <= scenario.items
  /\ kind \in {"commentary", "final", "reasoning", "search", "command"}
  /\ kind \in {"commentary", "final"} => projection.assistant = {}
  /\ kind = "reasoning" => projection.reasoning = {}
  /\ \E update \in {FirstUpdate(kind)} : Project(update)

\* The stream says more of an item.
NextUpdate(item) ==
  CASE item.kind = "assistant" -> [event |-> "assistant", text |-> Fresh, phase |-> item.phase]
    [] item.kind = "reasoning" -> [event |-> "reasoning", text |-> Fresh]
    [] item.kind = "search"    -> [event |-> "search", id |-> item.item, action |-> Fresh]
    [] item.kind = "call"      -> [event |-> "call text", id |-> item.item, text |-> Fresh]

MoreOfItem(item) ==
  /\ stage = "running" /\ Len(item.text) < scenario.pieces
  /\ \E update \in {NextUpdate(item)} : Project(update)

\* An item is complete and its event saved.
SaveItem(item) ==
  /\ stage = "running"
  /\ Record(CASE item.kind = "call" -> Event("custom", item.item, item.call, item.text, "none", "command")
              [] OTHER -> Event(item.kind, item.item, NoCall, item.text, item.phase, "none"))
  /\ UNCHANGED <<stage, turns>>

SaveQuestion ==
  /\ stage = "running" /\ "question" \in scenario.kinds
  /\ Len(Calls(log)) < scenario.items
  /\ Record(Event("function", NoCall, ItemIdOf("call") \o <<Len(log)>>, Fresh, "none", "question"))
  /\ UNCHANGED <<stage, turns>>

\* With no item under way the calls are run in their order.
Runs(call) ==
  /\ stage \in {"running", "tools"} /\ Streaming = <<>>
  /\ OpenCalls # <<>> /\ call = OpenCalls[1]

Decided(call) == \E i \in DOMAIN log : log[i].kind = "approval" /\ log[i].sequence > call.sequence

\* A question is asked, a command approved before it is run.
Interact(call) ==
  /\ Runs(call) /\ Pending(server) = {} /\ RunnerItem(call.call) = <<>>
  /\ \/ call.tool = "question"
     \/ "approval" \in scenario.kinds /\ ~Decided(call)
  /\ stage' = "tools"
  /\ Publish(<<[op |-> "requested",
                interaction |-> [id   |-> NextSequence(log),
                                 kind |-> IF call.tool = "question" THEN "questions" ELSE "approval"]]>>)
  /\ UNCHANGED <<log, projection, turns>>

Settle(call, event) ==
  /\ Runs(call)
  /\ \E pending \in Pending(server) :
       /\ log' = Append(log, event)
       /\ Publish(<<[op |-> "event", event |-> event], [op |-> "resolved", id |-> pending.id]>>)
  /\ UNCHANGED <<projection, stage, turns>>

Approve(call) == call.tool = "command" /\ Settle(call, PlainEvent("approval"))

\* What the Runner may tell next of the call.
RunnerUpdates(call, item) ==
  LET told(kind) == [event |-> "runner update", call |-> call.call,
                     update |-> [kind |-> kind, content |-> <<>>]] IN
  CASE item = <<>> -> {told("started")}
    [] item # <<>> /\ item[1].update.kind = "started" ->
         {told("completed"), [event |-> "runner output", call |-> call.call, text |-> Fresh]}
    [] item # <<>> /\ item[1].update.kind = "completed" -> {}
    [] OTHER -> {told("completed")}

Work(call) ==
  /\ Runs(call) /\ call.tool = "command" /\ Pending(server) = {}
  /\ \E update \in RunnerUpdates(call, RunnerItem(call.call)) : Project(update)

\* save_tool_result: of a question once it is answered
SaveResult(call) ==
  /\ Runs(call)
  /\ stage' = IF Len(OpenCalls) = 1 THEN "running" ELSE "tools"
  /\ UNCHANGED turns
  /\ \E event \in {ResultOf(call, Fresh)} :
       \/ /\ call.tool = "command" /\ Pending(server) = {}
          /\ \A item \in Range(RunnerItem(call.call)) : item.update.kind = "completed"
          /\ Record(event)
       \/ /\ call.tool = "question"
          /\ log' = Append(log, event) /\ UNCHANGED projection
          /\ \E pending \in Pending(server) :
               Publish(<<[op |-> "resolved", id |-> pending.id], [op |-> "event", event |-> event]>>)

Retry ==
  /\ stage = "running" /\ "retry" \in scenario.kinds /\ ~projection.retrying
  /\ projection' = [projection EXCEPT !.retrying = TRUE]
  /\ log' = Append(log, PlainEvent("retry"))
  /\ Publish(<<[op |-> "event", event |-> PlainEvent("retry")], [op |-> "retry", retry |-> "scheduled"]>>)
  /\ UNCHANGED <<stage, turns>>

Compact ==
  /\ stage = "running" /\ "compaction" \in scenario.kinds
  /\ Streaming = <<>> /\ OpenCalls = <<>>
  /\ \A i \in DOMAIN log : log[i].kind # "compaction"
  /\ Record(PlainEvent("compaction"))
  /\ UNCHANGED <<stage, turns>>

\* The outcome is saved and published; of a cancelled turn the results of its
\* open calls are saved before, and not published.
Conclude(outcome) ==
  LET open == OpenCalls
      interrupted == [i \in DOMAIN open |-> [ResultOf(open[i], <<>>) EXCEPT !.sequence = @ + i - 1]]
      saved == IF outcome = "cancelled" THEN log \o interrupted ELSE log
      event == [PlainEvent("outcome") EXCEPT !.sequence = NextSequence(saved), !.phase = outcome]
      cancelling == IF outcome = "cancelled" THEN <<[op |-> "phase", phase |-> "cancelling"]>> ELSE <<>> IN
  /\ stage \in {"running", "tools"}
  /\ outcome = "completed" => Streaming = <<>> /\ OpenCalls = <<>>
  /\ stage' = "ended"
  /\ log' = Append(saved, event)
  /\ Publish(Append(cancelling, [op |-> "event", event |-> event]))
  /\ UNCHANGED <<projection, turns>>

FinishTurn ==
  /\ stage = "ended" /\ stage' = "idle"
  /\ Publish(<<[op |-> "finished", outcome |-> log[Len(log)].phase]>>)
  /\ UNCHANGED <<log, projection, turns>>

\* replace_history: to before a request, or to an answer
Rewind ==
  /\ stage = "idle" /\ left.rewinds > 0
  /\ \E i \in DOMAIN log :
       LET kept == IF log[i].kind = "user" THEN SubSeq(log, 1, i - 1) ELSE SubSeq(log, 1, i)
           w == WebApply(web, [op |-> "replaced", events |-> kept])
           pair == TuiApply([s |-> server, t |-> tui], [op |-> "replaced", events |-> kept]) IN
       /\ log[i].kind = "user" \/ (log[i].kind = "assistant" /\ log[i].phase = "final")
       /\ log' = kept /\ server' = pair.s /\ tui' = pair.t
       /\ web' = IF web.linked THEN w ELSE web
  /\ left' = [left EXCEPT !.rewinds = @ - 1]
  /\ UNCHANGED <<scenario, projection, stage, turns, selected>>

-----------------------------------------------------------------------------
(* The web client.                                                         *)

\* The browser draws what is due.
DrawPage ==
  /\ web' = [web EXCEPT !.page = Drawn, !.shown = web.known] /\ web' # web
  /\ UNCHANGED <<scenario, turnVars, server, tui, selected, left>>

Select ==
  /\ selected = {}
  /\ \E reader \in {r \in DOMAIN web.page : r.kind = "row"} :
       selected' = {[turn |-> reader.turn, key |-> web.page[reader].asked.key, during |-> web.shown, was |-> {}]}
  /\ UNCHANGED <<scenario, turnVars, server, tui, web, left>>

Disconnect ==
  /\ web.linked /\ left.cuts > 0
  /\ web' = [web EXCEPT !.linked = FALSE]
  /\ left' = [left EXCEPT !.cuts = @ - 1]
  /\ UNCHANGED <<scenario, turnVars, server, tui, selected>>

\* A snapshot comes first.
Reconnect ==
  /\ ~web.linked
  /\ web' = [web EXCEPT !.linked = TRUE, !.replica = server, !.known = turns,
                        !.finalized = Retain(@, server), !.page = NotifyAll(@)]
  /\ UNCHANGED <<scenario, turnVars, server, tui, selected, left>>

-----------------------------------------------------------------------------
NoEvents == CHOOSE s \in NewThread([id |-> 1], <<>>, <<>>, <<>>) : TRUE

Init ==
  /\ scenario \in Scenarios
  /\ log = <<>> /\ server = NoEvents /\ projection = NewProjection
  /\ stage = "idle" /\ turns = 0
  /\ tui = NewTranscript
  /\ web = [linked |-> TRUE, replica |-> NoEvents, finalized |-> <<>>, known |-> 0, shown |-> 0,
            page |-> Redraw(<<>>, scenario.mode, {}, NoEvents, <<>>)]
  /\ selected = {}
  /\ left = [cuts |-> scenario.cuts, rewinds |-> scenario.rewinds]

Next ==
  \/ StartTurn \/ SaveInterrupted \/ Ask
  \/ \E kind \in scenario.kinds : BeginItem(kind)
  \/ \E item \in Range(Streaming) : MoreOfItem(item)
  \/ \E item \in Range(Streaming) : SaveItem(item)
  \/ SaveQuestion
  \/ \E call \in Range(OpenCalls) : Interact(call)
  \/ \E call \in Range(OpenCalls) : Approve(call)
  \/ \E call \in Range(OpenCalls) : Work(call)
  \/ \E call \in Range(OpenCalls) : SaveResult(call)
  \/ Retry \/ Compact
  \/ \E outcome \in scenario.outcomes : Conclude(outcome)
  \/ FinishTurn \/ Rewind
  \/ DrawPage \/ Select \/ Disconnect \/ Reconnect

Spec == Init /\ [][Next]_vars

-----------------------------------------------------------------------------
(* Properties.                                                             *)

\* The terminal's transcript, changed step by step, is what the thread's state
\* makes of it: the events in their order with the results they have, and
\* after them the items being written, each once (transcript.rs, apply_change,
\* remove_active).  The output of a running operation is excepted: it is
\* added again with every update (transcript.rs:443).
TranscriptFollows == ShowsSaved(tui, server) /\ ShowsLive(tui, server)

\* A card stays drawn as that of the running turn when a request begins a turn
\* after it, until something is added to that turn (event_targets).
WasLast(reader) == reader.kind = "card" /\ ~IsLastTurn(web.replica, reader.turn)

\* Nothing marks the row of a command whose turn ended without its result
\* (TurnFinished, of invalidate).
LostCommand(asked) ==
  AwaitsNews(web.replica, asked.key, web.finalized) /\ Outcome(web.replica, asked.turn) # "none"

\* A selection of an earlier turn's item is taken for the item of that id.
Mistaken(reader) == reader.kind = "detail" /\ \E one \in selected : one.during # web.known

\* Drawing what is due makes the page what it is when it is drawn from
\* nothing: no event, item or interaction stays hidden or outdated because a
\* change marked too little (invalidate, event_targets, read_turn,
\* read_activity).
ShownIsCurrent ==
  \A drawn \in {Drawn}, afresh \in {Afresh} : \A reader \in DOMAIN afresh :
    \/ WasLast(reader) \/ LostCommand(afresh[reader].asked) \/ Mistaken(reader)
    \/ reader \in DOMAIN drawn /\ drawn[reader].shows = afresh[reader].shows

\* In the turn it was made in, a selection of an item that was being written
\* names the event the item became, if that is still there
\* (resolve_activity_key, FinalizedActivities).
NamesItsEvent(one) ==
  \A sequence \in one.was :
    \A event \in EventAt(web.replica, sequence) :
      Resolve(web.replica, one.key, web.finalized).n = event.sequence
SelectionResolves == \A one \in selected : one.during = web.known => NamesItsEvent(one)

\* The page shows what its replica of the thread says.
PageFollows == ShownIsCurrent /\ SelectionResolves
=============================================================================
