--------------------------- MODULE TurnProjection ---------------------------
(***************************************************************************)
(* How the Controller shows a turn to its clients while it runs            *)
(* (TurnProjector, crates/atra-controller/src/commands.rs): which active   *)
(* item stands for what is being streamed or run, and the operations on    *)
(* the thread's view that an update or a saved event amounts to.           *)
(*                                                                         *)
(* A call is one operation of a Runner here, so that a call's id is the    *)
(* key of its Runner item.                                                 *)
(***************************************************************************)
EXTENDS ViewState

NoCall == <<>>

NewProjection ==
  [next |-> 1, assistant |-> {}, reasoning |-> {}, searches |-> <<>>, calls |-> <<>>,
   runner |-> <<>>, retrying |-> FALSE]

\* An active item: its key in the provider's stream, what it shows, and of a
\* message its phase, of a Runner's item the last update.
ActiveItem(id, kind, key, text) ==
  [id |-> id, kind |-> kind, item |-> key.item, call |-> key.call, text |-> text,
   phase |-> "none", update |-> [kind |-> "none"]]

Key(item, call) == [item |-> item, call |-> call]

ItemAdded(item) == [op |-> "item added", item |-> item]
TextAdded(id, text) == [op |-> "text", id |-> id, content |-> text]

\* restore_running_phase
Restored(p) == IF p.retrying THEN <<[op |-> "phase", phase |-> "running"]>> ELSE <<>>

Projected(p, ops) == {[projection |-> p, ops |-> ops]}

\* The first delta of a message or of a reasoning adds its item.
ProjectText(p, slot, text, phase) ==
  LET q == [p EXCEPT !.retrying = FALSE]
      new == [ActiveItem(p.next, slot, Key(NoCall, NoCall), text) EXCEPT !.phase = phase]
      more(id) == IF slot = "reasoning" THEN TextAdded(id, text)
                  ELSE [op |-> "assistant text", id |-> id, content |-> text, phase |-> phase] IN
  UNION {Projected(q, Append(Restored(p), more(id))) : id \in p[slot]}
  \cup (IF p[slot] # {} THEN {}
        ELSE Projected([[q EXCEPT ![slot] = {p.next}] EXCEPT !.next = @ + 1],
                       Append(Restored(p), ItemAdded(new))))

ProjectSearch(p, id, action) ==
  LET q == [p EXCEPT !.retrying = FALSE] IN
  IF id \in DOMAIN p.searches
  THEN Projected(q, Append(Restored(p), [op |-> "search", id |-> p.searches[id], action |-> action]))
  ELSE Projected([q EXCEPT !.searches = Upsert(@, id, p.next), !.next = @ + 1],
                 Append(Restored(p), ItemAdded(ActiveItem(p.next, "search", Key(id, NoCall), action))))

ProjectCall(p, id, call) ==
  Projected([p EXCEPT !.retrying = FALSE, !.calls = Upsert(Upsert(@, id, p.next), call, p.next), !.next = @ + 1],
            Append(Restored(p), ItemAdded(ActiveItem(p.next, "call", Key(id, call), <<>>))))

ProjectRunner(p, e) ==
  IF e.call \in DOMAIN p.runner
  THEN Projected(p, <<[op |-> "runner update", id |-> p.runner[e.call], update |-> e.update]>>)
  ELSE Projected([p EXCEPT !.runner = Upsert(@, e.call, p.next), !.next = @ + 1],
                 <<ItemAdded([ActiveItem(p.next, "runner", Key(NoCall, e.call), <<>>) EXCEPT !.update = e.update])>>)

\* apply_update, but for a retry: what becomes of the projection and what is
\* applied to the view; no result is an error of the turn.
ProjectUpdate(p, e) ==
  CASE e.event = "assistant" -> ProjectText(p, "assistant", e.text, e.phase)
    [] e.event = "reasoning" -> ProjectText(p, "reasoning", e.text, "none")
    [] e.event = "part" ->
         IF p.reasoning = {} THEN Projected(p, <<>>)
         ELSE UNION {Projected(p, <<TextAdded(id, <<>>)>>) : id \in p.reasoning}
    [] e.event = "search" -> ProjectSearch(p, e.id, e.action)
    [] e.event = "call" -> ProjectCall(p, e.id, e.call)
    [] e.event = "call text" ->
         IF e.id \in DOMAIN p.calls THEN Projected(p, <<TextAdded(p.calls[e.id], e.text)>>) ELSE {}
    [] e.event = "runner update" -> ProjectRunner(p, e)
    [] e.event = "runner output" ->
         IF e.call \in DOMAIN p.runner
         THEN Projected(p, <<[op |-> "runner output", id |-> p.runner[e.call], content |-> e.text]>>)
         ELSE {}

\* The active item an event completes, with what remains of the projection;
\* a search that is not found by its id completes any other.
Completes(p, event) ==
  CASE event.kind = "assistant" -> {[ids |-> p.assistant, left |-> [p EXCEPT !.assistant = {}]]}
    [] event.kind = "reasoning" -> {[ids |-> p.reasoning, left |-> [p EXCEPT !.reasoning = {}]]}
    [] event.kind = "search" ->
         LET candidates == IF event.id \in DOMAIN p.searches THEN {event.id} ELSE DOMAIN p.searches IN
         IF candidates = {} THEN {[ids |-> {}, left |-> p]}
         ELSE {[ids |-> {p.searches[c]}, left |-> [p EXCEPT !.searches = Without(@, {c})]] : c \in candidates}
    [] event.kind \in {"function", "custom"} ->
         LET key == IF event.kind = "custom" THEN event.id ELSE event.call
             ids == {p.calls[k] : k \in DOMAIN p.calls \cap {key}} IN
         {[ids |-> ids, left |-> [p EXCEPT !.calls = Without(@, {k \in DOMAIN @ : @[k] \in ids})]]}
    [] event.kind = "result" ->
         {[ids |-> {p.runner[k] : k \in DOMAIN p.runner \cap {event.call}},
           left |-> [p EXCEPT !.runner = Without(@, {event.call})]]}
    [] OTHER -> {[ids |-> {}, left |-> p]}

\* project_final_event
ProjectEvent(p, event) ==
  UNION {Projected(c.left,
           CASE c.ids = {} -> <<[op |-> "event", event |-> event]>>
             [] event.kind = "result" -> <<[op |-> "results", event |-> event, ids |-> c.ids]>>
             [] OTHER -> <<[op |-> "finalized", event |-> event, id |-> CHOOSE id \in c.ids : TRUE]>>) :
         c \in Completes(p, event)}

=============================================================================
