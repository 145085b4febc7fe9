------------------------------ MODULE ViewState ------------------------------
(***************************************************************************)
(* The states that the Controller publishes and the operations that change *)
(* them (crates/atra-protocol/src/state.rs).  The Controller and every     *)
(* client apply the same operations, each to its own copy.                 *)
(*                                                                         *)
(* An operation either is rejected or has one result: "Next" operators     *)
(* give the set of results, which is empty for a rejected operation.  An   *)
(* Option of the source is a set with at most one member.                  *)
(***************************************************************************)
EXTENDS Integers, Sequences, SequencesExt

When(allowed, state) == IF allowed THEN {state} ELSE {}

\* upsert_by, for a map whose order nobody reads
Upsert(map, key, value) ==
  [k \in DOMAIN map \cup {key} |-> IF k = key THEN value ELSE map[k]]

Without(map, keys) == [k \in DOMAIN map \ keys |-> map[k]]

IndicesOf(seq, Test(_)) == {i \in DOMAIN seq : Test(seq[i])}

Ascending(events) ==
  \A i \in 1..Len(events) - 1 : events[i].sequence < events[i + 1].sequence

\* validate_appended_event
Appendable(events, event) ==
  events = <<>> \/ events[Len(events)].sequence < event.sequence

-----------------------------------------------------------------------------
(* The Controller: its lifecycle, its threads, the latest first, the status *)
(* of each, its providers and its Runners.                                 *)

NewController(threads, providers) ==
  [lifecycle |-> "running", threads |-> threads,
   statuses  |-> [id \in {threads[i].id : i \in DOMAIN threads} |-> "idle"],
   providers |-> providers, runners |-> <<>>]

ControllerNext(s, op) ==
  LET found(id) == IndicesOf(s.threads, LAMBDA thread : thread.id = id) IN
  CASE op.op = "lifecycle" -> {[s EXCEPT !.lifecycle = op.lifecycle]}
    [] op.op = "added" ->
         When(found(op.thread.id) = {},
              [s EXCEPT !.threads = <<op.thread>> \o @,
                        !.statuses = Upsert(@, op.thread.id, "idle")])
    [] op.op = "updated" -> {[s EXCEPT !.threads[i] = op.thread] : i \in found(op.thread.id)}
    [] op.op = "removed" ->
         {[s EXCEPT !.threads = RemoveAt(@, i), !.statuses = Without(@, {op.id})] :
            i \in found(op.id)}
    [] op.op = "status" ->
         When(op.id \in DOMAIN s.statuses, [s EXCEPT !.statuses = Upsert(@, op.id, op.status)])
    [] op.op = "provider" -> {[s EXCEPT !.providers = Upsert(@, op.id, op.provider)]}
    [] op.op = "runner" -> {[s EXCEPT !.runners = Upsert(@, op.name, op.runner)]}

-----------------------------------------------------------------------------
(* A thread: its metadata, its events, the turn that runs, the outcome of  *)
(* the last one, its checkpoints, the latest first, and the status of each *)
(* of its processes.                                                       *)

NewThread(metadata, events, checkpoints, processes) ==
  When(Ascending(events),
       [metadata |-> metadata, events |-> events, turn |-> {}, outcome |-> {},
        checkpoints |-> checkpoints, processes |-> processes])

NewTurn(phase) == [phase |-> phase, items |-> <<>>, pending |-> {}, retry |-> {}]

InTurn(s, Change(_)) ==
  {[s EXCEPT !.turn = {t}] : t \in UNION {Change(t) : t \in s.turn}}

\* The active item with an id, if it has the kind the operation is for.
EditItem(s, id, kinds, Edit(_)) ==
  InTurn(s, LAMBDA t :
    {[t EXCEPT !.items[i] = Edit(t.items[i])] :
       i \in IndicesOf(t.items, LAMBDA item : item.id = id /\ item.kind \in kinds)})

\* append_runner_output: output follows the start of a command, or output.
RunnerOutput(item, op) ==
  [item EXCEPT !.update = [kind    |-> "output",
                           content |-> IF @.kind = "output" THEN @.content \o op.content
                                                            ELSE op.content]]

ItemNext(s, op) ==
  CASE op.op = "item added" ->
         InTurn(s, LAMBDA t :
           When(\A i \in DOMAIN t.items : t.items[i].id # op.item.id,
                [t EXCEPT !.items = Append(@, op.item)]))
    [] op.op = "text" ->
         EditItem(s, op.id, {"assistant", "reasoning", "call"},
                  LAMBDA item : [item EXCEPT !.text = @ \o op.content])
    [] op.op = "assistant text" ->
         EditItem(s, op.id, {"assistant"},
                  LAMBDA item : [item EXCEPT !.text = @ \o op.content, !.phase = op.phase])
    [] op.op = "search" ->
         EditItem(s, op.id, {"search"}, LAMBDA item : [item EXCEPT !.text = op.action])
    [] op.op = "runner update" ->
         EditItem(s, op.id, {"runner"}, LAMBDA item : [item EXCEPT !.update = op.update])
    [] op.op = "runner output" ->
         InTurn(s, LAMBDA t :
           {[t EXCEPT !.items[i] = RunnerOutput(t.items[i], op)] :
              i \in IndicesOf(t.items, LAMBDA item :
                      /\ item.id = op.id /\ item.kind = "runner"
                      /\ item.update.kind \in {"started", "output"})})
    [] op.op = "discarded" ->
         InTurn(s, LAMBDA t :
           {[t EXCEPT !.items = RemoveAt(@, i)] :
              i \in IndicesOf(t.items, LAMBDA item : item.id = op.id)})

\* An active item, or the Runner's items of a call, become an event.
Finalize(s, event, ids, Valid(_)) ==
  {[s EXCEPT !.events = Append(@, event),
             !.turn = {[t EXCEPT !.items = SelectSeq(@, LAMBDA item : item.id \notin ids)]}] :
     t \in {t \in s.turn :
              /\ Appendable(s.events, event)
              /\ \A id \in ids : \E i \in DOMAIN t.items : t.items[i].id = id /\ Valid(t.items[i])}}

TurnNext(s, op) ==
  CASE op.op = "started" ->
         When(s.turn = {}, [s EXCEPT !.turn = {NewTurn(op.phase)}, !.outcome = {}])
    [] op.op = "finalized" -> Finalize(s, op.event, {op.id}, LAMBDA item : TRUE)
    [] op.op = "results" ->
         IF op.event.kind # "result" \/ op.ids = {} THEN {}
         ELSE Finalize(s, op.event, op.ids,
                LAMBDA item : item.kind = "runner" /\ item.call = op.event.call)
    [] op.op = "phase" -> InTurn(s, LAMBDA t : {[t EXCEPT !.phase = op.phase, !.retry = {}]})
    [] op.op = "retry" ->
         InTurn(s, LAMBDA t : {[t EXCEPT !.phase = "retrying", !.retry = {op.retry}]})
    [] op.op = "requested" ->
         InTurn(s, LAMBDA t :
           When(t.pending = {}, [t EXCEPT !.phase = "awaiting input", !.retry = {},
                                          !.pending = {op.interaction}]))
    [] op.op = "resolved" ->
         InTurn(s, LAMBDA t :
           When(/\ t.phase = "awaiting input"
                /\ \E pending \in t.pending : pending.id = op.id,
                [t EXCEPT !.phase = "running", !.retry = {}, !.pending = {}]))
    [] op.op = "finished" ->
         When(s.turn # {}, [s EXCEPT !.turn = {}, !.outcome = {op.outcome}])

ThreadNext(s, op) ==
  CASE op.op = "metadata" -> When(op.metadata.id = s.metadata.id, [s EXCEPT !.metadata = op.metadata])
    [] op.op = "event" -> When(Appendable(s.events, op.event), [s EXCEPT !.events = Append(@, op.event)])
    [] op.op = "replaced" -> When(Ascending(op.events), [s EXCEPT !.events = op.events])
    [] op.op = "checkpoint" ->
         When(\A i \in DOMAIN s.checkpoints : s.checkpoints[i] # op.checkpoint,
              [s EXCEPT !.checkpoints = <<op.checkpoint>> \o @])
    [] op.op = "process" -> {[s EXCEPT !.processes = Upsert(@, op.process, op.status)]}
    [] op.op \in {"started", "finalized", "results", "phase", "retry", "requested",
                  "resolved", "finished"} -> TurnNext(s, op)
    [] OTHER -> ItemNext(s, op)

\* agent_status: what the list of threads shows of a thread
AgentStatus(s) ==
  LET shown(t) ==
        IF \E p \in t.pending : p.kind = "questions" THEN "awaiting question"
        ELSE IF t.pending # {} THEN "awaiting approval"
        ELSE IF t.phase \in {"compacting", "cancelling"} THEN t.phase ELSE "running"
      known == {shown(t) : t \in s.turn} \cup (IF s.turn = {} THEN s.outcome ELSE {}) IN
  IF known = {} THEN "idle" ELSE CHOOSE status \in known : TRUE

-----------------------------------------------------------------------------
(* A process: its status, the tail of its output and how much came before. *)

ProcessNext(s, op) ==
  CASE op.op = "output" ->
         When(op.truncate <= Len(s.tail) /\ s.omitted <= op.omitted,
              [s EXCEPT !.tail = SubSeq(@, op.truncate + 1, Len(@)) \o op.content,
                        !.omitted = op.omitted])
    [] op.op = "status" ->
         When(s.status = "running" \/ op.status # "running", [s EXCEPT !.status = op.status])

\* suffix_prefix_overlap: the longest end of one text that begins the other
Overlap(previous, current) ==
  LET shorter == IF Len(previous) < Len(current) THEN Len(previous) ELSE Len(current) IN
  CHOOSE n \in 0..shorter :
    LET Fits(k) == SubSeq(previous, Len(previous) - k + 1, Len(previous)) = SubSeq(current, 1, k)
    IN Fits(n) /\ \A k \in n + 1..shorter : ~Fits(k)

-----------------------------------------------------------------------------
StateNext(kind, s, op) ==
  CASE kind = "controller" -> ControllerNext(s, op)
    [] kind = "thread"     -> ThreadNext(s, op)
    [] kind = "process"    -> ProcessNext(s, op)

\* What a sequence of operations leads to, if none of them is rejected.
After(kind, s, ops) ==
  FoldLeft(LAMBDA states, op : UNION {StateNext(kind, t, op) : t \in states}, {s}, ops)
=============================================================================
