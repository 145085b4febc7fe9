---------------------------- MODULE TuiTranscript ----------------------------
(***************************************************************************)
(* The transcript of the terminal client (TranscriptState, crates/atra-tui *)
(* /src/transcript.rs): entries, and which of them stand for the items of  *)
(* the turn that runs.  A change of the thread is applied to the entries   *)
(* that are there; only replaced events and a snapshot build them anew.    *)
(*                                                                         *)
(* An entry has the sequence number of its event, 0 if it has none.  The   *)
(* entry of a custom command call also carries what its operation came to  *)
(* and whether it waits for an approval; a call is one operation here.     *)
(* What is drawn of an entry, and the cleaning of its text, is left out.   *)
(***************************************************************************)
EXTENDS TurnProjection

Nothing == [state |-> "none", output |-> <<>>]

Entry(sequence, kind, call, text) ==
  [sequence |-> sequence, kind |-> kind, call |-> call, text |-> text,
   result |-> Nothing, approval |-> FALSE]

NewTranscript == [entries |-> <<>>, active |-> <<>>]

\* item_from_event: the entry of an event, if it has one
EntryOf(event) ==
  LET entry(kind) == <<Entry(event.sequence, kind, event.call, event.text)>> IN
  CASE event.kind = "reasoning" -> IF event.text = <<>> THEN <<>> ELSE entry("reasoning")
    [] event.kind = "custom" -> entry("runner")
    [] event.kind = "function" -> entry(IF event.tool = "question" THEN "question" ELSE "call")
    [] event.kind \in {"user", "skill", "assistant", "search", "result", "compaction"} -> entry(event.kind)
    [] OTHER -> <<>>

\* What an active item other than a Runner's is drawn as.
EntryOfItem(item) == Entry(0, item.kind, NoCall, item.text)

LastOf(entries, Test(_)) ==
  LET found == IndicesOf(entries, Test) IN
  {i \in found : \A j \in found : j <= i}

FirstOf(entries, Test(_)) ==
  LET found == IndicesOf(entries, Test) IN
  {i \in found : \A j \in found : i <= j}

IsRunnerCall(entry, call) == entry.kind = "runner" /\ entry.call = call

-----------------------------------------------------------------------------
(* Results.                                                                *)

Completed(event) ==
  IF event.tool = "command" /\ event.text # <<>>
  THEN [state |-> "completed", output |-> <<>>] ELSE Nothing

\* The entry that a result completes: the last of its call.
MergeTarget(entries, event) ==
  CASE event.kind # "result" -> {}
    [] event.tool = "command" -> LastOf(entries, LAMBDA entry : IsRunnerCall(entry, event.call))
    [] event.tool = "question" ->
         LastOf(entries, LAMBDA entry : entry.kind = "question" /\ entry.call = event.call /\ event.text # <<>>)
    [] OTHER -> {}

\* merge_tool_result, for the entry it finds
Merged(entry, event) ==
  CASE entry.kind = "question" -> [entry EXCEPT !.result = [state |-> "answered", output |-> event.text]]
    [] Completed(event) # Nothing -> [entry EXCEPT !.result = Completed(event)]
    [] OTHER -> entry

\* append_event, and each step of transcript_from_events
AppendEvent(entries, event) ==
  LET target == MergeTarget(entries, event) IN
  IF target # {}
  THEN [i \in DOMAIN entries |-> IF i \in target THEN Merged(entries[i], event) ELSE entries[i]]
  ELSE entries \o EntryOf(event)

\* transcript_from_events
FromEvents(events) == FoldLeft(AppendEvent, <<>>, events)

-----------------------------------------------------------------------------
(* Active items.                                                           *)

\* update_runner_operation: output is added to what is there, a completed
\* operation takes no more of it.
Updated(result, update) ==
  CASE update.kind = "started" -> [state |-> "running", output |-> <<>>]
    [] update.kind = "output" ->
         IF result.state = "completed" THEN result
         ELSE [state |-> "running", output |-> result.output \o update.content]
    [] update.kind = "completed" -> [state |-> "completed", output |-> <<>>]

UpdateRunner(entries, call, update) ==
  LET target == LastOf(entries, LAMBDA entry : IsRunnerCall(entry, call)) IN
  [i \in DOMAIN entries |->
     IF i \in target THEN [entries[i] EXCEPT !.result = Updated(@, update)] ELSE entries[i]]

\* set_pending_approval: at the last command, whichever the approval is for
MarkApproval(entries, pending) ==
  LET target == LastOf(entries, LAMBDA entry : entry.kind = "runner") IN
  [i \in DOMAIN entries |->
     IF i \in target THEN [entries[i] EXCEPT !.approval = pending] ELSE entries[i]]

\* synchronize_active
Synchronize(t, item) ==
  IF item.kind = "runner"
  THEN [entries |-> UpdateRunner(t.entries, item.call, item.update),
        active  |-> Upsert(t.active, item.id, [at |-> 0, call |-> item.call])]
  ELSE IF item.id \in DOMAIN t.active
  THEN [t EXCEPT !.entries[t.active[item.id].at] = EntryOfItem(item)]
  ELSE [entries |-> Append(t.entries, EntryOfItem(item)),
        active  |-> Upsert(t.active, item.id, [at |-> Len(t.entries) + 1, call |-> NoCall])]

ItemsOf(s) == IF s.turn = {} THEN <<>> ELSE (CHOOSE turn \in s.turn : TRUE).items
AwaitsApproval(s) == \E turn \in s.turn : \E pending \in turn.pending : pending.kind = "approval"

\* restore_runner_call: the first entry of the call, as the events and the
\* items that are left have it
Restore(entries, s, call) ==
  LET at == FirstOf(entries, LAMBDA entry : IsRunnerCall(entry, call))
      called == FirstOf(s.events, LAMBDA event : event.kind \in {"custom", "function"} /\ event.call = call)
      anew(i) == FoldLeft(LAMBDA entry, event : IF event.kind = "result" /\ event.call = call
                                                THEN Merged(entry, event) ELSE entry,
                          EntryOf(s.events[i])[1], s.events)
      restored == [j \in DOMAIN entries |->
                     IF j \in at THEN anew(CHOOSE i \in called : TRUE) ELSE entries[j]] IN
  IF at = {} \/ called = {} THEN entries
  ELSE FoldLeft(LAMBDA es, item : IF item.kind = "runner" /\ item.call = call
                                  THEN UpdateRunner(es, call, item.update) ELSE es,
                restored, ItemsOf(s))

RemoveUnshifted(t, id, s) ==   \* mutant: the entries behind the removed one keep their place
  IF id \notin DOMAIN t.active THEN t
  ELSE LET gone == t.active[id] IN
       IF gone.at = 0
       THEN [entries |-> Restore(t.entries, s, gone.call), active |-> Without(t.active, {id})]
       ELSE [entries |-> RemoveAt(t.entries, gone.at), active |-> Without(t.active, {id})]

\* remove_active
RemoveActive(t, id, s) ==
  IF id \notin DOMAIN t.active THEN t
  ELSE LET gone == t.active[id]
           rest == Without(t.active, {id}) IN
       IF gone.at = 0
       THEN [entries |-> Restore(t.entries, s, gone.call), active |-> rest]
       ELSE [entries |-> RemoveAt(t.entries, gone.at),
             active  |-> [i \in DOMAIN rest |->
                            IF rest[i].at > gone.at THEN [rest[i] EXCEPT !.at = @ - 1] ELSE rest[i]]]

RemoveAll(t, ids, s) ==
  FoldSet(LAMBDA id, u : RemoveActive(u, id, s), t, ids)

-----------------------------------------------------------------------------
\* rebuild
Rebuild(s) ==
  LET t == FoldLeft(Synchronize, [entries |-> FromEvents(s.events), active |-> <<>>], ItemsOf(s)) IN
  IF AwaitsApproval(s) THEN [t EXCEPT !.entries = MarkApproval(@, TRUE)] ELSE t

\* apply_change: what an operation, already applied to the thread, does here
ApplyChange(t, s, op) ==
  CASE op.op = "event" -> [t EXCEPT !.entries = AppendEvent(@, op.event)]
    [] op.op = "item added" -> Synchronize(t, op.item)
    [] op.op \in {"text", "assistant text", "search", "runner update", "runner output"} ->
         FoldLeft(LAMBDA u, item : IF item.id = op.id THEN Synchronize(u, item) ELSE u, t, ItemsOf(s))
    [] op.op = "finalized" ->
         LET u == RemoveActive(t, op.id, s) IN [u EXCEPT !.entries = AppendEvent(@, op.event)]
    [] op.op = "results" ->
         LET u == RemoveAll(t, op.ids, s) IN [u EXCEPT !.entries = AppendEvent(@, op.event)]
    [] op.op = "replaced" -> Rebuild(s)
    [] op.op \in {"requested", "resolved"} -> [t EXCEPT !.entries = MarkApproval(@, AwaitsApproval(s))]
    [] op.op = "finished" ->
         LET u == RemoveAll(t, DOMAIN t.active, s) IN [u EXCEPT !.entries = MarkApproval(@, FALSE)]
    [] OTHER -> t

-----------------------------------------------------------------------------
(* What it should come to.                                                 *)

\* An entry without what is drawn of running operations and of approvals.
Settled(entry) == [entry EXCEPT !.result = IF @.state = "running" THEN Nothing ELSE @,
                                !.approval = FALSE]

SavedEntries(t) == SelectSeq(t.entries, LAMBDA entry : entry.sequence # 0)
LiveEntries(t)  == SelectSeq(t.entries, LAMBDA entry : entry.sequence = 0)

\* The events, each once and in order, with the results the calls have so far.
ShowsSaved(t, s) ==
  LET built == SavedEntries(Rebuild(s))
      shown == SavedEntries(t) IN
  /\ Len(shown) = Len(built)
  /\ \A i \in DOMAIN built : /\ Settled(shown[i]) = Settled(built[i])
                             /\ shown[i].result.state = built[i].result.state

\* The items of the turn, each once and in order, with the text they have.
ShowsLive(t, s) ==
  LET items == SelectSeq(ItemsOf(s), LAMBDA item : item.kind # "runner") IN
  LiveEntries(t) = [i \in DOMAIN items |-> EntryOfItem(items[i])]
=============================================================================
