---------------------------- MODULE WebTranscript ----------------------------
(***************************************************************************)
(* How the web client reads a thread (crates/atra-web-ui/src/              *)
(* transcript_view.rs): its turns, the activities of a turn and what is    *)
(* shown of one.  Everything is computed from the thread's state and from  *)
(* the map that remembers which event an active item became.               *)
(*                                                                         *)
(* Left out: the wording, the to-do lists of messages, the diffs of a      *)
(* command, and that a command may have several operations.                *)
(***************************************************************************)
EXTENDS TurnProjection

Boundary(event) == event.kind \in {"user", "compaction"}

EventAt(s, sequence) ==
  {s.events[i] : i \in IndicesOf(s.events, LAMBDA event : event.sequence = sequence)}

\* turn_keys: a turn is named by the event it begins with.
TurnKeys(s) ==
  LET starts == SelectSeq(s.events, Boundary) IN [i \in DOMAIN starts |-> starts[i].sequence]

\* turn: the events of a turn, from its boundary to the next
TurnEvents(s, key) ==
  LET later == {k \in Range(TurnKeys(s)) : k > key} IN
  IF key \notin Range(TurnKeys(s)) THEN <<>>
  ELSE SelectSeq(s.events, LAMBDA event : event.sequence >= key
                                          /\ \A k \in later : event.sequence < k)

HasTurn(s, key) == TurnEvents(s, key) # <<>>

\* TurnRef::is_last, and can_have_active
IsLastTurn(s, key) == HasTurn(s, key) /\ \A k \in Range(TurnKeys(s)) : k <= key

\* turn_key_for_event
TurnKeyOf(s, sequence) ==
  LET before == {k \in Range(TurnKeys(s)) : k <= sequence} IN
  {k \in before : EventAt(s, sequence) # {} /\ \A j \in before : j <= k}

ActiveItems(s) == IF s.turn = {} THEN <<>> ELSE (CHOOSE turn \in s.turn : TRUE).items
ItemWithId(s, id) ==
  {ActiveItems(s)[i] : i \in IndicesOf(ActiveItems(s), LAMBDA item : item.id = id)}

-----------------------------------------------------------------------------
(* Activities: a key names one across renders.                             *)

ActivityKey(at, n, identity) == [at |-> at, n |-> n, identity |-> identity]
EventKey(event) == ActivityKey("event", event.sequence, NoCall)
ToolKey(event)  == ActivityKey("tool", event.sequence, event.call)

\* The key of an item: a call keeps its identity when it becomes an event.
ItemKey(item) ==
  CASE item.kind = "call" ->
         ActivityKey("stable", item.id, IF item.call = NoCall THEN item.item ELSE item.call)
    [] item.kind = "search" -> ActivityKey("stable", item.id, item.item)
    [] OTHER -> ActivityKey("active", item.id, NoCall)

IsCall(event) == event.kind \in {"custom", "function"}

\* One event of a turn: the keys so far, and the calls that wait for a result.
AddActivity(acc, event) ==
  LET add == Append(acc.keys, EventKey(event))
      waiting == {i \in acc.waiting : acc.keys[i].identity = event.call}
      latest == {i \in waiting : \A j \in waiting : j <= i} IN
  CASE event.kind = "assistant" ->
         IF event.phase = "commentary" THEN [acc EXCEPT !.keys = add] ELSE acc
    [] IsCall(event) -> [keys    |-> Append(acc.keys, ToolKey(event)),
                         waiting |-> acc.waiting \cup {Len(acc.keys) + 1}]
    [] event.kind = "result" ->
         IF latest = {} THEN [acc EXCEPT !.keys = add]
         ELSE [acc EXCEPT !.waiting = @ \ latest]
    [] event.kind \in {"reasoning", "search", "skill", "compaction", "retry"} -> [acc EXCEPT !.keys = add]
    [] event.kind = "approval" -> IF acc.waiting = {} THEN [acc EXCEPT !.keys = add] ELSE acc
    [] OTHER -> acc

SavedActivities(s, key) ==
  FoldLeft(AddActivity, [keys |-> <<>>, waiting |-> {}], TurnEvents(s, key)).keys

\* activity_keys: those of the events, then, in the last turn, of the active
\* items, but for its answer and for Runner items whose call is there.
ActivityKeys(s, key) ==
  LET saved == SavedActivities(s, key)
      Own(keys, item) == /\ ~(item.kind = "assistant" /\ item.phase = "final")
                         /\ item.kind = "runner" => \A i \in DOMAIN keys : keys[i].identity # item.call IN
  IF ~IsLastTurn(s, key) THEN saved
  ELSE FoldLeft(LAMBDA keys, item : IF Own(keys, item) THEN Append(keys, ItemKey(item)) ELSE keys,
                saved, ActiveItems(s))

\* What ties a call that was saved to the item it was, or a search.
SameIdentity(s, key, identity) ==
  \E event \in EventAt(s, key.n) :
    \/ /\ key.at = "tool" /\ IsCall(event)
       /\ identity \in {event.call} \cup (IF event.kind = "custom" THEN {event.id} ELSE {})
    \/ key.at = "event" /\ event.kind = "search" /\ event.id = identity

\* finalized_activity_key: the first activity with that identity
FinalizedKey(s, identity) ==
  LET keys == FlattenSeq([i \in DOMAIN TurnKeys(s) |-> SavedActivities(s, TurnKeys(s)[i])])
      found == IndicesOf(keys, LAMBDA key : SameIdentity(s, key, identity)) IN
  {keys[i] : i \in {i \in found : \A j \in found : i <= j}}

\* resolve_activity_key: what a key names now
Resolve(s, key, finalized) ==
  IF key.at \notin {"active", "stable"} \/ ItemWithId(s, key.n) # {} THEN key
  ELSE IF key.at = "stable"
  THEN LET found == FinalizedKey(s, key.identity) IN IF found = {} THEN key ELSE CHOOSE k \in found : TRUE
  ELSE IF key.n \in DOMAIN finalized THEN ActivityKey("event", finalized[key.n], NoCall)
  ELSE key

-----------------------------------------------------------------------------
(* What is shown.                                                          *)

Display(shows, text) == [shows |-> shows, text |-> text, status |-> "none", output |-> <<>>, approvals |-> <<>>]
NoDisplay == Display("nothing", <<>>)

\* tool_activity_state: the result of a call, and the approvals counted as
\* its own, those decided while no later call waits
ToolState(s, sequence) ==
  LET own == TurnKeyOf(s, sequence)
      events == IF own = {} THEN <<>> ELSE TurnEvents(s, CHOOSE k \in own : TRUE)
      call == (CHOOSE event \in EventAt(s, sequence) : TRUE).call
      Step(acc, event) ==
        LET later == IndicesOf(acc.later, LAMBDA one : one = event.call) IN
        CASE acc.result # {} \/ event.sequence <= sequence -> acc
          [] IsCall(event) -> [acc EXCEPT !.later = Append(@, event.call)]
          [] event.kind = "result" ->
               IF later # {} THEN [acc EXCEPT !.later = RemoveAt(@, CHOOSE i \in later : \A j \in later : j <= i)]
               ELSE IF event.call = call THEN [acc EXCEPT !.result = {event}] ELSE acc
          [] event.kind = "approval" ->
               IF acc.later = <<>> THEN [acc EXCEPT !.approvals = Append(@, event.sequence)] ELSE acc
          [] OTHER -> acc IN
  FoldLeft(Step, [later |-> <<>>, result |-> {}, approvals |-> <<>>], events)

\* apply_runner_update
ApplyUpdate(display, update) ==
  CASE update.kind = "started" -> [display EXCEPT !.status = "running"]
    [] update.kind = "output" -> [display EXCEPT !.status = "running", !.output = update.content]
    [] update.kind = "completed" -> [display EXCEPT !.status = "finished"]

\* command_display: the command, its result, and over it what its Runner's
\* items say
CommandDisplay(s, text, call, results, approvals) ==
  LET asked == [Display("command", text) EXCEPT
                  !.approvals = approvals,
                  !.status = IF \E r \in results : r.text # <<>> THEN "finished" ELSE "queued"] IN
  FoldLeft(LAMBDA display, item : IF item.kind = "runner" /\ item.call = call
                                  THEN ApplyUpdate(display, item.update) ELSE display,
           asked, ActiveItems(s))

ShowTool(s, event) ==
  LET state == ToolState(s, event.sequence) IN
  CASE event.tool = "command" -> CommandDisplay(s, event.text, event.call, state.result, state.approvals)
    [] event.tool = "question" -> [Display("question", event.text) EXCEPT
                                     !.status = IF state.result = {} THEN "asked" ELSE "answered"]
    [] OTHER -> Display("unsupported", event.text)

ShowEvent(event) ==
  CASE event.kind = "assistant" ->
         IF event.phase = "commentary" THEN Display("assistant", event.text) ELSE NoDisplay
    [] event.kind = "result" -> Display("unmatched", <<>>)
    [] event.kind \in {"reasoning", "search", "skill", "compaction", "approval", "retry"} ->
         Display(event.kind, event.text)
    [] OTHER -> NoDisplay

\* active_activity
ShowItem(s, item) ==
  CASE item.kind = "call" -> CommandDisplay(s, item.text, item.call, {}, <<>>)
    [] item.kind = "runner" -> ApplyUpdate([Display("command", <<>>) EXCEPT !.status = "running"], item.update)
    [] OTHER -> Display(item.kind, item.text)

Only(displays) == IF displays = {} THEN NoDisplay ELSE CHOOSE display \in displays : TRUE

\* activity
Activity(s, key, finalized) ==
  Only(UNION {
    CASE resolved.at = "event" -> {ShowEvent(event) : event \in EventAt(s, resolved.n)}
      [] resolved.at = "tool"  -> {ShowTool(s, event) : event \in {e \in EventAt(s, resolved.n) : IsCall(e)}}
      [] OTHER -> {ShowItem(s, item) : item \in ItemWithId(s, resolved.n)}
    : resolved \in {Resolve(s, key, finalized)}})

\* activity_can_receive_active_updates
AwaitsNews(s, key, finalized) ==
  \E resolved \in {Resolve(s, key, finalized)} :
    \/ resolved.at \in {"active", "stable"}
    \/ resolved.at = "tool" /\ ToolState(s, resolved.n).result = {}

\* TurnRef::answer: in the last turn what is being written, or else the last
\* final message
Answer(s, key) ==
  LET written == SelectSeq(ActiveItems(s), LAMBDA item : item.kind = "assistant" /\ item.phase = "final")
      saved == SelectSeq(TurnEvents(s, key), LAMBDA event : event.kind = "assistant" /\ event.phase = "final") IN
  CASE IsLastTurn(s, key) /\ written # <<>> -> <<[sequence |-> 0, text |-> written[1].text]>>
    [] saved # <<>> -> <<[sequence |-> saved[Len(saved)].sequence, text |-> saved[Len(saved)].text]>>
    [] OTHER -> <<>>

\* TurnRef::outcome
Outcome(s, key) ==
  LET outcomes == SelectSeq(TurnEvents(s, key), LAMBDA event : event.kind = "outcome") IN
  IF outcomes = <<>> THEN "none" ELSE outcomes[Len(outcomes)].phase

\* What a TurnCard takes from the turn.
Card(s, key) ==
  [there      |-> HasTurn(s, key),
   active     |-> IsLastTurn(s, key) /\ s.turn # {},
   answer     |-> Answer(s, key),
   outcome    |-> Outcome(s, key),
   activities |-> ActivityKeys(s, key)]

-----------------------------------------------------------------------------
(* The raw transcript.                                                     *)

\* raw_keys
RawKeys(s) ==
  [i \in DOMAIN s.events |-> EventKey(s.events[i])]
  \o [i \in DOMAIN ActiveItems(s) |-> ActivityKey("active", ActiveItems(s)[i].id, NoCall)]

\* raw_item: an event or an item as it is, nothing if it is gone
RawItem(s, key) ==
  IF key.at = "event" THEN EventAt(s, key.n) ELSE ItemWithId(s, key.n)
=============================================================================
