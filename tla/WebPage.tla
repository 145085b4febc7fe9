------------------------------- MODULE WebPage -------------------------------
(***************************************************************************)
(* What of a thread's page is drawn again when its state changes           *)
(* (crates/atra-web-ui: ThreadStore of src/thread_store.rs, Transcript,    *)
(* TurnCard, ActivityRow, ActivityDetail, InteractionPanel and RawEventRow *)
(* of src/main.rs).                                                        *)
(*                                                                         *)
(* A reader is a component that read scopes of the store when it was last  *)
(* drawn.  It is drawn again only when one of them, or one above, was      *)
(* marked, or when what its parent asks it for changed.  A page maps the   *)
(* readers that are mounted to what they were asked, what they show, the   *)
(* scopes they read and whether they are due.                              *)
(*                                                                         *)
(* The groups of activities are open, and the rewind buttons, which read   *)
(* the connection, are left out.                                           *)
(***************************************************************************)
EXTENDS WebTranscript

-----------------------------------------------------------------------------
(* Scopes.                                                                 *)

Named(name) == [name |-> name, n |-> 0, call |-> NoCall]
Numbered(name, n) == [name |-> name, n |-> n, call |-> NoCall]
RunnerCall(call) == [name |-> "RunnerCall", n |-> 0, call |-> call]

\* The tree of scopes: a mark reaches what is below it.
Reaches(mark, scope) ==
  \/ mark = scope
  \/ mark.name = "Transcript"
  \/ mark.name = "ActiveTurnSlot" /\ scope.name \in {"ActiveItemList", "Interaction"}

\* turn_key_for_event, as a scope
TurnScope(s, sequence) == {Numbered("Turn", key) : key \in TurnKeyOf(s, sequence)}

RunnerCallsOf(s, ids) ==
  {RunnerCall(ActiveItems(s)[i].call) :
     i \in IndicesOf(ActiveItems(s), LAMBDA item : item.id \in ids /\ item.kind = "runner")}

\* event_targets
EventTargets(s, event) ==
  IF event.kind = "user" THEN {Named("TranscriptStructure")} ELSE TurnScope(s, event.sequence)

Contents == {Named("PrettyTranscriptContent"), Named("RawTranscriptContent")}
RawStructure == {Named("RawTranscriptStructure"), Named("RawTranscriptContent")}
PrettyContent == {Named("PrettyTranscriptContent")}

\* invalidate: the scopes an operation marks, in the state it led to
Marks(s, op) ==
  CASE op.op = "event" ->
         RawStructure \cup EventTargets(s, op.event)
         \cup (IF EventTargets(s, op.event) = {} THEN {} ELSE PrettyContent)
    [] op.op = "replaced" -> {Named("Transcript")}
    [] op.op = "started" -> {Named("ActiveTurnSlot")} \cup PrettyContent
    [] op.op = "item added" ->
         {Named("ActiveItemList")} \cup RunnerCallsOf(s, {op.item.id}) \cup Contents \cup RawStructure
    [] op.op \in {"text", "assistant text", "search", "runner update", "runner output"} ->
         {Numbered("ActiveItem", op.id)} \cup Contents
    [] op.op = "finalized" ->
         {Named("ActiveItemList"), Numbered("ActiveItem", op.id)} \cup TurnScope(s, op.event.sequence)
         \cup Contents \cup RawStructure
    [] op.op = "results" ->
         {Named("ActiveItemList")} \cup {Numbered("ActiveItem", id) : id \in op.ids}
         \cup TurnScope(s, op.event.sequence) \cup Contents \cup RawStructure
    [] op.op \in {"requested", "resolved"} -> {Named("Interaction")} \cup PrettyContent
    [] op.op = "finished" -> {Named("ActiveTurnSlot")} \cup Contents \cup RawStructure
    [] OTHER -> {}

\* Of the finished items only those whose event is still there are known.
Retain(finalized, s) ==
  LET sequences == {s.events[i].sequence : i \in DOMAIN s.events} IN
  [id \in {id \in DOMAIN finalized : finalized[id] \in sequences} |-> finalized[id]]

\* apply, for the map of finished items
Remember(finalized, s, op) ==
  CASE op.op = "finalized" -> Upsert(finalized, op.id, op.event.sequence)
    [] op.op = "replaced" -> Retain(finalized, s)
    [] OTHER -> finalized

-----------------------------------------------------------------------------
(* Readers.                                                                *)

Reader(kind, turn, key) == [kind |-> kind, turn |-> turn, key |-> key]
NoKey == ActivityKey("none", 0, NoCall)

StructureReader   == Reader("structure", 0, NoKey)
InteractionReader == Reader("interaction", 0, NoKey)
RawReader         == Reader("raw", 0, NoKey)
DetailReader      == Reader("detail", 0, NoKey)
CardReader(turn)  == Reader("card", turn, NoKey)

\* The name of a row in the page: the call that was active and the one that
\* was saved are the same row.
DomKey(key) ==
  IF key.at \in {"stable", "tool"} THEN ActivityKey("tool", 0, key.identity) ELSE key

RowReader(turn, key) == Reader("row", turn, DomKey(key))
RawRowReader(key)    == Reader("raw row", 0, key)

Pending(s) == UNION {turn.pending : turn \in s.turn}

\* What a reader that is asked for a turn and an activity shows.
Value(reader, asked, s, finalized) ==
  CASE reader.kind = "structure"   -> [turns |-> TurnKeys(s)]
    [] reader.kind = "interaction" -> [pending |-> Pending(s)]
    [] reader.kind = "raw"         -> [keys |-> RawKeys(s)]
    [] reader.kind = "card"        -> Card(s, reader.turn)
    [] reader.kind = "raw row"     -> [item |-> RawItem(s, asked.key)]
    [] reader.kind \in {"row", "detail"} -> Activity(s, asked.key, finalized)

\* read_turn: in the last turn also what is being written
CardReads(s, turn) ==
  LET answer == {i \in DOMAIN ActiveItems(s) : ActiveItems(s)[i].kind = "assistant"} IN
  {Numbered("Turn", turn)}
  \cup (IF ~IsLastTurn(s, turn) THEN {}
        ELSE {Named("ActiveTurnSlot"), Named("ActiveItemList")}
             \cup {Numbered("ActiveItem", ActiveItems(s)[i].id) : i \in {i \in answer : \A j \in answer : i <= j}})

ReadsTurnOnly(s, turn, key, finalized) == {Numbered("Turn", turn)}   \* mutant: a row does not follow its item

\* read_activity: the item, or the turn, and of a call without a result the
\* Runner's items
ActivityReads(s, turn, key, finalized) ==
  UNION {
    {IF resolved.at \in {"active", "stable"} THEN Numbered("ActiveItem", resolved.n) ELSE Numbered("Turn", turn)}
    \cup (IF resolved.at # "tool" \/ ~AwaitsNews(s, resolved, finalized) THEN {}
          ELSE {RunnerCall(resolved.identity)}
               \cup {Numbered("ActiveItem", item.id) :
                       item \in {i \in Range(ActiveItems(s)) : i.kind = "runner" /\ i.call = resolved.identity}})
    : resolved \in {Resolve(s, key, finalized)}}

\* The Transcript also draws itself again after its content changed: the
\* effect that follows the content sets what the Transcript reads.
Reads(reader, asked, s, finalized) ==
  CASE reader.kind = "structure"   -> {Named("TranscriptStructure"), Named("PrettyTranscriptContent")}
    [] reader.kind = "interaction" -> {Named("Interaction")}
    [] reader.kind = "raw"         -> {Named("RawTranscriptStructure"), Named("RawTranscriptContent")}
    [] reader.kind = "card"        -> CardReads(s, reader.turn)
    [] reader.kind = "raw row"     -> {IF asked.key.at = "event" THEN Numbered("Event", asked.key.n)
                                       ELSE Numbered("ActiveItem", asked.key.n)}
    [] reader.kind \in {"row", "detail"} -> ActivityReads(s, asked.turn, asked.key, finalized)

-----------------------------------------------------------------------------
(* Drawing.                                                                *)

Asked(turn, key) == [turn |-> turn, key |-> key]
NotAsked == Asked(0, NoKey)

\* A mounted reader is drawn again if it is due or asked for something else.
Draw(page, reader, asked, s, finalized) ==
  IF reader \in DOMAIN page /\ ~page[reader].due /\ page[reader].asked = asked THEN page[reader]
  ELSE [asked |-> asked, shows |-> Value(reader, asked, s, finalized),
        reads |-> Reads(reader, asked, s, finalized), due |-> FALSE]

DrawAll(page, askedOf, s, finalized) ==
  [reader \in DOMAIN askedOf |-> Draw(page, reader, askedOf[reader], s, finalized)]

\* The readers that one mounts by what it shows, each with what it is asked.
Mounts(reader, shows) ==
  CASE reader.kind = "structure" -> {<<CardReader(turn), Asked(turn, NoKey)>> : turn \in Range(shows.turns)}
    [] reader.kind = "card" ->
         {<<RowReader(reader.turn, key), Asked(reader.turn, key)>> : key \in Range(shows.activities)}
    [] reader.kind = "raw" -> {<<RawRowReader(key), Asked(0, key)>> : key \in Range(shows.keys)}
    [] OTHER -> {}

\* The drawn readers, and those they mount.
DrawBelow(drawn, page, s, finalized) ==
  LET mounted == UNION {Mounts(reader, drawn[reader].shows) : reader \in DOMAIN drawn}
      askedOf == [reader \in {mount[1] : mount \in mounted} |->
                    (CHOOSE mount \in mounted : mount[1] = reader)[2]] IN
  drawn @@ DrawAll(page, askedOf, s, finalized)

\* One pass of the renderer over the page, parents first: two levels below the roots.
Redraw(page, mode, selected, s, finalized) ==
  LET asked == [reader \in {DetailReader : one \in selected} |-> CHOOSE one \in selected : TRUE]
               @@ (IF mode = "pretty" THEN StructureReader :> NotAsked @@ InteractionReader :> NotAsked
                   ELSE RawReader :> NotAsked)
      roots == DrawAll(page, asked, s, finalized) IN
  FoldLeft(LAMBDA drawn, level : DrawBelow(drawn, page, s, finalized), roots, <<1, 2>>)

\* mark_dirty
Notify(page, marks) ==
  [reader \in DOMAIN page |->
     [page[reader] EXCEPT !.due = @ \/ \E scope \in page[reader].reads, mark \in marks : Reaches(mark, scope)]]

\* A snapshot marks the root: every reader is due.
NotifyAll(page) == [reader \in DOMAIN page |-> [page[reader] EXCEPT !.due = TRUE]]

AllDrawn(page) == \A reader \in DOMAIN page : ~page[reader].due
=============================================================================
