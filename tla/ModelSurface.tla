---------------------------- MODULE ModelSurface ----------------------------
(***************************************************************************)
(* What the model is shown of a conversation: the Model Surface derived    *)
(* from the event log (model/surface.rs), and the compactions that replace *)
(* a prefix of it (compaction_plan in turn.rs).  The log keeps everything; *)
(* a compaction only says through which event its replacement speaks.  An  *)
(* opaque replacement is of use to the model that made it, so a thread may *)
(* have several compactions, each applicable to other models.              *)
(*                                                                         *)
(* An item of a surface is the position in the log it was derived from.    *)
(***************************************************************************)
EXTENDS Naturals, Sequences, FiniteSets, FiniteSetsExt, SequencesExt

CONSTANTS
  Models,          \* replay keys of models; "none": a model without one
  StateKinds,      \* sequence of the synchronised kinds, in surface order
  Retained,        \* tokens a compaction leaves in place (16 000 in the code)
  MaxEvents,       \* bound: length of the log
  MaxMessages,     \* bound: user messages, and assistant messages, in the log
  MaxCalls,        \* bound: tool calls in the log
  MaxVersions,     \* bound: synchronisations of one kind
  MaxCompactions,  \* bound: compactions in the log
  MaxTurns,        \* bound: turns
  MaxSwitches      \* bound: changes of the model and rewinds

ASSUME ConstantsAssumption ==
  /\ StateKinds \in Seq({"instructions", "skills", "runners"})
  /\ Retained \in Nat \ {0} /\ "summary" \notin Models
  /\ {MaxEvents, MaxMessages, MaxCalls, MaxVersions} \subseteq Nat
  /\ {MaxCompactions, MaxTurns, MaxSwitches} \subseteq Nat

VARIABLES
  log,       \* the thread's events
  model,     \* the thread's model, by its replay key
  running,   \* a turn runs and has closed the calls it found open
  turns, switches   \* bounds

vars == <<log, model, running, turns, switches>>

Synchronised == ToSet(StateKinds)
Conversation == {"user", "assistant", "call", "result"}
Kinds == Conversation \cup Synchronised \cup {"context", "note", "compaction"}

\* id: the call of a call or result.  through, key, covers: of a compaction;
\* covers is history: the positions its replacement was made from.
Event(kind, id) == [kind |-> kind, id |-> id, through |-> 0, key |-> "none", covers |-> {}]

\* A note stands for the kinds compaction_event_tokens gives no weight; every
\* other event is one token.
Weighty(e) == e.kind \notin {"context", "note", "compaction"}

PositionsOf(kind, positions) == {n \in positions : log[n].kind = kind}
LastOf(positions) == Max(positions \cup {0})
InOrder(positions) == SelectSeq([n \in DOMAIN log |-> n], LAMBDA n : n \in positions)

-----------------------------------------------------------------------------
(* model/surface.rs                                                        *)

\* applicable_compaction
Applicable(positions, key) ==
  LastOf({n \in PositionsOf("compaction", positions) : log[n].key \in {"summary", key}})

Through(compaction) == IF compaction = 0 THEN 0 ELSE log[compaction].through

\* append_shadowed_state: the current value of a kind the compaction hides.
ShadowedStateFirst(positions, through) ==   \* mutant: the oldest value of a kind
  LET hidden(kind) == /\ PositionsOf(kind, positions) # {}
                      /\ \A n \in PositionsOf(kind, positions) : n <= through
      kinds == SelectSeq(StateKinds, hidden)
  IN  [k \in DOMAIN kinds |-> Min(PositionsOf(kinds[k], positions))]

ShadowedState(positions, through) ==
  LET hidden(kind) == /\ PositionsOf(kind, positions) # {}
                      /\ \A n \in PositionsOf(kind, positions) : n <= through
      kinds == SelectSeq(StateKinds, hidden)
  IN  [k \in DOMAIN kinds |-> LastOf(PositionsOf(kinds[k], positions))]

\* derive, of the events at `positions` of the log
Surface(positions, key) ==
  LET compaction == Applicable(positions, key)
      through == Through(compaction)
      events == {n \in positions : n > through /\ log[n].kind \in Conversation \cup Synchronised}
      replaced == IF compaction = 0 THEN <<>>
                    ELSE <<compaction>> \o ShadowedState(positions, through)
  IN  InOrder(PositionsOf("context", positions)) \o replaced \o InOrder(events)

-----------------------------------------------------------------------------
(* compaction_plan: which prefix of the surface to replace.                *)

Active(key) ==
  LET compaction == Applicable(DOMAIN log, key)
      context == PositionsOf("context", DOMAIN log)
      start == IF compaction # 0 THEN Through(compaction)
               ELSE IF context = {} THEN 0 ELSE Min(context)
  IN  InOrder({n \in DOMAIN log : n > start /\ log[n].kind # "compaction"})

\* The shortest suffix of at least Retained tokens stays.
TokenSplit(active) ==
  LastOf({s \in 0..Len(active) :
    Cardinality({n \in (s + 1)..Len(active) : Weighty(log[active[n]])}) >= Retained})

\* Positions in `active` of the calls up to `split` whose results come later.
CallsCut(active, split) ==
  {c \in 1..split : /\ log[active[c]].kind = "call"
                    /\ \E r \in (split + 1)..Len(active) :
                         log[active[r]].kind = "result" /\ log[active[r]].id = log[active[c]].id}

\* preserve_references: move the split before a call that would lose its
\* result, until no call does.
PreserveNothing(active, split) == split   \* mutant

PreserveReferences(active, split) ==
  LET preserved[s \in 0..Len(active)] ==
        IF CallsCut(active, s) = {} THEN s ELSE preserved[Min(CallsCut(active, s)) - 1]
  IN  preserved[split]

\* The position to compact through, 0 if there is nothing to compact.
PlanThrough(key) ==
  LET active == Active(key)
      split == PreserveReferences(active, TokenSplit(active))
  IN  IF split = 0 THEN 0 ELSE active[split]

\* compaction_prefix: the events the summary is made from.
CompactionPrefix(key) ==
  1..PlanThrough(key) \cup (IF Applicable(DOMAIN log, key) = 0 THEN {} ELSE {Applicable(DOMAIN log, key)})

-----------------------------------------------------------------------------
(* The turns that write the log.                                           *)

\* Calls after the last compaction without a result (active_tool_events).
OpenCalls ==
  LET recent == {n \in DOMAIN log : n > LastOf(PositionsOf("compaction", DOMAIN log))}
  IN  {n \in PositionsOf("call", recent) :
         \A r \in PositionsOf("result", recent) : log[r].id # log[n].id}

Count(kind) == Cardinality(PositionsOf(kind, DOMAIN log))
Room(n) == Len(log) + n <= MaxEvents

TypeOK ==
  /\ Len(log) \in 1..MaxEvents
  /\ \A n \in DOMAIN log : log[n].kind \in Kinds /\ (log[n].kind = "compaction" => log[n].through \in 2..(n - 2))
  /\ model \in Models
  /\ running \in BOOLEAN
  /\ turns \in 0..MaxTurns /\ switches \in 0..MaxSwitches

Init ==
  /\ log = <<Event("context", 0)>>
  /\ model \in Models
  /\ running = FALSE
  /\ turns = 0 /\ switches = 0

\* prepare_thread_for_turn
BeginTurn ==
  /\ ~running /\ turns < MaxTurns /\ Room(Cardinality(OpenCalls))
  /\ LET open == InOrder(OpenCalls) IN
       log' = log \o [n \in DOMAIN open |-> Event("result", log[open[n]].id)]
  /\ running' = TRUE
  /\ turns' = turns + 1
  /\ UNCHANGED <<model, switches>>

\* The turn ended, or failed between the calls of a response.
EndTurn ==
  /\ running /\ Room(1)
  /\ log' = Append(log, Event("note", 0))
  /\ running' = FALSE
  /\ UNCHANGED <<model, turns, switches>>

Write(event) ==
  /\ running /\ Room(1)
  /\ log' = Append(log, event)
  /\ UNCHANGED <<model, running, turns, switches>>

\* sync_workspace_instructions, sync_skills, sync_runners: what changed
Sync(kind) == OpenCalls = {} /\ Count(kind) < MaxVersions /\ Write(Event(kind, 0))

Say == Count("assistant") < MaxMessages /\ Write(Event("assistant", 0))
Ask == OpenCalls = {} /\ Count("user") < MaxMessages /\ Write(Event("user", 0))

\* The calls of a response come before their results, which come in order.
CallTool ==
  /\ Count("call") < MaxCalls
  /\ OpenCalls # {} => Last(log).kind # "result"
  /\ Write(Event("call", Count("call") + 1))

ReturnResult == OpenCalls # {} /\ Write(Event("result", log[Min(OpenCalls)].id))

\* compact_history: the request, and what the provider made of the prefix.
Compact ==
  /\ running /\ OpenCalls = {} /\ Room(2) /\ Count("compaction") < MaxCompactions
  /\ PlanThrough(model) # 0
  /\ \E key \in {"summary"} \cup ({model} \ {"none"}) :
       LET shown == ToSet(Surface(CompactionPrefix(model), model)) IN
       log' = log \o <<Event("note", 0),
         [kind |-> "compaction", id |-> 0, through |-> PlanThrough(model), key |-> key,
          covers |-> shown \cup UNION {log[n].covers : n \in shown}]>>
  /\ UNCHANGED <<model, running, turns, switches>>

\* set_thread_model
SetModel ==
  /\ ~running /\ switches < MaxSwitches
  /\ model' \in Models \ {model}
  /\ switches' = switches + 1
  /\ UNCHANGED <<log, running, turns>>

\* replace_history, and the log of a fork
Rewind ==
  /\ ~running /\ switches < MaxSwitches
  /\ \E n \in PositionsOf("user", DOMAIN log) \cup PositionsOf("assistant", DOMAIN log) :
       log' = SubSeq(log, 1, IF log[n].kind = "user" THEN n - 1 ELSE n)
  /\ switches' = switches + 1
  /\ UNCHANGED <<model, running, turns>>

Next ==
  \/ BeginTurn \/ EndTurn \/ Say \/ Ask \/ CallTool \/ ReturnResult
  \/ Compact \/ SetModel \/ Rewind
  \/ \E kind \in Synchronised : Sync(kind)

Spec == Init /\ [][Next]_vars

-----------------------------------------------------------------------------
(* What every model sees, whichever the thread uses next.                  *)

Shown(key) == Surface(DOMAIN log, key)

\* A model is never shown a result without its call before it, nor - once the
\* turn has its results - a call without its result, whatever was compacted by
\* whom and rewound since.  (preserve_references, applicable_compaction)
ShowsCallsWithResults ==
  \A key \in Models :
    LET shown == Shown(key) IN
    /\ \A r \in DOMAIN shown : log[shown[r]].kind = "result" =>
         \E c \in 1..(r - 1) :
           log[shown[c]].kind = "call" /\ log[shown[c]].id = log[shown[r]].id
    /\ (running /\ OpenCalls = {}) =>
         \A c \in DOMAIN shown : log[shown[c]].kind = "call" =>
           \E r \in DOMAIN shown :
             log[shown[r]].kind = "result" /\ log[shown[r]].id = log[shown[c]].id

\* The last a model is shown of the instructions, the skills or the runners is
\* what holds now, also when a compaction hides the event.
\* (append_shadowed_state)
ShowsCurrentState ==
  \A key \in Models, kind \in Synchronised :
    PositionsOf(kind, DOMAIN log) # {} =>
      LET shown == SelectSeq(Shown(key), LAMBDA n : log[n].kind = kind) IN
      shown # <<>> /\ Last(shown) = Max(PositionsOf(kind, DOMAIN log))

\* Nothing is forgotten: what a model is not shown was shown to the one that
\* made the replacement it is shown and can read, or stands behind a replacement
\* that one was shown.  (applicable_compaction, compaction_prefix)
NothingForgotten ==
  \A key \in Models :
    LET shown == ToSet(Shown(key)) IN
    \A n \in DOMAIN log : log[n].kind \in Conversation =>
      \/ n \in shown
      \/ \E c \in shown : log[c].key \in {"summary", key} /\ n \in log[c].covers

\* Moving the split step by step finds the longest prefix that cuts no call
\* from its result.  (preserve_references)
PreservesLongestPrefix ==
  LET active == Active(model) IN
  \A split \in 0..Len(active) :
    PreserveReferences(active, split) = Max({s \in 0..split : CallsCut(active, s) = {}})

\* What a model is shown is whole, current and well formed.
SurfaceIsSound ==
  TypeOK /\ ShowsCallsWithResults /\ ShowsCurrentState /\ NothingForgotten

\* A compaction takes as much as it may, and always hides more than the one
\* before it, so compacting again and again comes to an end.
\* (preserve_references, compaction_plan)
CompactionAdvances ==
  [][/\ PreservesLongestPrefix
     /\ Len(log') > Len(log) /\ Last(log').kind = "compaction"
          => Last(log').through > Through(Applicable(DOMAIN log, model))]_vars
=============================================================================
